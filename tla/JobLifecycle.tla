---------------------------- MODULE JobLifecycle ----------------------------
(***************************************************************************)
(* What the worker plane promises of the jobs of a plan, without queue,    *)
(* workers or stores: each job is accepted, started when its dependency    *)
(* allows, and finished once; a finished status is final; a job releases   *)
(* the jobs that depend on it whether it completes or fails.               *)
(***************************************************************************)
EXTENDS Naturals, Sequences

CONSTANTS Plan, Sequential

VARIABLES status, released

lifecycleVars == <<status, released>>

JobIds == DOMAIN Plan

Init ==
  /\ status = [j \in JobIds |-> "none"]
  /\ released = {}

Becomes(j, from, to) ==
  /\ status[j] = from
  /\ status' = [status EXCEPT ![j] = to]
  /\ UNCHANGED released

Startable(j) ==
  (Sequential /\ j > 1) => \E i \in released : Plan[i] = Plan[j - 1]

Accept(j) == Becomes(j, "none", "pending")
Start(j) == Startable(j) /\ Becomes(j, "pending", "running")

(* A job whose sandbox cannot be created fails without having run. *)
Abort(j) == Startable(j) /\ Becomes(j, "pending", "failed")
Fail(j) == j \notin released /\ Becomes(j, "running", "failed")

(* Success releases the dependents first and is recorded after. *)
Complete(j) == j \in released /\ Becomes(j, "running", "completed")

Release(j) ==
  /\ status[j] \in {"running", "failed"} /\ j \notin released
  /\ released' = released \cup {j}
  /\ UNCHANGED status

JobStep(j) ==
  Accept(j) \/ Start(j) \/ Abort(j) \/ Fail(j) \/ Complete(j) \/ Release(j)

Next == \E j \in JobIds : JobStep(j)

Spec == Init /\ [][Next]_lifecycleVars
=============================================================================
