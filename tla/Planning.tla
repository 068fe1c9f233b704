------------------------------ MODULE Planning ------------------------------
(***************************************************************************)
(* manual.investigation events of one investigation: ingress through the   *)
(* API, the CLI or Kafka and the router daemon (use_cases/                 *)
(* route_and_enqueue.py, dispatch_event.py, interfaces/ingress/), the LLM  *)
(* planner that runs in the background (plan_investigation.py,             *)
(* async_manual_investigation.py) and the investigation document that it   *)
(* shares with the workers (infrastructure/memory/stores.py).              *)
(*                                                                         *)
(* inProcess: the in-memory store, whose get returns the stored object, so *)
(* that everyone updates the same one.  ~inProcess: Postgres, where get    *)
(* returns a copy and upsert replaces the whole document.                  *)
(***************************************************************************)
EXTENDS Naturals, Sequences

CONSTANTS
  Personas,       \* personas that are known to the registry
  Answers,        \* what the LLM may answer: sequences of persona names
  Fallback,       \* planner_fallback_personas
  Events,         \* the events, all with the same correlation_id
  Workers,        \* the workers: requests for a job in process, or worker daemons
  Deployments     \* the settings and bounds to explore: see Deployment

(* The settings of a deployment, which do not change while it runs, and    *)
(* the bounds within which its behaviours are explored.                    *)
Deployment ==
  [inProcess : BOOLEAN,      \* in-memory store (see above)
   useKafka : BOOLEAN,       \* ingress publishes to security.events.raw
   asyncPlanner : BOOLEAN,   \* manual_investigation_async
   arriving : SUBSET Events, \* bound: the events that come in
   answers : SUBSET Answers, \* bound: what the LLM answers here
   maxSamples : Nat,         \* bound: quality samples
   maxFaults : Nat]          \* bound: crashes of the API, failed catalog reads, double deliveries

ASSUME PlanningAssumption ==
  /\ Fallback \in Seq(Personas) /\ Fallback # << >>
  /\ Deployments \subseteq Deployment

VARIABLES
  setup,    \* the deployment
  doc,      \* the stored InvestigationState
  trust,    \* empirical_trust of a persona: 0 is below the trust floor
  pc, via,  \* per event: how far it is, and which process dispatches it
  local,    \* per event: the planner's copy of the document
  plan,     \* per event: the plan and how it was made
  jobs,     \* per event: its jobs, in plan order
  worker,   \* per worker: its job, how far it is and the copy of the document it read
  record,   \* history, of jobs <<event, position>>: see NoRecord
  samples, faults

vars == <<setup, doc, trust, pc, via, local, plan, jobs, worker, record, samples, faults>>

NoDocument == [exists |-> FALSE, planner |-> "none", plan |-> {}, done |-> {}, findings |-> {}]
Idle == [job |-> << >>, at |-> "idle", snap |-> NoDocument]
(* The jobs that were started; that are marked as done; whose finding was    *)
(* appended; and of these the ones where somebody had an older copy then.   *)
NoRecord == [ran |-> {}, ended |-> {}, found |-> {}, exposed |-> {}]
Unplanned == [personas |-> << >>, status |-> "none"]

Init ==
  /\ setup \in Deployments
  /\ doc = NoDocument /\ trust = [p \in Personas |-> 1]
  /\ pc = [e \in Events |-> "new"] /\ via = [e \in Events |-> "none"]
  /\ local = [e \in Events |-> NoDocument]
  /\ plan = [e \in Events |-> Unplanned]
  /\ jobs = [e \in Events |-> << >>]
  /\ worker = [w \in Workers |-> Idle] /\ record = NoRecord
  /\ samples = 0 /\ faults = 0

(* The steps between which a task gives the event loop back.  Tasks of one *)
(* process interleave only there.                                          *)
Holding == {"begin", "missing", "beginMissing", "restart", "apply", "enqueue"}
LoopFree(e) == \A f \in Events \ {e} : pc[f] \in Holding => via[f] # via[e]

GoTo(e, from, to) == pc[e] = from /\ pc' = [pc EXCEPT ![e] = to]

-----------------------------------------------------------------------------
(* RouteAndEnqueueEvent.execute and aexecute: publish to Kafka or, without *)
(* Kafka or when publishing fails, dispatch here.                          *)
Ingest(e, entry) ==
  /\ \/ GoTo(e, "new", "dispatch") /\ via' = [via EXCEPT ![e] = entry]
     \/ setup.useKafka /\ GoTo(e, "new", "raw") /\ UNCHANGED via
  /\ UNCHANGED <<setup, doc, trust, local, plan, jobs, worker, record, samples, faults>>

(* RouterConsumer.process_one *)
Consume(e) ==
  /\ GoTo(e, "raw", "dispatch")
  /\ via' = [via EXCEPT ![e] = "router"]
  /\ UNCHANGED <<setup, doc, trust, local, plan, jobs, worker, record, samples, faults>>

(* dispatch_sync plans without the LLM and without the document. *)
DispatchSync(e) ==
  /\ via[e] = "cli"
  /\ GoTo(e, "dispatch", "enqueue")
  /\ plan' = [plan EXCEPT ![e] = [personas |-> Fallback, status |-> "fallback"]]
  /\ UNCHANGED <<setup, doc, trust, via, local, jobs, worker, record, samples, faults>>

(* dispatch_async with manual_investigation_async off plans at once. *)
DispatchInline(e) ==
  /\ via[e] # "cli" /\ ~setup.asyncPlanner
  /\ GoTo(e, "dispatch", "accepted")
  /\ UNCHANGED <<setup, doc, trust, via, local, plan, jobs, worker, record, samples, faults>>

(* begin_planning: get ... *)
BeginRead(e) ==
  /\ LoopFree(e)
  /\ \/ via[e] # "cli" /\ setup.asyncPlanner /\ GoTo(e, "dispatch", "begin")
     \/ GoTo(e, "missing", "beginMissing")
  /\ local' = [local EXCEPT ![e] = doc]
  /\ UNCHANGED <<setup, doc, trust, via, plan, jobs, worker, record, samples, faults>>

(* Mutant: the in-memory get returns a copy. *)
Base_Copy(e) == local[e]

(* The document that a task's upsert starts from. *)
Base(e) == IF setup.inProcess THEN doc ELSE local[e]

(* ... and upsert.  The API answers 202 and starts a task that plans; the  *)
(* router daemon has nothing more to do.                                   *)
BeginWrite(e) ==
  /\ \/ GoTo(e, "begin", IF via[e] = "api" THEN "accepted" ELSE "stranded")
     \/ GoTo(e, "beginMissing", "asking")
  /\ doc' = [Base(e) EXCEPT !.exists = TRUE, !.planner = "planning", !.plan = {}]
  /\ local' = [local EXCEPT ![e] = doc']
  /\ UNCHANGED <<setup, trust, via, plan, jobs, worker, record, samples, faults>>

-----------------------------------------------------------------------------
(* PlanInvestigation.execute *)

PlannerRead(e) ==
  /\ LoopFree(e)
  /\ GoTo(e, "accepted", IF ~doc.exists THEN "missing"
                         ELSE IF doc.planner = "planning" THEN "asking" ELSE "restart")
  /\ local' = [local EXCEPT ![e] = doc]
  /\ UNCHANGED <<setup, doc, trust, via, plan, jobs, worker, record, samples, faults>>

PlannerRestart(e) ==
  /\ GoTo(e, "restart", "asking")
  /\ doc' = [Base(e) EXCEPT !.planner = "planning"]
  /\ local' = [local EXCEPT ![e] = doc']
  /\ UNCHANGED <<setup, trust, via, plan, jobs, worker, record, samples, faults>>

(* Mutant: no fallback for an answer without a known persona. *)
Chosen_NoFallback(answer) == SelectSeq(answer, LAMBDA p : p \in Personas)

(* Unknown personas are dropped, an empty plan is replaced ... *)
Chosen(answer) ==
  LET known == SelectSeq(answer, LAMBDA p : p \in Personas)
  IN  IF known = << >> THEN Fallback ELSE known

(* ... and rank_personas_by_quality drops the ones below the trust floor   *)
(* and puts the others in order of trust.                                  *)
RankByQuality(s) ==
  SelectSeq(s, LAMBDA p : trust[p] = 2) \o SelectSeq(s, LAMBDA p : trust[p] = 1)

PlannerAnswers(e, answer) ==
  /\ LoopFree(e)
  /\ GoTo(e, "asking", "apply")
  /\ plan' = [plan EXCEPT ![e] = [personas |-> RankByQuality(Chosen(answer)),
                                  status |-> "ok"]]
  /\ UNCHANGED <<setup, doc, trust, via, local, jobs, worker, record, samples, faults>>

(* The LLM call raises: the fallback plan as it is. *)
PlannerFails(e) ==
  /\ LoopFree(e)
  /\ GoTo(e, "asking", "apply")
  /\ plan' = [plan EXCEPT ![e] = [personas |-> Fallback, status |-> "fallback"]]
  /\ UNCHANGED <<setup, doc, trust, via, local, jobs, worker, record, samples, faults>>

(* _available_personas raises, outside the try: the task ends in a log     *)
(* message.  Or the API process dies and its tasks with it.                *)
PlannerDies(e) ==
  /\ faults < setup.maxFaults /\ faults' = faults + 1
  /\ GoTo(e, "asking", "dead")
  /\ UNCHANGED <<setup, doc, trust, via, local, plan, jobs, worker, record, samples>>

ApiCrash ==
  LET hit == {e \in Events : via[e] = "api" /\ pc[e] \notin {"new", "done", "dead"}}
  IN  /\ faults < setup.maxFaults /\ faults' = faults + 1
      /\ hit # {}
      /\ pc' = [e \in Events |-> IF e \in hit THEN "dead" ELSE pc[e]]
      /\ UNCHANGED <<setup, doc, trust, via, local, plan, jobs, worker, record, samples>>

(* Mutant: forgets planner_plan. *)
ApplyPlan_StatusOnly(e) ==
  /\ GoTo(e, "apply", "enqueue")
  /\ doc' = [Base(e) EXCEPT !.planner = plan[e].status]
  /\ UNCHANGED <<setup, trust, via, local, plan, jobs, worker, record, samples, faults>>

(* _apply_plan_to_state writes the planner's copy of the document back. *)
ApplyPlan(e) ==
  /\ GoTo(e, "apply", "enqueue")
  /\ doc' = [Base(e) EXCEPT !.planner = plan[e].status, !.plan = {plan[e].personas}]
  /\ UNCHANGED <<setup, trust, via, local, plan, jobs, worker, record, samples, faults>>

(* dispatch_async asks for a chain only if the plan has a depends_on, which *)
(* _parse_plan never sets.                                                 *)
ChainRequested(e) == via[e] = "cli" \/ setup.asyncPlanner

(* Mutant: every job depends on the first one. *)
JobsFor_Star(personas, chain) ==
  [k \in DOMAIN personas |->
     [persona |-> personas[k],
      depends |-> IF chain /\ k - 1 \in DOMAIN personas THEN {personas[1]} ELSE {}]]

(* _jobs_for_routing: in a chain a job depends on the one before it. *)
JobsFor(personas, chain) ==
  [k \in DOMAIN personas |->
     [persona |-> personas[k],
      depends |-> IF chain /\ k - 1 \in DOMAIN personas THEN {personas[k - 1]} ELSE {}]]

EnqueuePlan(e) ==
  /\ GoTo(e, "enqueue", "done")
  /\ jobs' = [jobs EXCEPT ![e] = JobsFor(plan[e].personas, ChainRequested(e))]
  /\ UNCHANGED <<setup, doc, trust, via, local, plan, worker, record, samples, faults>>

-----------------------------------------------------------------------------
(* The workers, as far as the document is concerned: a job runs when its   *)
(* dependency is done, its finding is appended to the document unless it   *)
(* fails, and then its persona is marked as done.  In memory each of the   *)
(* two updates is made under a lock; with Postgres it reads the document   *)
(* and later writes all of it, without a transaction.                      *)

(* Mutant: the dependency is not waited for. *)
RunJob_Early(w, e, k) ==
  /\ worker[w] = Idle /\ k \in DOMAIN jobs[e] /\ <<e, k>> \notin record.ran
  /\ record' = [record EXCEPT !.ran = @ \cup {<<e, k>>}]
  /\ worker' = [worker EXCEPT ![w] = [job |-> <<e, k>>, at |-> "running", snap |-> NoDocument]]
  /\ UNCHANGED <<setup, doc, trust, pc, via, local, plan, jobs, samples, faults>>

(* Redis gives a job to two workers when both read it before one deletes it. *)
RunJob(w, e, k) ==
  /\ worker[w] = Idle /\ k \in DOMAIN jobs[e]
  /\ jobs[e][k].depends \subseteq doc.done
  /\ \/ <<e, k>> \notin record.ran /\ UNCHANGED faults
     \/ /\ <<e, k>> \in record.ran /\ ~setup.inProcess
        /\ faults < setup.maxFaults /\ faults' = faults + 1
  /\ record' = [record EXCEPT !.ran = @ \cup {<<e, k>>}]
  /\ worker' = [worker EXCEPT ![w] = [job |-> <<e, k>>, at |-> "running", snap |-> NoDocument]]
  /\ UNCHANGED <<setup, doc, trust, pc, via, local, plan, jobs, samples>>

(* get: the copy that append_finding or mark_persona_done changes. *)
ReadDocument(w) ==
  /\ ~setup.inProcess /\ worker[w].at \in {"running", "found"}
  /\ worker' = [worker EXCEPT ![w] = [job |-> @.job, snap |-> doc,
                                        at |-> IF @.at = "running" THEN "append" ELSE "mark"]]
  /\ UNCHANGED <<setup, doc, trust, pc, via, local, plan, jobs, record, samples, faults>>

(* The document that a worker's upsert starts from. *)
WorkerBase(w) == IF setup.inProcess THEN doc ELSE worker[w].snap

(* Who has read the document and is going to write what it makes of it. *)
PlannerHolds(e) == pc[e] \in {"begin", "beginMissing", "restart", "asking", "apply"}
WorkerHolds(w) == worker[w].at \in {"append", "mark"}
Overlapped(w) ==
  ~setup.inProcess /\ \/ \E v \in Workers \ {w} : WorkerHolds(v)
                      \/ \E e \in Events : PlannerHolds(e)

AppendFinding(w) ==
  /\ worker[w].at = IF setup.inProcess THEN "running" ELSE "append"
  /\ doc' = [WorkerBase(w) EXCEPT !.exists = TRUE, !.findings = @ \cup {worker[w].job}]
  /\ worker' = [worker EXCEPT ![w] = [job |-> @.job, at |-> "found", snap |-> NoDocument]]
  /\ record' = [record EXCEPT !.found = @ \cup {worker[w].job},
                              !.exposed = IF Overlapped(w) THEN @ \cup {worker[w].job} ELSE @]
  /\ UNCHANGED <<setup, trust, pc, via, local, plan, jobs, samples, faults>>

(* A job that fails has no finding but marks its persona as done as well. *)
JobFails(w) ==
  /\ worker[w].at = "running"
  /\ worker' = [worker EXCEPT ![w] = [job |-> @.job, at |-> "found", snap |-> @.snap]]
  /\ UNCHANGED <<setup, doc, trust, pc, via, local, plan, jobs, record, samples, faults>>

MarkDone(w) ==
  /\ worker[w].at = IF setup.inProcess THEN "found" ELSE "mark"
  /\ doc' = [WorkerBase(w) EXCEPT !.exists = TRUE,
                                  !.done = @ \cup {jobs[worker[w].job[1]][worker[w].job[2]].persona}]
  /\ worker' = [worker EXCEPT ![w] = Idle]
  /\ record' = [record EXCEPT !.ended = @ \cup {worker[w].job}]
  /\ UNCHANGED <<setup, trust, pc, via, local, plan, jobs, samples, faults>>

(* UpdatePersonaQuality moves empirical_trust towards a sample. *)
QualitySample(p, t) ==
  /\ samples < setup.maxSamples /\ samples' = samples + 1
  /\ t \in {trust[p] - 1, trust[p] + 1} \cap 0..2
  /\ trust' = [trust EXCEPT ![p] = t]
  /\ UNCHANGED <<setup, doc, pc, via, local, plan, jobs, worker, record, faults>>

-----------------------------------------------------------------------------
PlanTask(e) ==
  \/ DispatchSync(e) \/ DispatchInline(e) \/ BeginRead(e) \/ BeginWrite(e)
  \/ PlannerRead(e) \/ PlannerRestart(e)
  \/ \E a \in setup.answers : PlannerAnswers(e, a)
  \/ PlannerFails(e) \/ ApplyPlan(e) \/ EnqueuePlan(e)

Work(w) ==
  \/ ReadDocument(w) \/ AppendFinding(w) \/ JobFails(w) \/ MarkDone(w)
  \/ \E e \in Events : \E k \in DOMAIN jobs[e] : RunJob(w, e, k)

Next ==
  \/ \E e \in setup.arriving, entry \in {"api", "cli"} : Ingest(e, entry)
  \/ \E e \in Events :
       Consume(e) \/ PlanTask(e) \/ PlannerDies(e)
  \/ ApiCrash
  \/ \E w \in Workers : Work(w)
  \/ \E p \in Personas, t \in 0..2 : QualitySample(p, t)

Spec == Init /\ [][Next]_vars

(* Tasks and the router daemon go on; clients, workers, faults and samples *)
(* need not.                                                               *)
FairSpec ==
  /\ Spec
  /\ \A e \in Events : WF_vars(Consume(e)) /\ WF_vars(PlanTask(e))

-----------------------------------------------------------------------------
(* The parts of the inductive invariants. *)

IsDocument(d) ==
  d \in [exists : {d.exists}, planner : {d.planner}, plan : {d.plan},
         done : {d.done}, findings : {d.findings}]

TypeOK ==
  /\ setup \in Deployments
  /\ pc = [e \in Events |-> pc[e]] /\ via = [e \in Events |-> via[e]]
  /\ plan = [e \in Events |-> [personas |-> plan[e].personas, status |-> plan[e].status]]
  /\ jobs = [e \in Events |-> jobs[e]]
  /\ local = [e \in Events |-> local[e]] /\ \A e \in Events : IsDocument(local[e])
  /\ worker = [w \in Workers |-> [job |-> worker[w].job, at |-> worker[w].at, snap |-> worker[w].snap]]
  /\ \A w \in Workers : IsDocument(worker[w].snap)
  /\ record = [ran |-> record.ran, ended |-> record.ended, found |-> record.found, exposed |-> record.exposed]
  /\ IsDocument(doc)

(* The document and the copies of it that somebody may write back. *)
Versions == {doc} \cup {worker[w].snap : w \in Workers} \cup {local[e] : e \in Events}

(* A version with a finished plan has the one of an event that was enqueued *)
(* or was about to be.                                                      *)
PlanIsReal(d) ==
  d.planner \in {"ok", "fallback"} =>
    \E e \in Events : /\ d.plan = {plan[e].personas} /\ d.planner = plan[e].status
                      /\ pc[e] \in {"enqueue", "done", "dead"}
PlansAreReal == \A d \in Versions : PlanIsReal(d)

(* A job of a persona that a version has as done was marked as done. *)
DoneHasEnded ==
  \A d \in Versions : \A p \in d.done : \E i \in record.ended : jobs[i[1]][i[2]].persona = p

(* An event has its jobs once it is done, and keeps them. *)
JobsFollowPlan ==
  \A e \in Events : IF pc[e] = "done" THEN jobs[e] = JobsFor(plan[e].personas, ChainRequested(e))
                                      ELSE jobs[e] = << >>

RanIsEnqueued == \A j \in record.ran : \E e \in Events : \E k \in DOMAIN jobs[e] : j = <<e, k>>
WorkersHaveJobs == \A w \in Workers : worker[w] = Idle \/ worker[w].job \in record.ran
EndedHaveRun == record.ended \subseteq record.ran

(* Nobody is going to write a document back that lacks a finding which was *)
(* appended while nobody had another copy.                                 *)
CopiesAreFresh ==
  \A j \in record.found \ record.exposed :
    /\ j \in doc.findings
    /\ ~setup.inProcess => /\ \A w \in Workers : WorkerHolds(w) => j \in worker[w].snap.findings
                           /\ \A e \in Events : PlannerHolds(e) => j \in local[e].findings

-----------------------------------------------------------------------------
(* Whatever planners and workers interleave to, a finding that was appended *)
(* stays in the investigation document, unless it was appended between      *)
(* another worker's or a planner's read of the document and its write: that *)
(* can only be with Postgres.                                               *)
WorkKept == record.found \ record.exposed \subseteq doc.findings

(* With Postgres the chain is what keeps the workers apart: if the          *)
(* investigation has one event whose plan is a chain of different personas, *)
(* and no job is delivered twice, nobody has another copy of the document   *)
(* when a finding is appended.                                              *)
ChainKeepsApart ==
  /\ faults = 0 /\ \A d, e \in setup.arriving : d = e
  /\ \A e \in setup.arriving :
       ChainRequested(e) /\ \A k, m \in DOMAIN jobs[e] : jobs[e][k].persona = jobs[e][m].persona => k = m
  => record.exposed = {}

(* README: "LLM planner for manual.investigation with sequential worker     *)
(* chain".  When a chain was requested a job starts only after a job of the *)
(* persona before it in its plan has ended and is marked as done.  (With    *)
(* several events in an investigation, or a persona twice in a plan, that   *)
(* may be another job.)                                                     *)
RunsInChain ==
  \A j \in record.ran : ChainRequested(j[1]) /\ j[2] - 1 \in DOMAIN jobs[j[1]] =>
    \E i \in record.ended : jobs[i[1]][i[2]].persona = jobs[j[1]][j[2] - 1].persona

(* A document that shows the planner as finished shows the plan of an event *)
(* whose jobs are enqueued or about to be, unless the API died.             *)
ReadyPlanIsReal == PlanIsReal(doc)

(* Every event that reaches a dispatcher gets jobs, if the API survives and *)
(* no persona loses its trust, unless it came through the router daemon     *)
(* while the planner runs in the background: the daemon starts no planner.  *)
AcceptedIsEnqueued ==
  \A e \in Events :
    pc[e] \in {"raw", "dispatch"} ~>
      \/ jobs[e] # << >>
      \/ via[e] = "router" /\ setup.asyncPlanner
      \/ faults > 0 \/ samples > 0
=============================================================================
