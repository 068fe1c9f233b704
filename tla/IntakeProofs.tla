---------------------------- MODULE IntakeProofs ----------------------------
(***************************************************************************)
(* For any plans, any alerts and any number of requests, workers and       *)
(* faults: the cursor of the poll connector passes no alert that was not   *)
(* handed over, the Kubernetes jobs that remain are accounted for, the     *)
(* router's loops decide what the reference wants, and the jobs that are   *)
(* made of a decision are the ones it asks for.                            *)
(***************************************************************************)
EXTENDS Intake, FiniteSetTheorems, SequenceTheorems, WellFoundedInduction, TLAPS

Tasks == Requests \cup {Router}

Settled(a) == Poisoned(a) \/ a \in accepted

(* A task is a record; its step and its alert are all the proof looks at. *)
TasksTyped ==
  /\ DOMAIN tasks = Tasks
  /\ \A t \in Tasks : DOMAIN tasks[t] = {"step", "alert", "todo", "at"}

PollTyped == since \in Nat /\ upto \in Nat /\ next \in Nat /\ waiting \in Nat

(* While a poll is under way everything before its position is settled ... *)
PassedSettled ==
  /\ \A a \in 1..since : Settled(a)
  /\ polling => \A a \in 1..(next - 1) : Settled(a)

(* ... the request it waits for is about the alert at its position ... *)
WaitsForNext ==
  waiting # 0 => polling /\ waiting \in Requests /\ tasks[waiting].alert = next

(* ... and a request is answered only for an alert that is accepted. *)
AnsweredAccepted ==
  \A r \in Requests : tasks[r].step = "answered" => tasks[r].alert \in accepted

IInv == TasksTyped /\ PollTyped /\ PassedSettled /\ WaitsForNext /\ AnsweredAccepted

-----------------------------------------------------------------------------
(* Router is not a request. *)
LEMMA RequestsApart == Router \in Tasks /\ Requests \subseteq Tasks /\ Router \notin Requests
  BY BoundAssumption DEF Router, Tasks, Requests

LEMMA InitInv == Init => IInv
  BY RequestsApart DEF Init, IInv, TasksTyped, PollTyped, PassedSettled, WaitsForNext,
     AnsweredAccepted, Settled, NoTask, Tasks

(* A step of the API or of the router: the poll is left alone, no request  *)
(* changes its alert, and one that becomes answered has it accepted.       *)
ServesRequests ==
  /\ UNCHANGED <<since, polling, upto, next, waiting>>
  /\ accepted \subseteq accepted'
  /\ TasksTyped'
  /\ \A r \in Requests :
       /\ tasks'[r].alert = tasks[r].alert
       /\ tasks'[r].step = "answered" => tasks'[r].alert \in accepted'

LEMMA ServingKeepsInv == IInv /\ ServesRequests => IInv'
  BY DEF IInv, ServesRequests, PollTyped, PassedSettled, WaitsForNext, AnsweredAccepted,
     Settled, Poisoned

LEMMA PollKeepsInv == IInv /\ Poll => IInv'
<1> SUFFICES ASSUME IInv, Poll PROVE IInv'
  OBVIOUS
<1> USE RequestsApart
<1>1. CASE FetchAlerts
  BY <1>1 DEF FetchAlerts, IInv, TasksTyped, PollTyped, PassedSettled, WaitsForNext,
     AnsweredAccepted, Settled, Poisoned
<1>2. CASE SkipPoisoned
  BY <1>2 DEF SkipPoisoned, IInv, TasksTyped, PollTyped, PassedSettled, WaitsForNext,
     AnsweredAccepted, Settled, Poisoned
<1>3. CASE \E r \in Requests : PostEvent(r)
  <2> PICK r \in Requests : PostEvent(r)
    BY <1>3
  <2>1. TasksTyped'
    BY DEF PostEvent, IInv, TasksTyped
  <2>2. tasks'[r].alert = next /\ tasks'[r].step = "publish"
    BY DEF PostEvent, IInv, TasksTyped
  <2>3. \A q \in Requests : q # r => tasks'[q] = tasks[q]
    BY DEF PostEvent, IInv, TasksTyped
  <2> QED
    BY <2>1, <2>2, <2>3 DEF PostEvent, IInv, PollTyped, PassedSettled, WaitsForNext,
       AnsweredAccepted, Settled, Poisoned, Requests
<1>4. CASE PostAnswered
  <2>1. next \in accepted
    BY <1>4 DEF PostAnswered, IInv, WaitsForNext, AnsweredAccepted
  <2> QED
    BY <1>4, <2>1 DEF PostAnswered, IInv, TasksTyped, PollTyped, PassedSettled,
       WaitsForNext, AnsweredAccepted, Settled, Poisoned
<1>5. CASE PollRaises
  BY <1>5 DEF PollRaises, IInv, TasksTyped, PollTyped, PassedSettled, WaitsForNext,
     AnsweredAccepted, Settled, Poisoned
<1>6. CASE PollReturns
  BY <1>6 DEF PollReturns, IInv, TasksTyped, PollTyped, PassedSettled, WaitsForNext,
     AnsweredAccepted, Settled, Poisoned
<1> QED
  BY <1>1, <1>2, <1>3, <1>4, <1>5, <1>6 DEF Poll

(* The two ways in which a step writes to one task: it is given a new      *)
(* record (a request keeps its alert), or the step leaves the poll alone   *)
(* and no task is touched.                                                 *)
Rewrites(t, new) ==
  /\ tasks' = [tasks EXCEPT ![t] = new]
  /\ DOMAIN new = {"step", "alert", "todo", "at"}
  /\ t \in Requests => /\ new.alert = tasks[t].alert
                       /\ new.step = "answered" => new.alert \in accepted'

PollAlone ==
  accepted \subseteq accepted' /\ UNCHANGED <<since, polling, upto, next, waiting>>

LEMMA RewriteServes ==
  ASSUME IInv, PollAlone, NEW t \in Tasks, NEW new, Rewrites(t, new) PROVE ServesRequests
  BY RequestsApart
     DEF Rewrites, PollAlone, ServesRequests, IInv, TasksTyped, AnsweredAccepted

LEMMA NoTaskServes ==
  ASSUME IInv, PollAlone, UNCHANGED tasks PROVE ServesRequests
  BY RequestsApart DEF PollAlone, ServesRequests, IInv, TasksTyped, AnsweredAccepted

LEMMA PublishServes ==
  ASSUME IInv, NEW r \in Requests, PublishRawEvent(r) PROVE ServesRequests
<1> USE RequestsApart
<1>1. PollAlone
  BY DEF PublishRawEvent, PollAlone, pollVars
<1>2. CASE tasks' = [tasks EXCEPT ![r].step = "answered"]
              /\ accepted' = accepted \cup {tasks[r].alert}
  <2> DEFINE new == [tasks[r] EXCEPT !.step = "answered"]
  <2>1. Rewrites(r, new)
    BY <1>2 DEF Rewrites, IInv, TasksTyped
  <2> QED
    BY <1>1, <2>1, RewriteServes
<1>3. CASE tasks' = [tasks EXCEPT ![r] = Dispatching(@)]
  <2>1. Rewrites(r, Dispatching(tasks[r]))
    BY <1>3 DEF Rewrites, IInv, TasksTyped, Dispatching
  <2> QED
    BY <1>1, <2>1, RewriteServes
<1> QED
  BY <1>2, <1>3 DEF PublishRawEvent

(* A failing task: the router's is cleared, a request's keeps its alert. *)
LEMMA FailServes ==
  ASSUME IInv, PollAlone, NEW t \in Tasks, Fail(t) PROVE ServesRequests
<1> USE RequestsApart
<1>1. CASE t = Router
  <2>1. Rewrites(t, [NoTask EXCEPT !.step = "down"])
    BY <1>1 DEF Fail, Rewrites, NoTask
  <2> QED
    BY <2>1, RewriteServes
<1>2. CASE t # Router
  <2>1. Rewrites(t, [tasks[t] EXCEPT !.step = "failed"])
    BY <1>2 DEF Fail, Rewrites, IInv, TasksTyped
  <2> QED
    BY <2>1, RewriteServes
<1> QED
  BY <1>1, <1>2

LEMMA HandleServes ==
  ASSUME IInv, NEW t \in Tasks, Handle(t) PROVE ServesRequests
<1> USE RequestsApart
<1>1. PollAlone
  BY DEF Handle, EnqueueJob, Dispatched, PollAlone, pollVars
<1>2. CASE EnqueueJob(t)
  <2>1. CASE tasks' = [tasks EXCEPT ![t].todo = Tail(@)]
    <3>1. tasks[t].step = "jobs"
      BY <1>2 DEF EnqueueJob
    <3>2. Rewrites(t, [tasks[t] EXCEPT !.todo = Tail(@)])
      BY <2>1, <3>1 DEF Rewrites, IInv, TasksTyped
    <3> QED
      BY <1>1, <3>2, RewriteServes
  <2>2. CASE Fail(t)
    BY <1>1, <2>2, FailServes
  <2> QED
    BY <1>2, <2>1, <2>2 DEF EnqueueJob
<1>3. CASE Dispatched(t)
  <2>1. CASE t = Router
    <3>1. Rewrites(t, NoTask)
      BY <1>3, <2>1 DEF Dispatched, Rewrites, NoTask
    <3> QED
      BY <1>1, <3>1, RewriteServes
  <2>2. CASE t # Router
    <3>1. Rewrites(t, [tasks[t] EXCEPT !.step = "answered"])
      BY <1>3, <2>2 DEF Dispatched, Rewrites, IInv, TasksTyped
    <3> QED
      BY <1>1, <3>1, RewriteServes
  <2> QED
    BY <2>1, <2>2
<1> QED
  BY <1>2, <1>3 DEF Handle

LEMMA ListenServes == ASSUME IInv, Listen PROVE ServesRequests
<1> USE RequestsApart
<1>1. PollAlone
  BY DEF Listen, ConsumeRawEvent, StopConsumer, RestartRouter, PollAlone, pollVars
<1>2. CASE ConsumeRawEvent
  <2> DEFINE new == [tasks[Router] EXCEPT !.step = "fetched", !.alert = raw[offset + 1],
                                          !.at = offset + 1]
  <2>1. Rewrites(Router, new)
    BY <1>2 DEF ConsumeRawEvent, Rewrites, IInv, TasksTyped
  <2> QED
    BY <1>1, <2>1, RewriteServes
<1>3. CASE StopConsumer
  <2>1. Rewrites(Router, Dispatching(tasks[Router]))
    BY <1>3 DEF StopConsumer, Rewrites, IInv, TasksTyped, Dispatching
  <2> QED
    BY <1>1, <2>1, RewriteServes
<1>4. CASE RestartRouter
  <2>1. Rewrites(Router, NoTask)
    BY <1>4 DEF RestartRouter, Rewrites, NoTask
  <2> QED
    BY <1>1, <2>1, RewriteServes
<1> QED
  BY <1>2, <1>3, <1>4 DEF Listen

LEMMA CrashApiServes == ASSUME IInv, CrashApi PROVE ServesRequests
<1> USE RequestsApart
<1>1. PollAlone
  BY DEF CrashApi, PollAlone, pollVars
<1>2. \A t \in Tasks : /\ DOMAIN tasks'[t] = {"step", "alert", "todo", "at"}
                       /\ tasks'[t].alert = tasks[t].alert
                       /\ tasks'[t].step = "answered" => tasks[t].step = "answered"
  BY DEF CrashApi, IInv, TasksTyped
<1>3. DOMAIN tasks' = Tasks
  BY DEF CrashApi, IInv, TasksTyped
<1> QED
  BY <1>1, <1>2, <1>3 DEF PollAlone, ServesRequests, IInv, TasksTyped, AnsweredAccepted

(* Workers, outages and POST /workers/process-one touch neither side. *)
LEMMA WorkServes ==
  ASSUME IInv, NEW p \in Served, Work(p) \/ AutoCommit(p) \/ CrashWorker(p)
  PROVE ServesRequests
<1>1. PollAlone /\ UNCHANGED tasks
  BY DEF Work, Connect, Adequeue, CreateSandbox, RunJob, DestroySandbox, AutoCommit,
     CrashWorker, PollAlone, pollVars
<1> QED
  BY <1>1, NoTaskServes

LEMMA NextInv == IInv /\ [Next]_vars => IInv'
<1> SUFFICES ASSUME IInv, [Next]_vars PROVE IInv'
  OBVIOUS
<1> USE RequestsApart
<1>1. CASE Poll
  BY <1>1, PollKeepsInv
<1>2. CASE \E r \in Requests : PublishRawEvent(r)
  BY <1>2, PublishServes, ServingKeepsInv
<1>3. CASE \E t \in Requests \cup {Router} : Handle(t)
  BY <1>3, HandleServes, ServingKeepsInv DEF Tasks
<1>4. CASE Listen
  BY <1>4, ListenServes, ServingKeepsInv
<1>5. CASE CrashRouter
  <2>1. PollAlone /\ Fail(Router)
    BY <1>5 DEF CrashRouter, PollAlone, pollVars
  <2> QED
    BY <2>1, FailServes, ServingKeepsInv
<1>6. CASE CrashApi
  BY <1>6, CrashApiServes, ServingKeepsInv
<1>7. CASE ProcessOne \/ Outage \/ OutageEnds
  <2>1. PollAlone /\ UNCHANGED tasks
    BY <1>7 DEF ProcessOne, Outage, OutageEnds, PollAlone, pollVars
  <2> QED
    BY <2>1, NoTaskServes, ServingKeepsInv
<1>8. CASE \E p \in Served : Work(p) \/ AutoCommit(p) \/ CrashWorker(p)
  BY <1>8, WorkServes, ServingKeepsInv
<1>9. CASE UNCHANGED vars
  <2>1. PollAlone /\ UNCHANGED tasks
    BY <1>9 DEF vars, PollAlone, pollVars
  <2> QED
    BY <2>1, NoTaskServes, ServingKeepsInv
<1> QED
  BY <1>1, <1>2, <1>3, <1>4, <1>5, <1>6, <1>7, <1>8, <1>9 DEF Next

(* The caller's cursor never passes an alert that was neither accepted nor *)
(* poisoned, whatever fails and however often: poll_once raises instead of *)
(* going on, and the cursor moves only when it returns.                    *)
THEOREM NothingIsSkipped == Spec => []NothingSkipped
<1>1. IInv => NothingSkipped
  BY DEF IInv, PassedSettled, Settled, NothingSkipped
<1> QED
  BY InitInv, NextInv, <1>1, PTL DEF Spec

-----------------------------------------------------------------------------
(* The Kubernetes jobs.  A worker notes a name only while its job is under *)
(* way, the noted names are in the cluster and no two workers note the     *)
(* same one: create was refused for a name in use.                         *)
WorkersTyped ==
  /\ DOMAIN worker = Served /\ faults \in Nat
  /\ \A p \in Served : /\ DOMAIN worker[p] = {"conn", "pos", "hand", "phase", "known"}
                       /\ worker[p].phase \in {"idle", "create"} => worker[p].known = NoName

NamesApart == \A p, q \in Busy : worker[p].known = worker[q].known => p = q

FinitelyMany == IsFiniteSet(cluster) /\ IsFiniteSet(Busy)

Sandboxes == WorkersTyped /\ NamesApart /\ FinitelyMany /\ SandboxesAccounted

(* The kinds of step.  Keeps: names and sandboxes stay, perhaps one more   *)
(* is left behind by a fault; Notes: a worker has created a sandbox;       *)
(* Forgets: a worker is done with its sandbox, deleted or left by a fault. *)
Keeps ==
  /\ \A p \in Served : worker'[p].known = worker[p].known
  /\ \/ cluster' = cluster /\ faults' >= faults
     \/ faults' = faults + 1 /\ \E name : cluster' = cluster \cup {name}

Others(p) == \A q \in Served \ {p} : worker'[q].known = worker[q].known

Notes(p) ==
  /\ worker[p].known = NoName /\ worker'[p].known # NoName /\ Others(p)
  /\ worker'[p].known \notin cluster /\ cluster' = cluster \cup {worker'[p].known}
  /\ faults' = faults

Forgets(p) ==
  /\ worker'[p].known = NoName /\ Others(p)
  /\ \/ cluster' = cluster \ {worker[p].known} /\ faults' = faults
     \/ cluster' = cluster /\ faults' = faults + 1

LEMMA KeepsSandboxes ==
  ASSUME Sandboxes, WorkersTyped', Keeps
  PROVE  Sandboxes'
<1>1. Busy' = Busy /\ \A p \in Busy : worker'[p].known = worker[p].known
  BY DEF Keeps, Busy
<1>2. NamesApart'
  BY <1>1 DEF Sandboxes, NamesApart
<1>3. /\ IsFiniteSet(cluster) /\ IsFiniteSet(Busy) /\ faults \in Nat /\ faults' \in Nat
      /\ Cardinality(cluster) <= Cardinality(Busy) + faults
      /\ \A p \in Busy : worker[p].known \in cluster
  BY DEF Sandboxes, FinitelyMany, SandboxesAccounted, WorkersTyped
<1>4. Cardinality(cluster) \in Nat /\ Cardinality(Busy) \in Nat
  BY <1>3, FS_CardinalityType
<1>5. CASE cluster' = cluster /\ faults' >= faults
  BY <1>1, <1>2, <1>3, <1>4, <1>5 DEF Sandboxes, FinitelyMany, SandboxesAccounted
<1>6. CASE faults' = faults + 1 /\ \E name : cluster' = cluster \cup {name}
  <2>1. PICK name : cluster' = cluster \cup {name}
    BY <1>6
  <2>2. IsFiniteSet(cluster') /\ (Cardinality(cluster') = Cardinality(cluster)
                                  \/ Cardinality(cluster') = Cardinality(cluster) + 1)
    BY <1>3, <2>1, FS_AddElement
  <2>3. Cardinality(cluster') <= Cardinality(Busy) + faults'
    BY <1>3, <1>4, <1>6, <2>2
  <2>. QED
    BY <1>1, <1>2, <1>3, <2>1, <2>2, <2>3 DEF Sandboxes, FinitelyMany, SandboxesAccounted
<1>. QED
  BY <1>5, <1>6 DEF Keeps

LEMMA NotesSandboxes ==
  ASSUME Sandboxes, WorkersTyped', NEW p \in Served, Notes(p)
  PROVE  Sandboxes'
<1>1. /\ IsFiniteSet(cluster) /\ IsFiniteSet(Busy) /\ faults \in Nat /\ faults' = faults
      /\ Cardinality(cluster) <= Cardinality(Busy) + faults
      /\ \A q \in Busy : worker[q].known \in cluster
  BY DEF Sandboxes, FinitelyMany, SandboxesAccounted, WorkersTyped, Notes
<1>2. p \notin Busy /\ Busy' = Busy \cup {p} /\ \A q \in Busy : worker'[q].known = worker[q].known
  BY DEF Notes, Others, Busy
<1>3. worker'[p].known \notin cluster /\ cluster' = cluster \cup {worker'[p].known}
  BY DEF Notes
<1>4. NamesApart'
  BY <1>1, <1>2, <1>3 DEF Sandboxes, NamesApart
<1>5. IsFiniteSet(cluster') /\ Cardinality(cluster') = Cardinality(cluster) + 1
  BY <1>1, <1>3, FS_AddElement
<1>6. IsFiniteSet(Busy') /\ Cardinality(Busy') = Cardinality(Busy) + 1
  BY <1>1, <1>2, FS_AddElement
<1>7. Cardinality(cluster) \in Nat /\ Cardinality(Busy) \in Nat
  BY <1>1, FS_CardinalityType
<1>8. Cardinality(cluster') <= Cardinality(Busy') + faults'
  BY <1>1, <1>5, <1>6, <1>7
<1>. QED
  BY <1>1, <1>2, <1>3, <1>4, <1>5, <1>6, <1>8 DEF Sandboxes, FinitelyMany, SandboxesAccounted

LEMMA ForgetsSandboxes ==
  ASSUME Sandboxes, WorkersTyped', NEW p \in Served, Forgets(p)
  PROVE  Sandboxes'
<1>1. /\ IsFiniteSet(cluster) /\ IsFiniteSet(Busy) /\ faults \in Nat /\ faults' \in Nat
      /\ Cardinality(cluster) <= Cardinality(Busy) + faults
      /\ \A q \in Busy : worker[q].known \in cluster
  BY DEF Sandboxes, FinitelyMany, SandboxesAccounted, WorkersTyped, Forgets
<1>2. /\ Busy' = Busy \ {p} /\ \A q \in Busy' : worker'[q].known = worker[q].known
      /\ p \in Busy \/ worker[p].known = NoName
  BY DEF Forgets, Others, Busy
<1>3. NamesApart'
  BY <1>2 DEF Sandboxes, NamesApart
<1>4. IsFiniteSet(Busy') /\ Cardinality(Busy') = IF p \in Busy THEN Cardinality(Busy) - 1 ELSE Cardinality(Busy)
  BY <1>1, <1>2, FS_RemoveElement
<1>5. Cardinality(cluster) \in Nat /\ Cardinality(Busy) \in Nat
  BY <1>1, FS_CardinalityType
<1>6. CASE cluster' = cluster \ {worker[p].known} /\ faults' = faults
  <2>1. \A q \in Busy' : worker'[q].known \in cluster'
    <3>. SUFFICES ASSUME NEW q \in Busy' PROVE worker[q].known \in cluster'
      BY <1>2
    <3>1. q \in Busy /\ q # p /\ worker[q].known # NoName
      BY <1>2 DEF Busy
    <3>2. worker[q].known # worker[p].known
      BY <1>2, <3>1 DEF Sandboxes, NamesApart
    <3>. QED
      BY <1>1, <1>6, <3>1, <3>2
  <2>2. IsFiniteSet(cluster')
        /\ Cardinality(cluster') = IF worker[p].known \in cluster THEN Cardinality(cluster) - 1
                                   ELSE Cardinality(cluster)
    BY <1>1, <1>6, FS_RemoveElement
  <2>3. p \in Busy => worker[p].known \in cluster
    BY <1>1
  <2>4. Cardinality(cluster') <= Cardinality(Busy') + faults'
    BY <1>1, <1>4, <1>5, <1>6, <2>2, <2>3
  <2>. QED
    BY <1>3, <1>4, <2>1, <2>2, <2>4 DEF Sandboxes, FinitelyMany, SandboxesAccounted
<1>7. CASE cluster' = cluster /\ faults' = faults + 1
  <2>1. Cardinality(cluster') <= Cardinality(Busy') + faults'
    BY <1>1, <1>4, <1>5, <1>7
  <2>2. \A q \in Busy' : worker'[q].known \in cluster'
    BY <1>1, <1>2, <1>7
  <2>. QED
    BY <1>1, <1>3, <1>4, <1>7, <2>1, <2>2 DEF Sandboxes, FinitelyMany, SandboxesAccounted
<1>. QED
  BY <1>6, <1>7 DEF Forgets

(* Which step is of which kind. *)
LEMMA StepKinds ==
  ASSUME Sandboxes, [Next]_vars
  PROVE  WorkersTyped' /\ (Keeps \/ \E p \in Served : Notes(p) \/ Forgets(p))
<1>0. /\ DOMAIN worker = Served /\ faults \in Nat
      /\ \A p \in Served : /\ DOMAIN worker[p] = {"conn", "pos", "hand", "phase", "known"}
                           /\ worker[p].phase \in {"idle", "create"} => worker[p].known = NoName
  BY DEF Sandboxes, WorkersTyped
<1>1. ASSUME UNCHANGED <<worker, cluster>>, faults' \in Nat, faults' >= faults
      PROVE  WorkersTyped' /\ Keeps
  BY <1>0, <1>1 DEF WorkersTyped, Keeps
<1>2. ASSUME Fault PROVE faults' = faults + 1 /\ faults' \in Nat /\ faults' >= faults
  BY <1>0, <1>2 DEF Fault
<1>. DEFINE Goal == WorkersTyped' /\ (Keeps \/ \E p \in Served : Notes(p) \/ Forgets(p))
<1>3. CASE Poll
  <2>1. UNCHANGED workerVars /\ (faults' = faults \/ Fault)
    BY <1>3 DEF Poll, FetchAlerts, SkipPoisoned, PostEvent, PostAnswered, PollRaises, PollReturns
  <2>. QED
    BY <1>0, <1>1, <1>2, <2>1 DEF workerVars
<1>4. ASSUME NEW r \in Requests, PublishRawEvent(r) PROVE Goal
  BY <1>0, <1>1, <1>2, <1>4 DEF PublishRawEvent, workerVars
<1>5. ASSUME NEW t \in Requests \cup {Router}, Handle(t) PROVE Goal
  BY <1>0, <1>1, <1>2, <1>5 DEF Handle, EnqueueJob, Dispatched, workerVars
<1>6. CASE Listen
  BY <1>0, <1>1, <1>6 DEF Listen, ConsumeRawEvent, StopConsumer, RestartRouter, workerVars
<1>7. CASE CrashRouter \/ CrashApi \/ ProcessOne \/ Outage \/ OutageEnds
  BY <1>0, <1>1, <1>2, <1>7 DEF CrashRouter, CrashApi, ProcessOne, Outage, OutageEnds, workerVars
<1>8. ASSUME NEW p \in Served, Connect(p) \/ Adequeue(p) \/ RunJob(p) \/ AutoCommit(p) PROVE Goal
  BY <1>0, <1>2, <1>8 DEF Connect, Adequeue, RunJob, AutoCommit, WorkersTyped, Keeps
<1>9. ASSUME NEW p \in Served, CreateSandbox(p) PROVE Goal
  <2>. DEFINE name == JobName(worker[p].hand)
  <2>1. name # NoName /\ worker[p].phase = "create" /\ worker[p].known = NoName
    BY <1>0, <1>9 DEF CreateSandbox, JobName, NoName
  <2>. HIDE DEF name
  <2>2. CASE /\ name \notin cluster /\ cluster' = cluster \cup {name} /\ faults' = faults
             /\ worker' = [worker EXCEPT ![p].phase = "run", ![p].known = name]
    <3>1. WorkersTyped'
      BY <1>0, <2>2 DEF WorkersTyped
    <3>2. worker'[p].known = name /\ Others(p)
      BY <1>0, <2>2 DEF Others
    <3>. QED
      BY <2>1, <2>2, <3>1, <3>2 DEF Notes
  <2>3. CASE /\ \/ cluster' = cluster \cup {name} /\ Fault
                \/ UNCHANGED <<cluster, faults>>
             /\ worker' = [worker EXCEPT ![p].phase = "run"]
    <3>1. WorkersTyped'
      BY <1>0, <1>2, <2>3 DEF WorkersTyped
    <3>2. \A q \in Served : worker'[q].known = worker[q].known
      BY <1>0, <2>3
    <3>3. \/ cluster' = cluster /\ faults' >= faults
          \/ faults' = faults + 1 /\ \E n : cluster' = cluster \cup {n}
      <4>1. CASE cluster' = cluster \cup {name} /\ Fault
        <5>1. faults' = faults + 1
          BY <1>2, <4>1
        <5>2. \E n : cluster' = cluster \cup {n}
          BY <4>1
        <5>. QED
          BY <5>1, <5>2
      <4>2. CASE UNCHANGED <<cluster, faults>>
        BY <1>0, <4>2
      <4>. QED
        BY <2>3, <4>1, <4>2
    <3>. QED
      BY <3>1, <3>2, <3>3 DEF Keeps
  <2>. QED
    BY <1>9, <2>2, <2>3 DEF CreateSandbox, name
<1>10. ASSUME NEW p \in Served, DestroySandbox(p) \/ CrashWorker(p) PROVE Goal
  <2>1. \/ cluster' = cluster \ {worker[p].known} /\ faults' = faults
        \/ cluster' = cluster /\ faults' = faults + 1
    BY <1>2, <1>10 DEF DestroySandbox, CrashWorker
  <2>2. PICK w : /\ worker' = [worker EXCEPT ![p] = w] /\ w.known = NoName
                 /\ DOMAIN w = {"conn", "pos", "hand", "phase", "known"}
    BY <1>0, <1>10 DEF DestroySandbox, CrashWorker, Free, IdleWorker
  <2>3. WorkersTyped'
    BY <1>0, <2>1, <2>2 DEF WorkersTyped
  <2>. QED
    BY <1>0, <2>1, <2>2, <2>3 DEF Forgets, Others
<1>11. CASE UNCHANGED vars
  BY <1>0, <1>1, <1>11 DEF vars, workerVars
<1>. QED
  BY <1>3, <1>4, <1>5, <1>6, <1>7, <1>8, <1>9, <1>10, <1>11 DEF Next, Work

(* The sandbox a worker thinks it has exists, and every other Kubernetes   *)
(* job was left behind by a fault of its own, for any number of workers    *)
(* and faults and names that may collide.                                  *)
THEOREM SandboxesAreAccounted == Spec => []SandboxesAccounted
<1>1. Init => Sandboxes
  <2>. SUFFICES ASSUME Init PROVE Sandboxes
    OBVIOUS
  <2>1. WorkersTyped
    BY DEF Init, WorkersTyped, IdleWorker
  <2>2. Busy = {} /\ cluster = {} /\ faults = 0
    BY DEF Init, Busy, IdleWorker
  <2>. QED
    BY <2>1, <2>2, FS_EmptySet DEF Sandboxes, NamesApart, FinitelyMany, SandboxesAccounted
<1>2. Sandboxes /\ [Next]_vars => Sandboxes'
  BY StepKinds, KeepsSandboxes, NotesSandboxes, ForgetsSandboxes
<1>3. Sandboxes => SandboxesAccounted
  BY DEF Sandboxes
<1>. QED
  BY <1>1, <1>2, <1>3, PTL DEF Spec

-----------------------------------------------------------------------------
(* The router: its loops are recursive functions, and what they compute is *)
(* shown by induction on the number of turns.                              *)

(* Every nonempty set of natural numbers has a least element. *)
LEMMA LeastNumber ==
  ASSUME NEW S, S \subseteq Nat, S # {}
  PROVE  \E x \in S : \A y \in S : x <= y
<1>1. PICK x \in S : \A y \in S : ~ (<<y, x>> \in OpToRel(<, Nat))
  BY NatLessThanWellFounded, WFMin
<1>2. \A y \in S : ~(y < x)
  BY <1>1 DEF OpToRel
<1>. QED
  BY <1>2

(* Induction over the numbers, for a property given as the set of numbers  *)
(* that have it.                                                           *)
LEMMA Induction ==
  ASSUME NEW S, 0 \in S, \A n \in Nat : n \in S => n + 1 \in S
  PROVE  Nat \subseteq S
<1>1. SUFFICES ASSUME Nat \ S # {} PROVE FALSE
  OBVIOUS
<1>2. PICK x \in Nat \ S : \A y \in Nat \ S : x <= y
  BY <1>1, LeastNumber
<1>3. x # 0 /\ x - 1 \in Nat
  BY <1>2
<1>4. x - 1 \in S
  BY <1>2, <1>3
<1>. QED
  BY <1>2, <1>3, <1>4

(* The values of a loop of n turns, each of which makes the next value of  *)
(* the last one.                                                           *)
IsLoop(g, n, b, step) == g = [j \in 0..n |-> IF j = 0 THEN b ELSE step[<<j, g[j - 1]>>]]

(* A loop has values. *)
LEMMA LoopExists ==
  ASSUME NEW n \in Nat, NEW b, NEW step
  PROVE  \E g : IsLoop(g, n, b, step)
<1>1. PICK S : S = {m \in Nat : \E g : IsLoop(g, m, b, step)}
  OBVIOUS
<1>2. 0 \in S
  <2>1. PICK g : g = [j \in 0..0 |-> b]
    OBVIOUS
  <2>2. IsLoop(g, 0, b, step)
    BY <2>1 DEF IsLoop
  <2>. QED
    BY <1>1, <2>2
<1>3. ASSUME NEW m \in Nat, m \in S PROVE m + 1 \in S
  <2>1. PICK g : IsLoop(g, m, b, step)
    BY <1>1, <1>3
  <2>2. PICK h : h = [j \in 0..(m + 1) |-> IF j = 0 THEN b ELSE step[<<j, g[j - 1]>>]]
    OBVIOUS
  <2>3. \A j \in 0..m : h[j] = g[j]
    BY <2>1, <2>2 DEF IsLoop
  <2>4. \A j \in 0..(m + 1) : j # 0 => j - 1 \in 0..m
    OBVIOUS
  <2>5. \A j \in 0..(m + 1) : j # 0 => h[j - 1] = g[j - 1]
    BY <2>3, <2>4
  <2>6. IsLoop(h, m + 1, b, step)
    BY <2>2, <2>5 DEF IsLoop
  <2>. QED
    BY <1>1, <2>6
<1>. QED
  BY <1>1, <1>2, <1>3, Induction

(* What holds before a loop and is kept by each turn holds at every turn;  *)
(* P is the set of turns at which it does.                                 *)
LEMMA LoopKeeps ==
  ASSUME NEW n \in Nat, NEW P, 0 \in P,
         \A j \in 1..n : j - 1 \in P => j \in P
  PROVE  0..n \subseteq P
<1>1. PICK S : S = {m \in Nat : m <= n => m \in P}
  OBVIOUS
<1>2. 0 \in S
  BY <1>1
<1>3. ASSUME NEW m \in Nat, m \in S PROVE m + 1 \in S
  BY <1>1, <1>3
<1>4. Nat \subseteq S
  BY <1>2, <1>3, Induction
<1>. QED
  BY <1>1, <1>4

(* The turns stay in a set. *)
StaysIn(n, V, step) == \A j \in 1..n, v \in V : step[<<j, v>>] \in V

IsRunIn(g, n, V, b, step) ==
  g \in [0..n -> V] /\ g[0] = b /\ \A j \in 1..n : g[j] = step[<<j, g[j - 1]>>]

(* The values of a loop whose turns stay in a set are in the set. *)
LEMMA LoopTyped ==
  ASSUME NEW n \in Nat, NEW V, NEW b \in V, NEW step, StaysIn(n, V, step)
  PROVE  \E g : IsRunIn(g, n, V, b, step)
<1>1. PICK g : IsLoop(g, n, b, step)
  BY LoopExists
<1>2. g[0] = b /\ \A j \in 1..n : g[j] = step[<<j, g[j - 1]>>]
  <2>1. \A j \in 1..n : j \in 0..n /\ j # 0
    OBVIOUS
  <2>. QED
    BY <1>1, <2>1 DEF IsLoop
<1>3. PICK P : P = {j \in 0..n : g[j] \in V}
  OBVIOUS
<1>4. 0 \in P
  BY <1>2, <1>3
<1>5. ASSUME NEW j \in 1..n, j - 1 \in P PROVE j \in P
  <2>1. g[j - 1] \in V
    BY <1>3, <1>5
  <2>2. PICK v \in V : v = g[j - 1]
    BY <2>1
  <2>3. step[<<j, v>>] \in V
    BY <1>5 DEF StaysIn
  <2>4. g[j] \in V
    BY <1>2, <2>2, <2>3
  <2>5. j \in 0..n
    OBVIOUS
  <2>. QED
    BY <1>3, <2>4, <2>5
<1>6. 0..n \subseteq P
  BY <1>4, <1>5, LoopKeeps
<1>7. g \in [0..n -> V]
  BY <1>1, <1>3, <1>6 DEF IsLoop
<1>. QED
  BY <1>2, <1>7 DEF IsRunIn

-----------------------------------------------------------------------------
(* Lists without repetitions. *)
Distinct(S) == {q \in Seq(S) : \A i, k \in 1..Len(q) : q[i] = q[k] => i = k}

LEMMA ListedOnce ==
  ASSUME NEW S, NEW ps \in Distinct(S), NEW p \in S
  PROVE  Listed(ps, p) \in Distinct(S) /\ Range(Listed(ps, p)) = Range(ps) \cup {p}
<1>1. ps \in Seq(S) /\ \A i, k \in 1..Len(ps) : ps[i] = ps[k] => i = k
  BY DEF Distinct
<1>2. PICK n \in Nat : n = Len(ps) /\ DOMAIN ps = 1..n
  BY <1>1
<1>3. CASE p \in Range(ps)
  BY <1>3 DEF Listed
<1>4. CASE p \notin Range(ps)
  <2>1. PICK q : q = Append(ps, p)
    OBVIOUS
  <2>2. /\ q \in Seq(S) /\ Len(q) = n + 1 /\ q[n + 1] = p
        /\ \A i \in 1..n : q[i] = ps[i]
    BY <1>1, <1>2, <2>1
  <2>3. DOMAIN q = 1..(n + 1)
    BY <2>2
  <2>4. \A i \in 1..n : ps[i] # p
    BY <1>2, <1>4 DEF Range
  <2>5. ASSUME NEW i \in 1..(n + 1), NEW k \in 1..(n + 1), q[i] = q[k]
        PROVE  i = k
    <3>1. CASE i = n + 1
      BY <2>2, <2>4, <2>5, <3>1
    <3>2. CASE k = n + 1
      BY <2>2, <2>4, <2>5, <3>2
    <3>3. CASE i \in 1..n /\ k \in 1..n
      BY <1>1, <1>2, <2>2, <2>5, <3>3
    <3>. QED
      BY <1>2, <3>1, <3>2, <3>3
  <2>6. q \in Distinct(S)
    BY <2>2, <2>5 DEF Distinct
  <2>7. Range(q) = Range(ps) \cup {p}
    <3>1. ASSUME NEW x \in Range(q) PROVE x \in Range(ps) \cup {p}
      <4>1. PICK i \in 1..(n + 1) : x = q[i]
        BY <2>3 DEF Range
      <4>2. CASE i = n + 1
        BY <2>2, <4>1, <4>2
      <4>3. CASE i \in 1..n
        BY <1>2, <2>2, <4>1, <4>3 DEF Range
      <4>. QED
        BY <4>2, <4>3
    <3>2. p \in Range(q)
      BY <2>2, <2>3 DEF Range
    <3>3. ASSUME NEW x \in Range(ps) PROVE x \in Range(q)
      <4>1. PICK i \in 1..n : x = ps[i]
        BY <1>2 DEF Range
      <4>2. i \in 1..(n + 1) /\ x = q[i]
        BY <2>2, <4>1
      <4>. QED
        BY <2>3, <4>2 DEF Range
    <3>. QED
      BY <3>1, <3>2, <3>3
  <2>. QED
    BY <1>4, <2>1, <2>6, <2>7 DEF Listed
<1>. QED
  BY <1>3, <1>4

(* The innermost loop lists every persona of the rule, once. *)
LEMMA PersonasAdded ==
  ASSUME NEW S, NEW ps \in Distinct(S), NEW new \in Seq(S)
  PROVE  AddPersonas(ps, new) \in Distinct(S) /\ Range(AddPersonas(ps, new)) = Range(ps) \cup Range(new)
<1>1. PICK n \in Nat : n = Len(new) /\ DOMAIN new = 1..n
  OBVIOUS
<1>2. \E g : g = [j \in 0..n |-> IF j = 0 THEN ps ELSE Listed(g[j - 1], new[j])]
  <2>1. PICK step : step = [x \in (1..n) \X Distinct(S) |-> Listed(x[2], new[x[1]])]
    OBVIOUS
  <2>2. \A j \in 1..n, v \in Distinct(S) : step[<<j, v>>] = Listed(v, new[j]) /\ step[<<j, v>>] \in Distinct(S)
    BY <1>1, <2>1, ListedOnce
  <2>3. PICK V : V = Distinct(S)
    OBVIOUS
  <2>4. PICK b \in V : b = ps
    BY <2>3
  <2>5. StaysIn(n, V, step)
    BY <2>2, <2>3 DEF StaysIn
  <2>6. PICK g : g \in [0..n -> V] /\ g[0] = b /\ \A j \in 1..n : g[j] = step[<<j, g[j - 1]>>]
    <3>1. PICK g : IsRunIn(g, n, V, b, step)
      BY <1>1, <2>4, <2>5, LoopTyped
    <3>. QED
      BY <3>1 DEF IsRunIn
  <2>7. \A j \in 1..n : j - 1 \in 0..n
    BY <1>1
  <2>8. \A j \in 1..n : g[j] = Listed(g[j - 1], new[j])
    BY <2>2, <2>3, <2>6, <2>7
  <2>9. g = [j \in 0..n |-> g[j]]
    BY <2>6
  <2>10. \A j \in 0..n : j = 0 \/ j \in 1..n
    BY <1>1
  <2>11. \A j \in 0..n : g[j] = IF j = 0 THEN ps ELSE Listed(g[j - 1], new[j])
    BY <2>4, <2>6, <2>8, <2>10
  <2>. QED
    BY <2>9, <2>11
<1>3. PICK g : g = CHOOSE f : f = [j \in 0..n |-> IF j = 0 THEN ps ELSE Listed(f[j - 1], new[j])]
  OBVIOUS
<1>4. g = [j \in 0..n |-> IF j = 0 THEN ps ELSE Listed(g[j - 1], new[j])]
  BY <1>2, <1>3
<1>5. AddPersonas(ps, new) = g[n]
  BY <1>1, <1>3 DEF AddPersonas
<1>6. PICK P : P = {j \in 0..n : g[j] \in Distinct(S) /\ Range(g[j]) = Range(ps) \cup {new[i] : i \in 1..j}}
  OBVIOUS
<1>7. 0 \in P
  <2>1. g[0] = ps /\ {new[i] : i \in 1..0} = {}
    BY <1>4
  <2>. QED
    BY <1>6, <2>1
<1>8. ASSUME NEW j \in 1..n, j - 1 \in P PROVE j \in P
  <2>1. g[j] = Listed(g[j - 1], new[j]) /\ new[j] \in S
    BY <1>1, <1>4
  <2>2. g[j - 1] \in Distinct(S) /\ Range(g[j - 1]) = Range(ps) \cup {new[i] : i \in 1..(j - 1)}
    BY <1>6, <1>8
  <2>3. g[j] \in Distinct(S) /\ Range(g[j]) = Range(g[j - 1]) \cup {new[j]}
    BY <2>1, <2>2, ListedOnce
  <2>4. {new[i] : i \in 1..j} = {new[i] : i \in 1..(j - 1)} \cup {new[j]}
    <3>1. 1..j = (1..(j - 1)) \cup {j}
      OBVIOUS
    <3>. QED
      BY <3>1
  <2>. QED
    BY <1>6, <2>2, <2>3, <2>4
<1>9. 0..n \subseteq P
  BY <1>7, <1>8, LoopKeeps
<1>10. n \in P
  BY <1>9
<1>11. {new[i] : i \in 1..n} = Range(new)
  BY <1>1 DEF Range
<1>. QED
  BY <1>5, <1>6, <1>10, <1>11

-----------------------------------------------------------------------------
RuleRecords == [rule : RoutingRules, plan : STRING]

(* The rules of a plan have the type of rules. *)
LEMMA PlanRules ==
  ASSUME NEW i \in 1..Len(Plans)
  PROVE  RulesOf(Plans[i]) \in Seq(RuleRecords)
<1>1. PICK T : T = STRING
  OBVIOUS
<1>2. RuleRecords = [rule : RoutingRules, plan : T]
  BY <1>1 DEF RuleRecords
<1>3. PICK plan \in [id : T, rules : Seq(RoutingRules)] : plan = Plans[i]
  <2>1. PICK R : R = [id : T, rules : Seq(RoutingRules)]
    OBVIOUS
  <2>2. Plans \in Seq(R)
    BY <1>1, <2>1, PlansAssumption, Zenon
  <2>3. Plans[i] \in R
    BY <2>2
  <2>. QED
    BY <2>1, <2>3
<1>4. plan.rules \in Seq(RoutingRules) /\ plan.id \in T
  BY <1>3
<1>5. PICK n \in Nat : n = Len(plan.rules) /\ DOMAIN plan.rules = 1..n
  BY <1>4
<1>6. \A k \in 1..n : plan.rules[k] \in RoutingRules
  BY <1>4, <1>5
<1>7. PICK q : q = RulesOf(plan)
  OBVIOUS
<1>8. q \in [1..n -> RuleRecords]
  BY <1>2, <1>4, <1>5, <1>6, <1>7 DEF RulesOf
<1>9. q \in Seq(RuleRecords)
  BY <1>5, <1>8
<1>. QED
  BY <1>3, <1>7, <1>9

(* The two outer loops visit a sequence of rules. *)
LEMMA RulesTyped == Rules \in Seq(RuleRecords)
<1>1. PICK n \in Nat : n = Len(Plans)
  BY PlansAssumption
<1>2. PICK V : V = Seq(RuleRecords)
  OBVIOUS
<1>3. PICK b \in V : b = << >>
  <2>1. << >> \in Seq(RuleRecords)
    OBVIOUS
  <2>. QED
    BY <1>2, <2>1
<1>4. \A j \in 1..n : RulesOf(Plans[j]) \in V
  BY <1>1, <1>2, PlanRules
<1>5. \A j \in 1..n, v \in V : v \o RulesOf(Plans[j]) \in V
  BY <1>2, <1>4, ConcatProperties
<1>6. PICK step : step = [x \in (1..n) \X V |-> x[2] \o RulesOf(Plans[x[1]])]
  OBVIOUS
<1>7. \A j \in 1..n, v \in V : step[<<j, v>>] = v \o RulesOf(Plans[j]) /\ step[<<j, v>>] \in V
  BY <1>5, <1>6
<1>8. \A j \in 1..n : j - 1 \in 0..n
  BY <1>1
<1>9. \A j \in 0..n : j = 0 \/ j \in 1..n
  BY <1>1
<1>10. \E f : f = [j \in 0..n |-> IF j = 0 THEN << >> ELSE f[j - 1] \o RulesOf(Plans[j])]
  <2>1. PICK f : f \in [0..n -> V] /\ f[0] = b /\ \A j \in 1..n : f[j] = step[<<j, f[j - 1]>>]
    <3>1. StaysIn(n, V, step)
      BY <1>7 DEF StaysIn
    <3>2. PICK f : IsRunIn(f, n, V, b, step)
      BY <1>1, <1>3, <3>1, LoopTyped
    <3>. QED
      BY <3>2 DEF IsRunIn
  <2>2. \A j \in 1..n : f[j] = f[j - 1] \o RulesOf(Plans[j])
    BY <1>7, <1>8, <2>1
  <2>3. \A j \in 0..n : f[j] = IF j = 0 THEN << >> ELSE f[j - 1] \o RulesOf(Plans[j])
    BY <1>3, <1>9, <2>1, <2>2
  <2>4. f = [j \in 0..n |-> f[j]]
    BY <2>1
  <2>. QED
    BY <2>3, <2>4
<1>11. PICK g : g = CHOOSE f : f = [j \in 0..n |-> IF j = 0 THEN << >> ELSE f[j - 1] \o RulesOf(Plans[j])]
  OBVIOUS
<1>12. g = [j \in 0..n |-> IF j = 0 THEN << >> ELSE g[j - 1] \o RulesOf(Plans[j])]
  BY <1>10, <1>11
<1>13. Rules = g[n]
  BY <1>1, <1>11 DEF Rules
<1>14. PICK Q : Q = {j \in 0..n : g[j] \in V}
  OBVIOUS
<1>15. 0 \in Q
  BY <1>1, <1>3, <1>12, <1>14
<1>16. ASSUME NEW j \in 1..n, j - 1 \in Q PROVE j \in Q
  <2>1. j \in 0..n /\ j # 0
    BY <1>1
  <2>2. g[j] = g[j - 1] \o RulesOf(Plans[j])
    BY <1>12, <2>1
  <2>. QED
    BY <1>5, <1>14, <1>16, <2>1, <2>2
<1>17. 0..n \subseteq Q
  BY <1>1, <1>15, <1>16, LoopKeeps
<1>. QED
  BY <1>1, <1>2, <1>13, <1>14, <1>17

-----------------------------------------------------------------------------
(* The severities. *)
LEMMA RankOf ==
  /\ Severities = {"info", "low", "medium", "high", "critical"}
  /\ Rank("info") = 1 /\ Rank("low") = 2 /\ Rank("medium") = 3
  /\ Rank("high") = 4 /\ Rank("critical") = 5
<1>1. PICK o : o = SeverityOrder
  OBVIOUS
<1>2. /\ DOMAIN o = 1..5 /\ o[1] = "info" /\ o[2] = "low" /\ o[3] = "medium"
      /\ o[4] = "high" /\ o[5] = "critical"
  BY <1>1 DEF SeverityOrder
<1>3. 1..5 = {1, 2, 3, 4, 5}
  OBVIOUS
<1>4. Severities = {"info", "low", "medium", "high", "critical"}
  BY <1>1, <1>2, <1>3 DEF Severities, Range
<1>5. \A s : Rank(s) = CHOOSE i \in {1, 2, 3, 4, 5} : o[i] = s
  BY <1>1, <1>2, <1>3 DEF Rank
<1>6. Rank("info") = 1
  BY <1>2, <1>5
<1>7. Rank("low") = 2
  BY <1>2, <1>5
<1>8. Rank("medium") = 3
  BY <1>2, <1>5
<1>9. Rank("high") = 4
  BY <1>2, <1>5
<1>10. Rank("critical") = 5
  BY <1>2, <1>5
<1>. QED
  BY <1>4, <1>6, <1>7, <1>8, <1>9, <1>10

(* A severity is at least another when it is one of those from the other   *)
(* on.                                                                     *)
LEMMA AtLeast ==
  ASSUME NEW s \in Severities, NEW least \in Severities
  PROVE  SeverityAtLeast(s, least) <=>
           s \in Range(SubSeq(SeverityOrder, Rank(least), Len(SeverityOrder)))
<1>1. PICK o \in Seq(Severities) : /\ o = SeverityOrder /\ Len(o) = 5
         /\ o[1] = "info" /\ o[2] = "low" /\ o[3] = "medium" /\ o[4] = "high" /\ o[5] = "critical"
  <2>1. <<"info", "low", "medium", "high", "critical">> \in Seq(Severities)
    BY RankOf
  <2>. QED
    BY <2>1 DEF SeverityOrder
<1>2. PICK r \in 1..5 : r = Rank(least)
  BY RankOf
<1>3. PICK q : q = SubSeq(o, r, 5)
  OBVIOUS
<1>4. q \in Seq(Severities) /\ Len(q) = 5 - r + 1 /\ \A k \in 1..(5 - r + 1) : q[k] = o[r + k - 1]
  <2>1. \A i \in r..5 : o[i] \in Severities
    <3>1. \A i \in r..5 : i \in 1..Len(o)
      BY <1>1, <1>2
    <3>. QED
      BY <1>1, <3>1, ElementOfSeq
  <2>2. r \in Int /\ 5 \in Int /\ r <= 5
    BY <1>2
  <2>3. /\ SubSeq(o, r, 5) \in Seq(Severities)
        /\ Len(SubSeq(o, r, 5)) = (IF r <= 5 THEN 5 - r + 1 ELSE 0)
        /\ \A i \in 1..(5 - r + 1) : SubSeq(o, r, 5)[i] = o[r + i - 1]
    BY <2>1, <2>2, SubSeqProperties
  <2>. QED
    BY <1>3, <2>2, <2>3
<1>5. DOMAIN q = 1..(5 - r + 1)
  BY <1>2, <1>4
<1>6. \A i \in 1..5 : Rank(o[i]) = i
  BY <1>1, RankOf
<1>7. PICK a \in 1..5 : s = o[a]
  BY <1>1, RankOf
<1>8. Rank(s) = a
  BY <1>6, <1>7
<1>9. ASSUME a >= r PROVE s \in Range(q)
  <2>1. a - r + 1 \in 1..(5 - r + 1) /\ r + (a - r + 1) - 1 = a
    BY <1>2, <1>7, <1>9
  <2>2. q[a - r + 1] = s
    BY <1>4, <1>7, <2>1
  <2>. QED
    BY <1>5, <2>1, <2>2 DEF Range
<1>10. ASSUME s \in Range(q) PROVE a >= r
  <2>1. PICK k \in 1..(5 - r + 1) : s = q[k]
    BY <1>5, <1>10 DEF Range
  <2>2. r + k - 1 \in 1..5 /\ r + k - 1 >= r
    BY <1>2
  <2>3. s = o[r + k - 1]
    BY <1>4, <2>1
  <2>4. Rank(s) = r + k - 1
    BY <1>6, <2>2, <2>3
  <2>. QED
    BY <1>8, <2>2, <2>4
<1>11. SeverityAtLeast(s, least) <=> a >= r
  BY <1>2, <1>8 DEF SeverityAtLeast
<1>12. SubSeq(SeverityOrder, Rank(least), Len(SeverityOrder)) = q
  BY <1>1, <1>2, <1>3
<1>. QED
  BY <1>9, <1>10, <1>11, <1>12

(* The rules that match are those that are called for. *)
LEMMA MatchesRight ==
  ASSUME NEW a \in DOMAIN Alerts, NEW rule \in RoutingRules
  PROVE  RuleMatches(rule, Event(a)) <=> rule.personas # << >> /\ IsCalledFor(rule, Event(a))
<1>1. PICK e : e = Event(a)
  OBVIOUS
<1>2. PICK s : s = MapSiemSeverity(Alerts[a].severity)
  OBVIOUS
<1>3. s \in {"info", "low", "medium", "high", "critical"}
  BY <1>2 DEF MapSiemSeverity
<1>4. e.severity \in Severities
  BY <1>1, <1>2, <1>3, RankOf DEF Event
<1>5. rule.least # NoMinimum => rule.least \in Severities
  BY DEF RoutingRules
<1>6. rule.least # NoMinimum =>
        (SeverityAtLeast(e.severity, rule.least) <=>
           e.severity \in Range(SubSeq(SeverityOrder, Rank(rule.least), Len(SeverityOrder))))
  BY <1>4, <1>5, AtLeast
<1>. QED
  BY <1>1, <1>6 DEF RuleMatches, IsCalledFor

-----------------------------------------------------------------------------
Names == STRING
Decisions == [personas : Distinct(Names), playbook : Names \cup {""}]

(* What the fields of a rule are. *)
LEMMA RuleFields ==
  ASSUME NEW r \in RuleRecords
  PROVE  /\ r.rule \in RoutingRules /\ r.plan \in Names
         /\ r.rule.personas \in Seq(Names) /\ r.rule.playbook \in Names
<1>1. PICK T : T = STRING
  OBVIOUS
<1>2. PICK L : L = Severities \cup {NoMinimum}
  OBVIOUS
<1>3. RoutingRules = [types : SUBSET EventTypes, least : L, personas : Seq(T), playbook : T]
  BY <1>1, <1>2, Zenon DEF RoutingRules
<1>4. r.rule \in RoutingRules /\ r.plan \in T
  <2>1. r \in [rule : RoutingRules, plan : T]
    BY <1>1, Zenon DEF RuleRecords
  <2>. QED
    BY <2>1
<1>5. r.rule.personas \in Seq(T) /\ r.rule.playbook \in T
  BY <1>3, <1>4
<1>. QED
  BY <1>1, <1>4, <1>5, Zenon DEF Names

(* The decision before the first rule. *)
LEMMA NothingDecided ==
  NoDecision \in Decisions /\ Range(NoDecision.personas) = {} /\ NoDecision.playbook = ""
<1>1. << >> \in Seq(Names) /\ Len(<< >>) = 0 /\ DOMAIN << >> = {}
  OBVIOUS
<1>2. << >> \in Distinct(Names) /\ Range(<< >>) = {}
  <2>1. \A i, k \in 1..Len(<< >>) : i = k
    BY <1>1
  <2>2. << >> \in Distinct(Names)
    BY <1>1, <2>1 DEF Distinct
  <2>3. Range(<< >>) = {}
    BY <1>1 DEF Range
  <2>. QED
    BY <2>2, <2>3
<1>3. "" \in Names \cup {""}
  OBVIOUS
<1>. QED
  BY <1>2, <1>3 DEF NoDecision, Decisions

(* What one rule does to the decision. *)
LEMMA RuleTried ==
  ASSUME NEW d \in Decisions, NEW r \in RuleRecords, NEW e
  PROVE  /\ TryRule(d, r, e) \in Decisions
         /\ ~RuleMatches(r.rule, e) => TryRule(d, r, e) = d
         /\ RuleMatches(r.rule, e) =>
              /\ Range(TryRule(d, r, e).personas) = Range(d.personas) \cup Range(r.rule.personas)
              /\ r.rule.playbook # "" => TryRule(d, r, e).playbook = r.rule.playbook
              /\ r.rule.playbook = "" /\ d.playbook = "" => TryRule(d, r, e).playbook = r.plan
              /\ r.rule.playbook = "" /\ d.playbook # "" => TryRule(d, r, e).playbook = d.playbook
<1>1. CASE ~RuleMatches(r.rule, e)
  BY <1>1 DEF TryRule
<1>2. CASE RuleMatches(r.rule, e)
  <2>1. TryRule(d, r, e) = ApplyRule(d, r)
    BY <1>2 DEF TryRule
  <2>2. d.personas \in Distinct(Names) /\ d.playbook \in Names \cup {""}
    BY DEF Decisions
  <2>3. PICK q : q = AddPersonas(d.personas, r.rule.personas)
    OBVIOUS
  <2>4. q \in Distinct(Names) /\ Range(q) = Range(d.personas) \cup Range(r.rule.personas)
    <3>1. PICK ps \in Distinct(Names) : ps = d.personas
      BY <2>2
    <3>2. PICK new \in Seq(Names) : new = r.rule.personas
      BY RuleFields
    <3>3. /\ AddPersonas(ps, new) \in Distinct(Names)
          /\ Range(AddPersonas(ps, new)) = Range(ps) \cup Range(new)
      BY PersonasAdded
    <3>. QED
      BY <2>3, <3>1, <3>2, <3>3
  <2>5. PICK b : b = IF r.rule.playbook # "" THEN r.rule.playbook
                     ELSE (IF d.playbook = "" THEN r.plan ELSE d.playbook)
    OBVIOUS
  <2>6. b \in Names \cup {""}
    BY <2>2, <2>5, RuleFields
  <2>7. ApplyRule(d, r) = [personas |-> q, playbook |-> b]
    BY <2>3, <2>5 DEF ApplyRule
  <2>8. ApplyRule(d, r) \in Decisions /\ ApplyRule(d, r).personas = q /\ ApplyRule(d, r).playbook = b
    <3>1. PICK W : W = Names \cup {""}
      OBVIOUS
    <3>2. PICK c : c = [personas |-> q, playbook |-> b]
      OBVIOUS
    <3>3. b \in W
      BY <2>6, <3>1
    <3>4. c \in [personas : Distinct(Names), playbook : W] /\ c.personas = q /\ c.playbook = b
      BY <2>4, <3>2, <3>3
    <3>. QED
      BY <2>7, <3>1, <3>2, <3>4 DEF Decisions
  <2>. QED
    BY <1>2, <2>1, <2>4, <2>5, <2>8
<1>. QED
  BY <1>1, <1>2

(* The rules among the first n that match. *)
MatchedBy(n, e) == {i \in 1..n : RuleMatches(Rules[i].rule, e)}

(* The last of them that names a playbook, and the first whose plan has an id. *)
LastNamed(i, M) ==
  i \in M /\ Rules[i].rule.playbook # "" /\ \A k \in M : Rules[k].rule.playbook # "" => k <= i

FirstTitled(i, M) ==
  i \in M /\ Rules[i].plan # "" /\ \A k \in M : Rules[k].plan # "" => i <= k

NoneNamed(M)  == \A k \in M : Rules[k].rule.playbook = ""
NoneTitled(M) == \A k \in M : Rules[k].plan = ""

PlaybookFrom(b, M) ==
  \/ \E i \in M : LastNamed(i, M) /\ b = Rules[i].rule.playbook
  \/ NoneNamed(M) /\ \E i \in M : FirstTitled(i, M) /\ b = Rules[i].plan
  \/ NoneNamed(M) /\ NoneTitled(M) /\ b = ""

(* The decision after n rules: the inductive invariant of the loop. *)
DecidedBy(d, n, e) ==
  /\ d \in Decisions
  /\ Range(d.personas) = UNION {Range(Rules[i].rule.personas) : i \in MatchedBy(n, e)}
  /\ PlaybookFrom(d.playbook, MatchedBy(n, e))

(* Each rule keeps it. *)
LEMMA RuleKeepsDecision ==
  ASSUME NEW n \in 1..Len(Rules), NEW d, NEW e, DecidedBy(d, n - 1, e)
  PROVE  DecidedBy(TryRule(d, Rules[n], e), n, e)
<1>1. PICK r \in RuleRecords : r = Rules[n]
  BY RulesTyped
<1>2. d \in Decisions
  BY DEF DecidedBy
<1>3. PICK M : M = MatchedBy(n - 1, e)
  OBVIOUS
<1>4. Range(d.personas) = UNION {Range(Rules[i].rule.personas) : i \in M} /\ PlaybookFrom(d.playbook, M)
  BY <1>3 DEF DecidedBy
<1>5. n \in Nat /\ n >= 1
  BY RulesTyped
<1>6. 1..n = (1..(n - 1)) \cup {n}
  BY <1>5
<1>7. \A i \in M : i \in Nat /\ i < n
  BY <1>3, <1>5 DEF MatchedBy
<1>8. PICK c : c = TryRule(d, r, e)
  OBVIOUS
<1>9. c \in Decisions
  BY <1>2, <1>8, RuleTried
<1>10. CASE ~RuleMatches(r.rule, e)
  <2>1. MatchedBy(n, e) = M
    BY <1>1, <1>3, <1>6, <1>10 DEF MatchedBy
  <2>2. c = d
    BY <1>2, <1>8, <1>10, RuleTried
  <2>. QED
    BY <1>1, <1>2, <1>4, <1>8, <2>1, <2>2 DEF DecidedBy
<1>11. CASE RuleMatches(r.rule, e)
  <2>1. PICK N : N = MatchedBy(n, e)
    OBVIOUS
  <2>2. N = M \cup {n}
    <3>1. RuleMatches(Rules[n].rule, e)
      BY <1>1, <1>11
    <3>. QED
      BY <1>3, <1>6, <2>1, <3>1 DEF MatchedBy
  <2>3. /\ Range(c.personas) = Range(d.personas) \cup Range(r.rule.personas)
        /\ r.rule.playbook # "" => c.playbook = r.rule.playbook
        /\ r.rule.playbook = "" /\ d.playbook = "" => c.playbook = r.plan
        /\ r.rule.playbook = "" /\ d.playbook # "" => c.playbook = d.playbook
    BY <1>2, <1>8, <1>11, RuleTried, ZenonT(60)
  <2>4. Range(c.personas) = UNION {Range(Rules[i].rule.personas) : i \in N}
    BY <1>1, <1>4, <2>2, <2>3
  <2>5. /\ n \in N /\ n <= n /\ \A k \in N : k <= n
        /\ \A k \in N : k \in M \/ k = n
        /\ \A k \in M : k \in N /\ k <= n
    BY <1>5, <1>7, <2>2
  <2>6. PlaybookFrom(c.playbook, N)
    <3>1. CASE r.rule.playbook # ""
      <4>1. LastNamed(n, N)
        BY <1>1, <2>2, <2>5, <3>1 DEF LastNamed
      <4>. QED
        BY <1>1, <2>2, <2>3, <3>1, <4>1 DEF PlaybookFrom
    <3>2. ASSUME r.rule.playbook = "", NEW i \in M, LastNamed(i, M), d.playbook = Rules[i].rule.playbook
          PROVE  PlaybookFrom(c.playbook, N)
      <4>1. LastNamed(i, N) /\ d.playbook # ""
        BY <1>1, <2>2, <3>2 DEF LastNamed
      <4>. QED
        BY <2>2, <2>3, <3>2, <4>1 DEF PlaybookFrom
    <3>3. ASSUME r.rule.playbook = "", NoneNamed(M), NEW i \in M, FirstTitled(i, M), d.playbook = Rules[i].plan
          PROVE  PlaybookFrom(c.playbook, N)
      <4>1. FirstTitled(i, N) /\ d.playbook # ""
        BY <1>1, <2>5, <3>3 DEF FirstTitled
      <4>2. NoneNamed(N)
        BY <1>1, <2>2, <3>3 DEF NoneNamed
      <4>. QED
        BY <2>2, <2>3, <3>3, <4>1, <4>2 DEF PlaybookFrom
    <3>4. ASSUME r.rule.playbook = "", NoneNamed(M), NoneTitled(M), d.playbook = ""
          PROVE  PlaybookFrom(c.playbook, N)
      <4>1. NoneNamed(N) /\ c.playbook = r.plan
        BY <1>1, <2>2, <2>3, <3>4 DEF NoneNamed
      <4>2. CASE r.plan # ""
        <5>1. FirstTitled(n, N)
          BY <1>1, <2>5, <3>4, <4>2 DEF FirstTitled, NoneTitled
        <5>. QED
          BY <1>1, <2>2, <4>1, <5>1 DEF PlaybookFrom
      <4>3. CASE r.plan = ""
        <5>1. NoneTitled(N)
          BY <1>1, <2>2, <3>4, <4>3 DEF NoneTitled
        <5>. QED
          BY <4>1, <4>3, <5>1 DEF PlaybookFrom
      <4>. QED
        BY <4>2, <4>3
    <3>. QED
      BY <1>4, <3>1, <3>2, <3>3, <3>4 DEF PlaybookFrom
  <2>. QED
    BY <1>1, <1>8, <1>9, <2>1, <2>4, <2>6 DEF DecidedBy
<1>. QED
  BY <1>10, <1>11

(* The outer loop decides on all the rules. *)
LEMMA RouteDecides ==
  ASSUME NEW e
  PROVE  DecidedBy(Route(e), Len(Rules), e)
<1>1. PICK n \in Nat : n = Len(Rules)
  BY RulesTyped
<1>2. \A j \in 1..n : Rules[j] \in RuleRecords
  BY <1>1, RulesTyped
<1>3. PICK V : V = Decisions
  OBVIOUS
<1>4. PICK b \in V : b = NoDecision
  BY <1>3, NothingDecided
<1>5. PICK step : step = [x \in (1..n) \X V |-> TryRule(x[2], Rules[x[1]], e)]
  OBVIOUS
<1>6. \A j \in 1..n, d \in V : step[<<j, d>>] = TryRule(d, Rules[j], e) /\ step[<<j, d>>] \in V
  BY <1>2, <1>3, <1>5, RuleTried
<1>7. \A j \in 1..n : j - 1 \in 0..n
  BY <1>1
<1>8. \A j \in 0..n : j = 0 \/ j \in 1..n
  BY <1>1
<1>9. \E f : f = [j \in 0..n |-> IF j = 0 THEN NoDecision ELSE TryRule(f[j - 1], Rules[j], e)]
  <2>1. PICK f : f \in [0..n -> V] /\ f[0] = b /\ \A j \in 1..n : f[j] = step[<<j, f[j - 1]>>]
    <3>1. StaysIn(n, V, step)
      BY <1>6 DEF StaysIn
    <3>2. PICK f : IsRunIn(f, n, V, b, step)
      BY <1>1, <1>4, <3>1, LoopTyped
    <3>. QED
      BY <3>2 DEF IsRunIn
  <2>2. \A j \in 1..n : f[j] = TryRule(f[j - 1], Rules[j], e)
    BY <1>6, <1>7, <2>1
  <2>3. \A j \in 0..n : f[j] = IF j = 0 THEN NoDecision ELSE TryRule(f[j - 1], Rules[j], e)
    BY <1>4, <1>8, <2>1, <2>2
  <2>4. f = [j \in 0..n |-> f[j]]
    BY <2>1
  <2>. QED
    BY <2>3, <2>4
<1>10. PICK g : g = CHOOSE f : f = [j \in 0..n |-> IF j = 0 THEN NoDecision ELSE TryRule(f[j - 1], Rules[j], e)]
  OBVIOUS
<1>11. g = [j \in 0..n |-> IF j = 0 THEN NoDecision ELSE TryRule(g[j - 1], Rules[j], e)]
  BY <1>9, <1>10
<1>12. Route(e) = g[n]
  BY <1>1, <1>10 DEF Route
<1>13. PICK P : P = {j \in 0..n : DecidedBy(g[j], j, e)}
  OBVIOUS
<1>14. 0 \in P
  <2>1. g[0] = NoDecision /\ 0 \in 0..n
    BY <1>1, <1>11
  <2>2. MatchedBy(0, e) = {}
    BY DEF MatchedBy
  <2>3. DecidedBy(NoDecision, 0, e)
    BY <2>2, NothingDecided DEF DecidedBy, PlaybookFrom, NoneNamed, NoneTitled
  <2>. QED
    BY <1>13, <2>1, <2>3
<1>15. ASSUME NEW j \in 1..n, j - 1 \in P PROVE j \in P
  <2>1. j \in 0..n /\ j # 0 /\ j \in 1..Len(Rules)
    BY <1>1
  <2>2. g[j] = TryRule(g[j - 1], Rules[j], e)
    BY <1>11, <2>1
  <2>3. DecidedBy(g[j - 1], j - 1, e)
    BY <1>13, <1>15
  <2>4. DecidedBy(g[j], j, e)
    BY <2>1, <2>2, <2>3, RuleKeepsDecision
  <2>. QED
    BY <1>13, <2>1, <2>4
<1>16. 0..n \subseteq P
  BY <1>1, <1>14, <1>15, LoopKeeps
<1>17. n \in P
  BY <1>1, <1>16
<1>. QED
  BY <1>1, <1>12, <1>13, <1>17

(* The loops of the router and the reference agree: every persona that is  *)
(* wanted, once, and the playbook of the last matching rule that names     *)
(* one, or else the id of the first plan.                                  *)
THEOREM RoutingIsRight == LoopIsRight
<1>1. SUFFICES ASSUME NEW a \in DOMAIN Alerts
               PROVE  /\ Routes[a] = [personas |-> Routes[a].personas, playbook |-> Routes[a].playbook]
                      /\ Routes[a].personas \in Seq(RoutedTo[a]) /\ Range(Routes[a].personas) = RoutedTo[a]
                      /\ \A i, k \in DOMAIN Routes[a].personas :
                           Routes[a].personas[i] = Routes[a].personas[k] => i = k
                      /\ RoutedTo[a] # {} => Routes[a].playbook = PlaybookOf[a]
  BY DEF LoopIsRight
<1>2. PICK n \in Nat : n = Len(Rules) /\ DOMAIN Rules = 1..n
  BY RulesTyped
<1>3. PICK M : M = MatchedBy(n, Event(a))
  OBVIOUS
<1>4. Matching(a) = M
  <2>1. \A i \in 1..n : Rules[i].rule \in RoutingRules
    BY <1>2, RulesTyped, RuleFields
  <2>2. \A i \in 1..n : RuleMatches(Rules[i].rule, Event(a)) <=>
           Rules[i].rule.personas # << >> /\ IsCalledFor(Rules[i].rule, Event(a))
    BY <2>1, MatchesRight
  <2>. QED
    BY <1>2, <1>3, <2>2 DEF Matching, MatchedBy
<1>5. PICK d : d = Routes[a] /\ d = Route(Event(a))
  BY DEF Routes
<1>6. /\ d \in Decisions
      /\ Range(d.personas) = UNION {Range(Rules[i].rule.personas) : i \in M}
      /\ PlaybookFrom(d.playbook, M)
  <2>1. DecidedBy(d, n, Event(a))
    BY <1>2, <1>5, RouteDecides
  <2>. QED
    BY <1>3, <2>1 DEF DecidedBy
<1>7. PICK R : R = RoutedTo[a] /\ R = UNION {Range(Rules[i].rule.personas) : i \in M}
  BY <1>4 DEF RoutedTo
<1>8. d = [personas |-> d.personas, playbook |-> d.playbook] /\ d.personas \in Distinct(Names)
  BY <1>6 DEF Decisions
<1>9. /\ d.personas \in Seq(R) /\ Range(d.personas) = R
      /\ \A i, k \in DOMAIN d.personas : d.personas[i] = d.personas[k] => i = k
  <2>1. PICK q : q = d.personas
    OBVIOUS
  <2>2. q \in Seq(Names) /\ \A i, k \in 1..Len(q) : q[i] = q[k] => i = k
    BY <1>8, <2>1 DEF Distinct
  <2>3. PICK m \in Nat : m = Len(q) /\ DOMAIN q = 1..m
    BY <2>2
  <2>4. Range(q) = R
    BY <1>6, <1>7, <2>1
  <2>5. \A i \in 1..m : q[i] \in R
    BY <2>3, <2>4 DEF Range
  <2>6. q \in Seq(R)
    BY <2>2, <2>3, <2>5
  <2>. QED
    BY <2>1, <2>2, <2>3, <2>4, <2>6
<1>10. ASSUME R # {} PROVE d.playbook = PlaybookOf[a]
  <2>1. M \subseteq Nat
    BY <1>2, <1>3 DEF MatchedBy
  <2>2. PICK named : named = Named(a) /\ named = {i \in M : Rules[i].rule.playbook # ""}
    BY <1>4 DEF Named
  <2>3. PICK titled : titled = Titled(a) /\ titled = {i \in M : Rules[i].plan # ""}
    BY <1>4 DEF Titled
  <2>4. PICK last : last = Max(named)
    OBVIOUS
  <2>5. PICK first : first = Min(titled)
    OBVIOUS
  <2>6. PlaybookOf[a] = IF named # {} THEN Rules[last].rule.playbook
                        ELSE (IF titled # {} THEN Rules[first].plan ELSE "")
    BY <1>7, <1>10, <2>2, <2>3, <2>4, <2>5 DEF PlaybookOf
  <2>7. ASSUME NEW i \in M, LastNamed(i, M), d.playbook = Rules[i].rule.playbook
        PROVE  d.playbook = PlaybookOf[a]
    <3>1. i \in named /\ \A k \in named : k <= i
      BY <2>2, <2>7 DEF LastNamed
    <3>2. last \in named /\ \A k \in named : k <= last
      BY <2>1, <2>2, <2>4, <3>1 DEF Max
    <3>3. last = i
      <4>1. last \in Nat /\ i \in Nat /\ last <= i /\ i <= last
        BY <2>1, <2>2, <3>1, <3>2
      <4>. QED
        BY <4>1
    <3>. QED
      BY <2>6, <2>7, <3>1, <3>3
  <2>8. ASSUME NoneNamed(M), NEW i \in M, FirstTitled(i, M), d.playbook = Rules[i].plan
        PROVE  d.playbook = PlaybookOf[a]
    <3>1. i \in titled /\ \A k \in titled : i <= k
      BY <2>3, <2>8 DEF FirstTitled
    <3>2. first \in titled /\ \A k \in titled : first <= k
      BY <2>1, <2>3, <2>5, <3>1 DEF Min
    <3>3. first = i
      <4>1. first \in Nat /\ i \in Nat /\ first <= i /\ i <= first
        BY <2>1, <2>3, <3>1, <3>2
      <4>. QED
        BY <4>1
    <3>4. named = {}
      BY <2>2, <2>8 DEF NoneNamed
    <3>. QED
      BY <2>6, <2>8, <3>1, <3>3, <3>4
  <2>9. ASSUME NoneNamed(M), NoneTitled(M), d.playbook = ""
        PROVE  d.playbook = PlaybookOf[a]
    <3>1. named = {} /\ titled = {}
      BY <2>2, <2>3, <2>9 DEF NoneNamed, NoneTitled
    <3>. QED
      BY <2>6, <2>9, <3>1
  <2>. QED
    BY <1>6, <2>7, <2>8, <2>9 DEF PlaybookFrom
<1>. QED
  BY <1>5, <1>7, <1>8, <1>9, <1>10

-----------------------------------------------------------------------------
(* The jobs.  What a task has left to enqueue is part of its decision,     *)
(* names nobody twice and nobody it has made a job for; only alerts that   *)
(* are not poisoned are posted, published and routed.                      *)
Good == {a \in DOMAIN Alerts : ~Poisoned(a)}

AnyPersona == {"conductor"} \cup UNION {RoutedTo[a] : a \in DOMAIN Alerts}
AnyPlaybook == {Routes[a].playbook : a \in DOMAIN Alerts}
JobRecords == [alert : Good, persona : AnyPersona, playbook : AnyPlaybook, task : Tasks \X Nat,
               place : {"topic", "api", "router", "nowhere", "taken"}]

PollInRange == polling => next > 0 /\ upto <= Len(Alerts)

KafkaTyped == raw \in Seq(Good) /\ offset \in Nat /\ jobs \in Seq(JobRecords)

TodoRight(todo, a) ==
  /\ todo \in Seq(Range(Decision(a).personas))
  /\ \A i, k \in 1..Len(todo) : todo[i] = todo[k] => i = k

TasksRight ==
  \A t \in Tasks :
    /\ tasks[t].at \in Nat
    /\ tasks[t].step \in {"publish", "fetched", "jobs"} => tasks[t].alert \in Good
    /\ tasks[t].step = "jobs" => TodoRight(tasks[t].todo, tasks[t].alert)

JobsRight ==
  \A j \in DOMAIN jobs : /\ jobs[j].persona \in Range(Decision(jobs[j].alert).personas)
                         /\ jobs[j].playbook = Decision(jobs[j].alert).playbook

(* What a request still has to do, it has not done. *)
TodoIsNew ==
  \A j \in DOMAIN jobs : \A r \in Requests : jobs[j].task[1] = r =>
    /\ tasks[r].step \notin {"free", "publish"}
    /\ tasks[r].step = "jobs" => \A k \in 1..Len(tasks[r].todo) : tasks[r].todo[k] # jobs[j].persona

JobsOnce ==
  \A i, j \in DOMAIN jobs :
    jobs[i].task[1] # Router /\ jobs[i].task = jobs[j].task
    /\ jobs[i].persona = jobs[j].persona => i = j

DInv == PollInRange /\ KafkaTyped /\ TasksRight /\ JobsRight /\ TodoIsNew /\ JobsOnce

(* A decision is what the reference wants. *)
LEMMA DecisionRight ==
  ASSUME NEW a \in DOMAIN Alerts
  PROVE  /\ TodoRight(Decision(a).personas, a)
         /\ Range(Decision(a).personas) = Wanted(a, setup.conductor)
         /\ Range(Decision(a).personas) \subseteq AnyPersona
         /\ Decision(a).playbook \in AnyPlaybook
         /\ Range(Decision(a).personas) # {} => Decision(a).playbook = PlaybookOf[a]
<1>. DEFINE d == Routes[a]
<1>1. /\ d = [personas |-> d.personas, playbook |-> d.playbook]
      /\ d.personas \in Seq(RoutedTo[a]) /\ Range(d.personas) = RoutedTo[a]
      /\ \A i, k \in DOMAIN d.personas : d.personas[i] = d.personas[k] => i = k
      /\ RoutedTo[a] # {} => d.playbook = PlaybookOf[a]
  BY RoutingIsRight DEF LoopIsRight
<1>2. /\ DOMAIN d.personas = 1..Len(d.personas)
      /\ d.personas = << >> <=> RoutedTo[a] = {}
  BY <1>1 DEF Range
<1>3. d.playbook \in AnyPlaybook /\ RoutedTo[a] \subseteq AnyPersona
  BY DEF AnyPlaybook, AnyPersona
<1>. HIDE DEF d
<1>4. Decision(a) = ApplyConductorRouting(d, setup.conductor)
  BY DEF Decision, d
<1>5. CASE setup.conductor /\ d.personas # << >>
  <2>1. Decision(a) = [d EXCEPT !.personas = <<"conductor">>]
    BY <1>4, <1>5 DEF ApplyConductorRouting
  <2>2. Decision(a).personas = <<"conductor">> /\ Decision(a).playbook = d.playbook
    BY <1>1, <2>1
  <2>3. Range(<<"conductor">>) = {"conductor"} /\ <<"conductor">> \in Seq({"conductor"})
    BY DEF Range
  <2>4. Wanted(a, setup.conductor) = {"conductor"}
    BY <1>2, <1>5 DEF Wanted
  <2>5. TodoRight(Decision(a).personas, a)
    BY <2>2, <2>3 DEF TodoRight
  <2>. QED
    BY <1>1, <1>2, <1>3, <1>5, <2>2, <2>3, <2>4, <2>5 DEF AnyPersona
<1>6. CASE ~(setup.conductor /\ d.personas # << >>)
  <2>1. Decision(a) = d
    BY <1>4, <1>6 DEF ApplyConductorRouting
  <2>2. Wanted(a, setup.conductor) = RoutedTo[a]
    BY <1>2, <1>6 DEF Wanted
  <2>3. TodoRight(d.personas, a)
    BY <1>1, <1>2, <2>1 DEF TodoRight
  <2>. QED
    BY <1>1, <1>3, <2>1, <2>2, <2>3
<1>. QED
  BY <1>5, <1>6

(* What the step of a task makes of it. *)
Ends(t) ==
  /\ tasks'[t].at \in Nat
  /\ tasks'[t].step \in {"answered", "failed", "down"} \/ (t = Router /\ tasks'[t].step = "free")
Begins(t) ==
  /\ tasks'[t].at \in Nat /\ tasks[t].step = "free"
  /\ tasks'[t].step \in {"publish", "fetched"} /\ tasks'[t].alert \in Good
Routed(t) ==
  /\ tasks[t].step = "publish" \/ (t = Router /\ tasks[t].step = "fetched")
  /\ tasks'[t].step = "jobs"
  /\ tasks'[t].alert = tasks[t].alert /\ tasks'[t].at = tasks[t].at
  /\ tasks'[t].todo = Decision(tasks[t].alert).personas
Same(t) == tasks'[t] = tasks[t]

Relabels ==
  /\ jobs' \in Seq(JobRecords) /\ DOMAIN jobs' = DOMAIN jobs
  /\ \A j \in DOMAIN jobs : /\ jobs'[j].alert = jobs[j].alert /\ jobs'[j].persona = jobs[j].persona
                            /\ jobs'[j].playbook = jobs[j].playbook /\ jobs'[j].task = jobs[j].task

Enqueues(t) ==
  /\ tasks[t].step = "jobs" /\ tasks[t].todo # << >>
  /\ \E place \in {"topic", "api", "router", "nowhere"} : Record(t, place)
  /\ \A u \in Tasks \ {t} : Same(u)
  /\ \/ Ends(t)
     \/ /\ tasks'[t].step = "jobs" /\ tasks'[t].todo = Tail(tasks[t].todo)
        /\ tasks'[t].alert = tasks[t].alert /\ tasks'[t].at = tasks[t].at

Around == setup' = setup /\ PollInRange' /\ raw' \in Seq(Good) /\ offset' \in Nat

LEMMA RelabelsRight ==
  ASSUME DInv, Around, Relabels,
         \A t \in Tasks : Same(t) \/ Ends(t) \/ Begins(t) \/ Routed(t)
  PROVE  DInv'
<1>0. \A a : Decision(a)' = Decision(a)
  BY DEF Around, Decision
<1>1. PollInRange' /\ KafkaTyped'
  BY DEF Around, Relabels, KafkaTyped
<1>2. JobsRight'
  BY <1>0 DEF DInv, JobsRight, Relabels
<1>3. JobsOnce'
  BY DEF DInv, JobsOnce, Relabels
<1>4. TasksRight'
  <2>. SUFFICES ASSUME NEW t \in Tasks
                PROVE  /\ tasks'[t].at \in Nat
                       /\ tasks'[t].step \in {"publish", "fetched", "jobs"} => tasks'[t].alert \in Good
                       /\ tasks'[t].step = "jobs" => TodoRight(tasks'[t].todo, tasks'[t].alert)
    BY <1>0 DEF TasksRight, TodoRight
  <2>1. CASE Same(t)
    BY <2>1 DEF Same, DInv, TasksRight
  <2>2. CASE Ends(t) \/ Begins(t)
    BY <2>2 DEF Ends, Begins
  <2>3. CASE Routed(t)
    <3>1. tasks[t].alert \in Good /\ tasks[t].alert \in DOMAIN Alerts
      BY <2>3 DEF Routed, DInv, TasksRight, Good
    <3>2. TodoRight(Decision(tasks[t].alert).personas, tasks[t].alert)
      BY <3>1, DecisionRight
    <3>. QED
      BY <2>3, <3>1, <3>2 DEF Routed, DInv, TasksRight
  <2>. QED
    BY <2>1, <2>2, <2>3
<1>5. TodoIsNew'
  <2>0. /\ DOMAIN jobs' = DOMAIN jobs
        /\ \A j \in DOMAIN jobs : jobs'[j].task = jobs[j].task /\ jobs'[j].persona = jobs[j].persona
    BY DEF Relabels
  <2>. SUFFICES ASSUME NEW j \in DOMAIN jobs', NEW r \in Requests, jobs'[j].task[1] = r
                PROVE  /\ tasks'[r].step \notin {"free", "publish"}
                       /\ tasks'[r].step = "jobs" =>
                            \A k \in 1..Len(tasks'[r].todo) : tasks'[r].todo[k] # jobs'[j].persona
    BY DEF TodoIsNew
  <2>a. j \in DOMAIN jobs /\ jobs[j].task[1] = r /\ jobs'[j].persona = jobs[j].persona
    BY <2>0
  <2>1. tasks[r].step \notin {"free", "publish"} /\ r # Router /\ r \in Tasks
    BY <2>a, RequestsApart DEF DInv, TodoIsNew
  <2>2. CASE Same(r)
    BY <2>a, <2>2 DEF Same, DInv, TodoIsNew
  <2>3. CASE Ends(r) \/ Begins(r)
    BY <2>1, <2>3 DEF Ends, Begins
  <2>4. CASE Routed(r)
    BY <2>1, <2>4 DEF Routed
  <2>. QED
    BY <2>1, <2>2, <2>3, <2>4
<1>. QED
  BY <1>1, <1>2, <1>3, <1>4, <1>5 DEF DInv

LEMMA EnqueuesRight ==
  ASSUME DInv, Around, NEW t \in Tasks, Enqueues(t)
  PROVE  DInv'
<1>0. \A a : Decision(a)' = Decision(a)
  BY DEF Around, Decision
<1>. DEFINE a == tasks[t].alert
            todo == tasks[t].todo
            p == Head(todo)
            n == Len(jobs)
<1>1. /\ a \in Good /\ a \in DOMAIN Alerts /\ tasks[t].at \in Nat
      /\ tasks[t].step = "jobs" /\ TodoRight(todo, a) /\ todo # << >>
  BY DEF Enqueues, DInv, TasksRight, Good
<1>2. /\ todo \in Seq(Range(Decision(a).personas)) /\ Len(todo) \in Nat /\ Len(todo) > 0
      /\ p = todo[1] /\ p \in Range(Decision(a).personas)
      /\ Tail(todo) \in Seq(Range(Decision(a).personas)) /\ Len(Tail(todo)) = Len(todo) - 1
      /\ \A k \in 1..(Len(todo) - 1) : Tail(todo)[k] = todo[k + 1]
      /\ \A i, k \in 1..Len(todo) : todo[i] = todo[k] => i = k
  <2>. DEFINE S == Range(Decision(a).personas)
  <2>1. todo \in Seq(S) /\ todo # << >> /\ \A i, k \in 1..Len(todo) : todo[i] = todo[k] => i = k
    BY <1>1 DEF TodoRight
  <2>. HIDE DEF S, todo
  <2>2. Len(todo) \in Nat /\ Len(todo) > 0 /\ Head(todo) = todo[1] /\ todo[1] \in S
    BY <2>1
  <2>3. Tail(todo) \in Seq(S) /\ Len(Tail(todo)) = Len(todo) - 1
    BY <2>1
  <2>4. \A k \in 1..(Len(todo) - 1) : Tail(todo)[k] = todo[k + 1]
    BY <2>1
  <2>. QED
    BY <2>1, <2>2, <2>3, <2>4 DEF S
<1>3. p \in AnyPersona /\ Decision(a).playbook \in AnyPlaybook
  BY <1>1, <1>2, DecisionRight
<1>4. PICK place \in {"topic", "api", "router", "nowhere"} : Record(t, place)
  BY DEF Enqueues
<1>. DEFINE job == [alert |-> a, persona |-> p, playbook |-> Decision(a).playbook,
                    task |-> <<t, tasks[t].at>>, place |-> place]
<1>5. job \in JobRecords /\ jobs' = Append(jobs, job)
  BY <1>1, <1>3, <1>4 DEF Record, JobRecords
<1>6. /\ job.alert = a /\ job.persona = p /\ job.playbook = Decision(a).playbook
      /\ job.task = <<t, tasks[t].at>> /\ job.task[1] = t
  OBVIOUS
<1>7. jobs \in Seq(JobRecords) /\ n \in Nat /\ DOMAIN jobs = 1..n
  BY DEF DInv, KafkaTyped
<1>. HIDE DEF job
<1>8. /\ jobs' \in Seq(JobRecords) /\ DOMAIN jobs' = 1..(n + 1)
      /\ jobs'[n + 1] = job /\ \A j \in 1..n : jobs'[j] = jobs[j]
  BY <1>5, <1>7
<1>. HIDE DEF a, todo, p, n
<1>9. \A j \in 1..(n + 1) : j \in 1..n \/ j = n + 1
  BY <1>7
<1>10. PollInRange' /\ KafkaTyped'
  BY <1>8 DEF Around, KafkaTyped
<1>11. JobsRight'
  <2>. SUFFICES ASSUME NEW j \in 1..(n + 1)
                PROVE  /\ jobs'[j].persona \in Range(Decision(jobs'[j].alert).personas)
                       /\ jobs'[j].playbook = Decision(jobs'[j].alert).playbook
    BY <1>0, <1>8 DEF JobsRight
  <2>1. CASE j = n + 1
    BY <1>2, <1>6, <1>8, <2>1
  <2>2. CASE j \in 1..n
    BY <1>7, <1>8, <2>2 DEF DInv, JobsRight
  <2>. QED
    BY <1>9, <2>1, <2>2
<1>17. ASSUME NEW r \in Requests, r = t, NEW j \in 1..n, jobs[j].task[1] = r
       PROVE  \A k \in 1..Len(todo) : todo[k] # jobs[j].persona
  <2>1. TodoIsNew
    BY DEF DInv
  <2>2. j \in DOMAIN jobs /\ tasks[r].step = "jobs"
    BY <1>1, <1>7, <1>17
  <2>3. \A k \in 1..Len(tasks[r].todo) : tasks[r].todo[k] # jobs[j].persona
    BY <1>17, <2>1, <2>2 DEF TodoIsNew
  <2>. QED
    BY <1>17, <2>3 DEF todo
<1>12. ASSUME NEW r \in Requests, r = t, NEW j \in 1..n, jobs[j].task[1] = r
       PROVE  jobs[j].persona # p
  <2>1. \A k \in 1..Len(todo) : todo[k] # jobs[j].persona
    BY <1>12, <1>17
  <2>2. 1 \in 1..Len(todo) /\ p = todo[1]
    BY <1>2
  <2>. QED
    BY <2>1, <2>2
<1>13. JobsOnce'
  <2>. SUFFICES ASSUME NEW i \in 1..(n + 1), NEW j \in 1..(n + 1), jobs'[i].task[1] # Router,
                       jobs'[i].task = jobs'[j].task, jobs'[i].persona = jobs'[j].persona
                PROVE  i = j
    BY <1>8 DEF JobsOnce
  <2>0. t = Router \/ t \in Requests
    BY DEF Tasks
  <2>1. CASE i \in 1..n /\ j \in 1..n
    BY <1>7, <1>8, <2>1 DEF DInv, JobsOnce
  <2>2. CASE i \in 1..n /\ j = n + 1
    <3>1. jobs[i].task[1] = t /\ jobs[i].persona = p /\ t \in Requests
      BY <1>6, <1>8, <2>0, <2>2
    <3>. QED
      BY <1>12, <2>2, <3>1
  <2>3. CASE i = n + 1 /\ j \in 1..n
    <3>1. jobs[j].task[1] = t /\ jobs[j].persona = p /\ t \in Requests
      BY <1>6, <1>8, <2>0, <2>3
    <3>. QED
      BY <1>12, <2>3, <3>1
  <2>. QED
    BY <1>9, <2>1, <2>2, <2>3
<1>14. ASSUME tasks'[t].step = "jobs" PROVE tasks'[t].todo = Tail(todo) /\ tasks'[t].alert = a
  BY <1>14 DEF Enqueues, Ends, todo, a
<1>15. TasksRight'
  <2>. SUFFICES ASSUME NEW u \in Tasks
                PROVE  /\ tasks'[u].at \in Nat
                       /\ tasks'[u].step \in {"publish", "fetched", "jobs"} => tasks'[u].alert \in Good
                       /\ tasks'[u].step = "jobs" => TodoRight(tasks'[u].todo, tasks'[u].alert)
    BY <1>0 DEF TasksRight, TodoRight
  <2>1. CASE u # t
    BY <2>1 DEF Enqueues, Same, DInv, TasksRight
  <2>2. CASE u = t
    <3>1. tasks'[t].at \in Nat /\ (tasks'[t].step \in {"publish", "fetched", "jobs"} => tasks'[t].alert \in Good)
      BY <1>1 DEF Enqueues, Ends, a
    <3>2. TodoRight(Tail(todo), a)
      <4>1. ASSUME NEW i \in 1..(Len(todo) - 1), NEW k \in 1..(Len(todo) - 1), Tail(todo)[i] = Tail(todo)[k]
            PROVE  i = k
        <5>1. i + 1 \in 1..Len(todo) /\ k + 1 \in 1..Len(todo)
          BY <1>2
        <5>2. todo[i + 1] = todo[k + 1]
          BY <1>2, <4>1
        <5>3. i + 1 = k + 1
          BY <1>2, <5>1, <5>2
        <5>. QED
          BY <5>3
      <4>. QED
        BY <1>2, <4>1 DEF TodoRight
    <3>. QED
      BY <1>14, <2>2, <3>1, <3>2
  <2>. QED
    BY <2>1, <2>2
<1>16. TodoIsNew'
  <2>. SUFFICES ASSUME NEW j \in 1..(n + 1), NEW r \in Requests, jobs'[j].task[1] = r
                PROVE  /\ tasks'[r].step \notin {"free", "publish"}
                       /\ tasks'[r].step = "jobs" =>
                            \A k \in 1..Len(tasks'[r].todo) : tasks'[r].todo[k] # jobs'[j].persona
    BY <1>8 DEF TodoIsNew
  <2>0. r \in Tasks /\ r # Router
    BY RequestsApart
  <2>1. CASE r # t
    <3>1. tasks'[r] = tasks[r] /\ j \in 1..n
      BY <1>6, <1>8, <1>9, <2>0, <2>1 DEF Enqueues, Same
    <3>. QED
      BY <1>7, <1>8, <3>1 DEF DInv, TodoIsNew
  <2>2. CASE r = t
    <3>1. tasks'[r].step \notin {"free", "publish"}
      BY <2>0, <2>2 DEF Enqueues, Ends
    <3>2. ASSUME tasks'[r].step = "jobs", NEW k \in 1..(Len(todo) - 1)
          PROVE  Tail(todo)[k] # jobs'[j].persona
      <4>1. Tail(todo)[k] = todo[k + 1] /\ k + 1 \in 1..Len(todo) /\ k + 1 # 1 /\ 1 \in 1..Len(todo)
        BY <1>2
      <4>2. CASE j = n + 1
        <5>1. todo[k + 1] # todo[1]
          BY <1>2, <4>1
        <5>. QED
          BY <1>2, <1>6, <1>8, <4>1, <4>2, <5>1
      <4>3. CASE j \in 1..n
        <5>1. \A l \in 1..Len(todo) : todo[l] # jobs[j].persona
          <6>1. jobs[j].task[1] = r
            BY <1>8, <4>3
          <6>. QED
            BY <1>17, <2>2, <4>3, <6>1
        <5>. QED
          BY <1>8, <4>1, <4>3, <5>1
      <4>. QED
        BY <1>9, <4>2, <4>3
    <3>. QED
      BY <1>2, <1>14, <2>2, <3>1, <3>2
  <2>. QED
    BY <2>1, <2>2
<1>. QED
  BY <1>10, <1>11, <1>13, <1>15, <1>16 DEF DInv

LEMMA AlertsAreSeq == Alerts \in Seq([severity : STRING, poisoned : BOOLEAN]) /\ Len(Alerts) \in Nat
                      /\ DOMAIN Alerts = 1..Len(Alerts)
  BY AlertsAssumption

(* Every step either moves tasks on or enqueues a job of one. *)
LEMMA DispatchStep ==
  ASSUME IInv, DInv, [Next]_vars
  PROVE  DInv'
<1>. USE RequestsApart
<1>0. /\ DOMAIN tasks = Tasks /\ \A t \in Tasks : DOMAIN tasks[t] = {"step", "alert", "todo", "at"}
      /\ since \in Nat /\ upto \in Nat /\ next \in Nat
      /\ raw \in Seq(Good) /\ offset \in Nat /\ jobs \in Seq(JobRecords)
      /\ polling => next > 0 /\ upto <= Len(Alerts)
      /\ \A t \in Tasks : tasks[t].at \in Nat
  BY DEF IInv, TasksTyped, PollTyped, DInv, KafkaTyped, PollInRange, TasksRight
<1>1. UNCHANGED jobs => Relabels
  BY <1>0 DEF Relabels
<1>2. UNCHANGED tasks => \A t \in Tasks : Same(t)
  BY DEF Same
<1>3. ASSUME UNCHANGED <<setup, polling, next, upto, raw, offset>> PROVE Around
  BY <1>0, <1>3 DEF Around, PollInRange
<1>4. ASSUME UNCHANGED <<setup, polling, next, upto, raw, offset, jobs, tasks>> PROVE DInv'
  BY <1>1, <1>2, <1>3, <1>4, RelabelsRight
<1>5. ASSUME NEW t \in Tasks, NEW new, tasks' = [tasks EXCEPT ![t] = new]
      PROVE  tasks'[t] = new /\ \A u \in Tasks \ {t} : Same(u)
  BY <1>0, <1>5 DEF Same
<1>6. ASSUME NEW t \in Tasks, Fail(t) PROVE Ends(t) /\ \A u \in Tasks \ {t} : Same(u)
  <2>1. CASE t = Router
    <3>1. tasks' = [tasks EXCEPT ![t] = [NoTask EXCEPT !.step = "down"]]
      BY <1>6, <2>1 DEF Fail
    <3>2. tasks'[t] = [NoTask EXCEPT !.step = "down"] /\ \A u \in Tasks \ {t} : Same(u)
      BY <1>5, <3>1
    <3>. QED
      BY <3>2 DEF Ends, NoTask
  <2>2. CASE t # Router
    <3>1. tasks' = [tasks EXCEPT ![t] = [tasks[t] EXCEPT !.step = "failed"]]
      BY <1>6, <2>2 DEF Fail
    <3>2. tasks'[t] = [tasks[t] EXCEPT !.step = "failed"] /\ \A u \in Tasks \ {t} : Same(u)
      BY <1>5, <3>1
    <3>. QED
      BY <1>0, <3>2 DEF Ends
  <2>. QED
    BY <2>1, <2>2
<1>7. ASSUME NEW t \in Tasks, tasks' = [tasks EXCEPT ![t] = Dispatching(@)],
             tasks[t].step = "publish" \/ (t = Router /\ tasks[t].step = "fetched")
      PROVE  Routed(t) /\ \A u \in Tasks \ {t} : Same(u)
  <2>1. tasks' = [tasks EXCEPT ![t] = Dispatching(tasks[t])]
    BY <1>7
  <2>2. tasks'[t] = [tasks[t] EXCEPT !.step = "jobs", !.todo = Decision(tasks[t].alert).personas]
    BY <1>5, <2>1 DEF Dispatching
  <2>. QED
    BY <1>0, <1>5, <1>7, <2>1, <2>2, ZenonT(60) DEF Routed
<1>8. ASSUME NEW place \in {"api", "router"}, ForgetFallback(place) PROVE Relabels
  <2>1. jobs' = [j \in DOMAIN jobs |->
                   IF jobs[j].place = place THEN [jobs[j] EXCEPT !.place = "nowhere"] ELSE jobs[j]]
    BY <1>8 DEF ForgetFallback
  <2>2. Len(jobs) \in Nat /\ DOMAIN jobs = 1..Len(jobs) /\ \A j \in DOMAIN jobs : jobs[j] \in JobRecords
    BY <1>0
  <2>3. \A j \in DOMAIN jobs : /\ jobs'[j] \in JobRecords
                               /\ jobs'[j].alert = jobs[j].alert /\ jobs'[j].persona = jobs[j].persona
                               /\ jobs'[j].playbook = jobs[j].playbook /\ jobs'[j].task = jobs[j].task
    BY <2>1, <2>2 DEF JobRecords
  <2>4. jobs' \in [1..Len(jobs) -> JobRecords]
    BY <2>1, <2>2, <2>3
  <2>5. jobs' \in Seq(JobRecords)
    BY <2>2, <2>4
  <2>. QED
    BY <2>1, <2>3, <2>5 DEF Relabels
<1>9. CASE Poll
  <2>1. UNCHANGED <<setup, raw, offset, jobs>>
    BY <1>9 DEF Poll, FetchAlerts, SkipPoisoned, PostEvent, PostAnswered, PollRaises, PollReturns, kafkaVars
  <2>2. PollInRange'
    <3>1. CASE FetchAlerts
      BY <1>0, <3>1, AlertsAreSeq DEF FetchAlerts, PollInRange
    <3>2. CASE SkipPoisoned \/ PostAnswered
      <4>1. next' = next + 1 /\ UNCHANGED <<polling, upto>>
        BY <3>2 DEF SkipPoisoned, PostAnswered
      <4>2. next > 0 => next' > 0
        BY <1>0, <4>1
      <4>. QED
        BY <1>0, <4>1, <4>2 DEF PollInRange
    <3>3. CASE UNCHANGED <<polling, next, upto>> \/ ~polling'
      BY <1>0, <3>3 DEF PollInRange
    <3>. QED
      BY <1>9, <3>1, <3>2, <3>3 DEF Poll, PostEvent, PollRaises, PollReturns
  <2>3. Around
    BY <1>0, <2>1, <2>2 DEF Around
  <2>4. CASE UNCHANGED tasks
    BY <1>1, <1>2, <2>1, <2>3, <2>4, RelabelsRight
  <2>5. ASSUME NEW r \in Requests, PostEvent(r) PROVE DInv'
    <3>1. tasks' = [tasks EXCEPT ![r] = [tasks[r] EXCEPT !.step = "publish", !.alert = next]]
          /\ tasks[r].step = "free" /\ polling /\ next <= upto /\ ~Poisoned(next)
      BY <2>5 DEF PostEvent
    <3>2. next \in Good
      BY <1>0, <3>1, AlertsAreSeq DEF Good
    <3>3. tasks'[r] = [tasks[r] EXCEPT !.step = "publish", !.alert = next] /\ \A u \in Tasks \ {r} : Same(u)
      BY <1>5, <3>1
    <3>4. Begins(r)
      BY <1>0, <3>1, <3>2, <3>3 DEF Begins
    <3>. QED
      BY <1>1, <2>1, <2>3, <3>3, <3>4, RelabelsRight
  <2>. QED
    BY <1>9, <2>4, <2>5 DEF Poll, FetchAlerts, SkipPoisoned, PostAnswered, PollRaises, PollReturns
<1>10. ASSUME NEW r \in Requests, PublishRawEvent(r) PROVE DInv'
  <2>1. tasks[r].step = "publish" /\ tasks[r].alert \in Good
    BY <1>10 DEF PublishRawEvent, DInv, TasksRight
  <2>2. raw' \in Seq(Good)
    <3>1. raw' = raw \/ raw' = Append(raw, tasks[r].alert)
      BY <1>10 DEF PublishRawEvent
    <3>2. PICK a \in Good : a = tasks[r].alert
      BY <2>1
    <3>3. raw \in Seq(Good) /\ Append(raw, a) \in Seq(Good)
      BY <1>0
    <3>. QED
      BY <3>1, <3>2, <3>3
  <2>3. UNCHANGED <<setup, polling, next, upto, offset, jobs>>
    BY <1>10 DEF PublishRawEvent, pollVars
  <2>4. Around
    BY <1>0, <2>2, <2>3 DEF Around, PollInRange
  <2>5. CASE tasks' = [tasks EXCEPT ![r].step = "answered"]
    <3>1. tasks' = [tasks EXCEPT ![r] = [tasks[r] EXCEPT !.step = "answered"]]
      BY <2>5
    <3>2. tasks'[r] = [tasks[r] EXCEPT !.step = "answered"] /\ \A u \in Tasks \ {r} : Same(u)
      BY <1>5, <3>1
    <3>3. Ends(r)
      BY <1>0, <3>2 DEF Ends
    <3>. QED
      BY <1>1, <2>3, <2>4, <3>2, <3>3, RelabelsRight
  <2>6. CASE tasks' = [tasks EXCEPT ![r] = Dispatching(@)]
    <3>1. Routed(r) /\ \A u \in Tasks \ {r} : Same(u)
      BY <1>7, <2>1, <2>6
    <3>. QED
      BY <1>1, <2>3, <2>4, <3>1, RelabelsRight
  <2>. QED
    BY <1>10, <2>5, <2>6 DEF PublishRawEvent
<1>11. ASSUME NEW t \in Tasks, EnqueueJob(t) PROVE DInv'
  <2>1. Around
    BY <1>3, <1>11 DEF EnqueueJob, pollVars, kafkaVars
  <2>2. \E place \in {"topic", "api", "router", "nowhere"} : Record(t, place)
    BY <1>11 DEF EnqueueJob, ProcessOf
  <2>3. tasks[t].step = "jobs" /\ tasks[t].todo # << >>
    BY <1>11 DEF EnqueueJob
  <2>4. CASE tasks' = [tasks EXCEPT ![t].todo = Tail(@)]
    <3>1. tasks' = [tasks EXCEPT ![t] = [tasks[t] EXCEPT !.todo = Tail(tasks[t].todo)]]
      BY <2>4
    <3>2. tasks'[t] = [tasks[t] EXCEPT !.todo = Tail(tasks[t].todo)] /\ \A u \in Tasks \ {t} : Same(u)
      BY <1>5, <3>1
    <3>3. Enqueues(t)
      BY <1>0, <2>2, <2>3, <3>2 DEF Enqueues
    <3>. QED
      BY <2>1, <3>3, EnqueuesRight
  <2>5. CASE Fail(t)
    <3>1. Enqueues(t)
      BY <1>6, <2>2, <2>3, <2>5 DEF Enqueues
    <3>. QED
      BY <2>1, <3>1, EnqueuesRight
  <2>. QED
    BY <1>11, <2>4, <2>5 DEF EnqueueJob
<1>12. ASSUME NEW t \in Tasks, Dispatched(t) PROVE DInv'
  <2>1. Around /\ Relabels
    BY <1>1, <1>3, <1>12 DEF Dispatched, pollVars, kafkaVars
  <2>2. Ends(t) /\ \A u \in Tasks \ {t} : Same(u)
    <3>1. CASE t = Router
      <4>1. tasks' = [tasks EXCEPT ![t] = NoTask]
        BY <1>12, <3>1 DEF Dispatched
      <4>2. tasks'[t] = NoTask /\ \A u \in Tasks \ {t} : Same(u)
        BY <1>5, <4>1
      <4>. QED
        BY <3>1, <4>2 DEF Ends, NoTask
    <3>2. CASE t # Router
      <4>1. tasks' = [tasks EXCEPT ![t] = [tasks[t] EXCEPT !.step = "answered"]]
        BY <1>12, <3>2 DEF Dispatched
      <4>2. tasks'[t] = [tasks[t] EXCEPT !.step = "answered"] /\ \A u \in Tasks \ {t} : Same(u)
        BY <1>5, <4>1
      <4>. QED
        BY <1>0, <4>2 DEF Ends
    <3>. QED
      BY <3>1, <3>2
  <2>. QED
    BY <2>1, <2>2, RelabelsRight
<1>13. CASE ConsumeRawEvent
  <2>1. Around /\ Relabels
    BY <1>1, <1>3, <1>13 DEF ConsumeRawEvent, pollVars, kafkaVars
  <2>2. tasks' = [tasks EXCEPT ![Router] = [tasks[Router] EXCEPT !.step = "fetched",
                                            !.alert = raw[offset + 1], !.at = offset + 1]]
        /\ tasks[Router].step = "free" /\ offset < Len(raw)
    BY <1>13 DEF ConsumeRawEvent
  <2>3. raw[offset + 1] \in Good /\ offset + 1 \in Nat
    BY <1>0, <2>2
  <2>4. tasks'[Router] = [tasks[Router] EXCEPT !.step = "fetched", !.alert = raw[offset + 1], !.at = offset + 1]
        /\ \A u \in Tasks \ {Router} : Same(u)
    BY <1>5, <2>2
  <2>5. Begins(Router)
    BY <1>0, <2>2, <2>3, <2>4 DEF Begins
  <2>. QED
    BY <2>1, <2>4, <2>5, RelabelsRight
<1>14. CASE StopConsumer
  <2>1. UNCHANGED <<setup, polling, next, upto, raw, jobs>> /\ tasks[Router].step = "fetched"
        /\ offset' \in {tasks[Router].at, offset} /\ tasks' = [tasks EXCEPT ![Router] = Dispatching(@)]
    BY <1>14 DEF StopConsumer, pollVars
  <2>2. Around
    BY <1>0, <2>1 DEF Around, PollInRange
  <2>3. Routed(Router) /\ \A u \in Tasks \ {Router} : Same(u)
    BY <1>7, <2>1
  <2>. QED
    BY <1>1, <2>1, <2>2, <2>3, RelabelsRight
<1>15. CASE RestartRouter
  <2>1. Around /\ Relabels /\ tasks' = [tasks EXCEPT ![Router] = NoTask]
    BY <1>3, <1>8, <1>15 DEF RestartRouter, pollVars, kafkaVars
  <2>2. tasks'[Router] = NoTask /\ \A u \in Tasks \ {Router} : Same(u)
    BY <1>5, <2>1
  <2>3. Ends(Router)
    BY <2>2 DEF Ends, NoTask
  <2>. QED
    BY <2>1, <2>2, <2>3, RelabelsRight
<1>16. CASE CrashRouter
  <2>1. Around /\ Relabels /\ Fail(Router)
    BY <1>1, <1>3, <1>16 DEF CrashRouter, pollVars, kafkaVars
  <2>. QED
    BY <1>6, <2>1, RelabelsRight
<1>17. CASE CrashApi
  <2>1. Around /\ Relabels
    BY <1>3, <1>8, <1>17 DEF CrashApi, pollVars, kafkaVars
  <2>2. \A t \in Tasks : Same(t) \/ Ends(t)
    BY <1>0, <1>17 DEF CrashApi, Same, Ends
  <2>. QED
    BY <2>1, <2>2, RelabelsRight
<1>18. CASE ProcessOne
  <2>1. UNCHANGED <<setup, polling, next, upto, raw, offset, tasks>>
    BY <1>18 DEF ProcessOne, pollVars, kafkaVars
  <2>2. PICK j \in DOMAIN jobs : jobs' = [jobs EXCEPT ![j].place = "taken"]
    BY <1>18 DEF ProcessOne
  <2>3. Len(jobs) \in Nat /\ DOMAIN jobs = 1..Len(jobs) /\ \A i \in DOMAIN jobs : jobs[i] \in JobRecords
    BY <1>0
  <2>4. \A i \in DOMAIN jobs : /\ jobs'[i] \in JobRecords
                               /\ jobs'[i].alert = jobs[i].alert /\ jobs'[i].persona = jobs[i].persona
                               /\ jobs'[i].playbook = jobs[i].playbook /\ jobs'[i].task = jobs[i].task
    BY <2>2, <2>3 DEF JobRecords
  <2>5. jobs' \in [1..Len(jobs) -> JobRecords] /\ DOMAIN jobs' = DOMAIN jobs
    BY <2>2, <2>3, <2>4
  <2>6. jobs' \in Seq(JobRecords)
    BY <2>3, <2>5
  <2>7. Relabels
    BY <2>4, <2>5, <2>6 DEF Relabels
  <2>. QED
    BY <1>2, <1>3, <2>1, <2>7, RelabelsRight
<1>19. CASE Outage \/ OutageEnds
  BY <1>4, <1>19 DEF Outage, OutageEnds, pollVars, kafkaVars
<1>20. ASSUME NEW p \in Served, Work(p) \/ AutoCommit(p) \/ CrashWorker(p) PROVE DInv'
  BY <1>4, <1>20 DEF Work, Connect, Adequeue, CreateSandbox, RunJob, DestroySandbox, AutoCommit,
     CrashWorker, pollVars, kafkaVars
<1>21. CASE UNCHANGED vars
  BY <1>4, <1>21 DEF vars, pollVars, kafkaVars
<1>. QED
  BY <1>9, <1>10, <1>11, <1>12, <1>13, <1>14, <1>15, <1>16, <1>17, <1>18, <1>19, <1>20, <1>21
     DEF Next, Handle, Listen, Tasks

(* What becomes of the router's decisions is right for any plans: every    *)
(* job is for a persona that is wanted, with the playbook of the plans and *)
(* an alert that is not poisoned, and no request makes two jobs for one    *)
(* persona, whatever fails or dies between two jobs of a decision.         *)
THEOREM JobsAreAsWanted == Spec => []JobsAreWanted
<1>1. Init => DInv
  <2>. SUFFICES ASSUME Init PROVE DInv
    OBVIOUS
  <2>1. \A t \in Tasks : tasks[t] = NoTask
    BY DEF Init, Tasks
  <2>2. jobs = << >> /\ raw = << >> /\ offset = 0 /\ ~polling
    BY DEF Init
  <2>3. TasksRight
    BY <2>1 DEF TasksRight, NoTask
  <2>. QED
    BY <2>2, <2>3 DEF DInv, PollInRange, KafkaTyped, JobsRight, TodoIsNew, JobsOnce
<1>2. IInv /\ DInv /\ [Next]_vars => IInv' /\ DInv'
  BY NextInv, DispatchStep
<1>3. DInv => JobsAreWanted
  <2>. SUFFICES ASSUME DInv PROVE JobsAreWanted
    OBVIOUS
  <2>1. \A j \in DOMAIN jobs : jobs[j].alert \in Good
    <3>1. \A j \in DOMAIN jobs : jobs[j] \in JobRecords
      BY DEF DInv, KafkaTyped
    <3>. QED
      BY <3>1 DEF JobRecords
  <2>2. ASSUME NEW j \in DOMAIN jobs
        PROVE  /\ jobs[j].persona \in Wanted(jobs[j].alert, setup.conductor)
               /\ jobs[j].playbook = PlaybookOf[jobs[j].alert]
               /\ ~Poisoned(jobs[j].alert)
    <3>1. jobs[j].alert \in DOMAIN Alerts /\ ~Poisoned(jobs[j].alert)
      BY <2>1 DEF Good
    <3>2. /\ jobs[j].persona \in Range(Decision(jobs[j].alert).personas)
          /\ jobs[j].playbook = Decision(jobs[j].alert).playbook
      BY DEF DInv, JobsRight
    <3>. QED
      BY <3>1, <3>2, DecisionRight
  <2>. QED
    BY <2>2 DEF JobsAreWanted, DInv, JobsOnce
<1>. QED
  BY InitInv, <1>1, <1>2, <1>3, PTL DEF Spec
=============================================================================
