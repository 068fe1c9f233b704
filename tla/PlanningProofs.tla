--------------------------- MODULE PlanningProofs ---------------------------
(***************************************************************************)
(* Proofs about Planning for any personas, answers, events and             *)
(* deployments.  Next is reduced to a few kinds of step: a planner or an   *)
(* event advances (Advances), a plan is enqueued, a job runs, its worker   *)
(* reads the document or its job fails (WorkerReads), and it appends the   *)
(* finding or marks the persona as done (WorkerWrites).  Every version of the document that a step leaves behind,  *)
(* stored or in somebody's hands, comes from an earlier version by an      *)
(* update that keeps what the invariants say of it.                        *)
(***************************************************************************)
EXTENDS Planning, TLAPS

-----------------------------------------------------------------------------
(* Documents *)

LEMMA EmptyDocument == IsDocument(NoDocument) /\ NoDocument.done = {} /\ NoDocument.planner = "none"
  BY DEF IsDocument, NoDocument

LEMMA BaseIsVersion ==
  ASSUME TypeOK, NEW e \in Events
  PROVE  /\ Base(e) \in Versions /\ IsDocument(Base(e))
         /\ setup.inProcess => Base(e) = doc
  BY DEF TypeOK, Base, Versions

(* What the steps that write the document make of the version they have. *)
LEMMA BegunDocument ==
  ASSUME NEW d, IsDocument(d)
  PROVE  LET new == [d EXCEPT !.exists = TRUE, !.planner = "planning", !.plan = {}]
         IN  /\ IsDocument(new) /\ new.done = d.done /\ new.findings = d.findings
             /\ new.planner = "planning"
  BY DEF IsDocument

LEMMA RestartedDocument ==
  ASSUME NEW d, IsDocument(d)
  PROVE  LET new == [d EXCEPT !.planner = "planning"]
         IN  /\ IsDocument(new) /\ new.done = d.done /\ new.findings = d.findings
             /\ new.planner = "planning"
  BY DEF IsDocument

-----------------------------------------------------------------------------
(* The kinds of step *)

(* The document that an advancing event e makes of version b. *)
Updates(e, b, d) ==
  /\ IsDocument(d) /\ d.done = b.done /\ d.findings = b.findings
  /\ \/ d = b
     \/ d.planner = "planning"
     \/ /\ d.plan = {plan[e].personas} /\ d.planner = plan[e].status
        /\ pc'[e] = "enqueue" /\ plan'[e] = plan[e]

(* Who moves, and from where to where; plans are made before they are      *)
(* shown, and the way of an event is known before it has jobs.             *)
Moves(f) ==
  /\ \/ pc'[f] = pc[f]
     \/ /\ pc[f] \notin {"done", "dead"} /\ pc'[f] \notin {"new", "done"}
        /\ pc[f] = "enqueue" => pc'[f] = "dead"
        /\ pc[f] = "new" => f \in setup.arriving
  /\ plan'[f] = plan[f] \/ pc[f] \notin {"enqueue", "done", "dead"}
  /\ via'[f] = via[f] \/ pc[f] # "done"

(* Event e writes the document, before it has jobs. *)
Writes(e) ==
  /\ PlannerHolds(e)
  /\ Updates(e, Base(e), doc')
  /\ \A f \in Events : local'[f] \in {local[f], doc'}

(* Who holds a copy that he is going to write back read it now or held it.  *)
Holds(f) ==
  PlannerHolds(f)' => \/ local'[f] = doc'
                      \/ local'[f] = local[f] /\ PlannerHolds(f)

Advances ==
  /\ TypeOK' /\ UNCHANGED <<setup, jobs, worker, record>>
  /\ \A f \in Events : Moves(f) /\ Holds(f)
  /\ \/ doc' = doc /\ \A f \in Events : local'[f] \in {local[f], doc}
     \/ \E e \in Events : Writes(e)

(* One event goes from one control point to another. *)
LEMMA OneMoves ==
  ASSUME TypeOK, NEW e \in Events, NEW from, NEW to, GoTo(e, from, to)
  PROVE  /\ pc' = [f \in Events |-> pc'[f]] /\ pc[e] = from /\ pc'[e] = to
         /\ \A f \in Events \ {e} : pc'[f] = pc[f]
<1>1. pc = [f \in Events |-> pc[f]] /\ pc' = [pc EXCEPT ![e] = to] /\ pc[e] = from
  BY DEF TypeOK, GoTo
<1>2. QED
  BY <1>1

LEMMA IngestAdvances ==
  ASSUME TypeOK, NEW e \in Events,
         \/ Consume(e)
         \/ e \in setup.arriving /\ \E entry \in {"api", "cli"} : Ingest(e, entry)
  PROVE  Advances
<1>1. /\ pc' = [f \in Events |-> pc'[f]] /\ pc'[e] \in {"dispatch", "raw"}
      /\ \A f \in Events \ {e} : pc'[f] = pc[f]
      /\ pc[e] = "raw" \/ (pc[e] = "new" /\ e \in setup.arriving)
  BY OneMoves DEF Consume, Ingest
<1>2. /\ via' = [f \in Events |-> via'[f]] /\ \A f \in Events \ {e} : via'[f] = via[f]
      /\ UNCHANGED <<setup, doc, local, plan, jobs, worker, record>>
  <2>1. via = [f \in Events |-> via[f]]
    BY DEF TypeOK
  <2>2. \/ via' = via \/ \E x \in {"api", "cli", "router"} : via' = [via EXCEPT ![e] = x]
    BY DEF Consume, Ingest
  <2>3. UNCHANGED <<setup, doc, local, plan, jobs, worker, record>>
    BY DEF Consume, Ingest
  <2>4. QED
    BY <2>1, <2>2, <2>3
<1>3. TypeOK'
  BY <1>1, <1>2 DEF TypeOK
<1>4. \A f \in Events : Moves(f) /\ Holds(f)
  BY <1>1, <1>2 DEF Moves, Holds, PlannerHolds
<1>5. QED
  BY <1>2, <1>3, <1>4 DEF Advances

LEMMA FaultAdvances ==
  ASSUME TypeOK, \/ ApiCrash \/ UNCHANGED vars
                 \/ \E e \in Events : PlannerDies(e) \/ DispatchInline(e)
                 \/ \E p \in Personas, t \in 0..2 : QualitySample(p, t)
  PROVE  Advances
<1>1. UNCHANGED <<setup, doc, via, local, plan, jobs, worker, record>>
  BY DEF ApiCrash, vars, PlannerDies, DispatchInline, QualitySample
<1>2. /\ pc' = [f \in Events |-> pc'[f]]
      /\ \A f \in Events : \/ pc'[f] = pc[f]
                           \/ pc'[f] = "dead" /\ pc[f] \notin {"new", "done", "dead"}
                           \/ pc'[f] = "accepted" /\ pc[f] = "dispatch"
  <2>1. CASE ApiCrash
    BY <2>1 DEF ApiCrash
  <2>2. CASE UNCHANGED vars \/ \E p \in Personas, t \in 0..2 : QualitySample(p, t)
    BY <2>2 DEF vars, QualitySample, TypeOK
  <2>3. CASE \E e \in Events : PlannerDies(e) \/ DispatchInline(e)
    BY <2>3, OneMoves DEF PlannerDies, DispatchInline
  <2>4. QED
    BY <2>1, <2>2, <2>3
<1>3. TypeOK'
  BY <1>1, <1>2 DEF TypeOK
<1>4. \A f \in Events : Moves(f) /\ Holds(f)
  BY <1>1, <1>2 DEF Moves, Holds, PlannerHolds
<1>5. QED
  BY <1>1, <1>3, <1>4 DEF Advances

LEMMA ReadAdvances ==
  ASSUME TypeOK, NEW e \in Events, BeginRead(e) \/ PlannerRead(e)
  PROVE  Advances
<1>1. UNCHANGED <<setup, doc, via, plan, jobs, worker, record>> /\ local' = [local EXCEPT ![e] = doc]
  BY DEF BeginRead, PlannerRead
<1>2. /\ pc' = [f \in Events |-> pc'[f]] /\ \A f \in Events \ {e} : pc'[f] = pc[f]
      /\ pc[e] \in {"dispatch", "missing", "accepted"}
      /\ pc'[e] \in {"begin", "beginMissing", "missing", "asking", "restart"}
  BY OneMoves DEF BeginRead, PlannerRead
<1>3. local = [f \in Events |-> local[f]]
  BY DEF TypeOK
<1>4. /\ local' = [f \in Events |-> local'[f]]
      /\ \A f \in Events : local'[f] \in {local[f], doc}
      /\ local'[e] = doc' /\ \A f \in Events \ {e} : local'[f] = local[f]
  BY <1>1, <1>3
<1>5. TypeOK'
  BY <1>1, <1>2, <1>4 DEF TypeOK
<1>6. \A f \in Events : Moves(f) /\ Holds(f)
  <2>1. \A f \in Events : Moves(f)
    BY <1>1, <1>2 DEF Moves
  <2>2. Holds(e)
    BY <1>4 DEF Holds
  <2>3. ASSUME NEW f \in Events \ {e} PROVE Holds(f)
    <3>1. pc'[f] = pc[f] /\ local'[f] = local[f]
      BY <1>2, <1>4
    <3>2. QED
      BY <3>1 DEF Holds, PlannerHolds
  <2>4. QED
    BY <2>1, <2>2, <2>3
<1>7. QED
  BY <1>1, <1>4, <1>5, <1>6 DEF Advances

LEMMA PlanAdvances ==
  ASSUME TypeOK, NEW e \in Events,
         DispatchSync(e) \/ PlannerFails(e) \/ \E a : PlannerAnswers(e, a)
  PROVE  Advances
<1>1. UNCHANGED <<setup, doc, via, local, jobs, worker, record>>
  BY DEF DispatchSync, PlannerFails, PlannerAnswers
<1>2. /\ pc' = [f \in Events |-> pc'[f]] /\ \A f \in Events \ {e} : pc'[f] = pc[f]
      /\ pc[e] \in {"dispatch", "asking"}
      /\ pc'[e] = "enqueue" \/ (pc[e] = "asking" /\ pc'[e] = "apply")
  BY OneMoves DEF DispatchSync, PlannerFails, PlannerAnswers
<1>3. \E s, status : plan' = [plan EXCEPT ![e] = [personas |-> s, status |-> status]]
  BY DEF DispatchSync, PlannerFails, PlannerAnswers
<1>4. plan = [f \in Events |-> [personas |-> plan[f].personas, status |-> plan[f].status]]
  BY DEF TypeOK
<1>5. /\ plan' = [f \in Events |-> [personas |-> plan'[f].personas, status |-> plan'[f].status]]
      /\ \A f \in Events \ {e} : plan'[f] = plan[f]
  BY <1>3, <1>4
<1>6. TypeOK'
  BY <1>1, <1>2, <1>5 DEF TypeOK
<1>7. \A f \in Events : Moves(f) /\ Holds(f)
  BY <1>1, <1>2, <1>5 DEF Moves, Holds, PlannerHolds
<1>8. QED
  BY <1>1, <1>6, <1>7 DEF Advances

LEMMA WriteAdvances ==
  ASSUME TypeOK, NEW e \in Events, BeginWrite(e) \/ PlannerRestart(e) \/ ApplyPlan(e)
  PROVE  Advances
<1>1. /\ UNCHANGED <<setup, via, plan, jobs, worker, record>>
      /\ (local' = local /\ ApplyPlan(e)) \/ local' = [local EXCEPT ![e] = doc']
  BY DEF BeginWrite, PlannerRestart, ApplyPlan
<1>2. /\ pc' = [f \in Events |-> pc'[f]] /\ \A f \in Events \ {e} : pc'[f] = pc[f]
      /\ pc[e] \in {"begin", "beginMissing", "restart", "apply"}
      /\ pc'[e] \in {"accepted", "stranded", "asking", "enqueue"}
      /\ ApplyPlan(e) => pc'[e] = "enqueue"
  BY OneMoves DEF BeginWrite, PlannerRestart, ApplyPlan
<1>3. Updates(e, Base(e), doc')
  <2>1. IsDocument(Base(e))
    BY BaseIsVersion
  <2>2. CASE BeginWrite(e)
    BY <2>1, <2>2, BegunDocument DEF BeginWrite, Updates
  <2>3. CASE PlannerRestart(e)
    BY <2>1, <2>3, RestartedDocument DEF PlannerRestart, Updates
  <2>4. CASE ApplyPlan(e)
    <3>1. /\ IsDocument(doc') /\ doc'.done = Base(e).done /\ doc'.findings = Base(e).findings
          /\ doc'.planner = plan[e].status /\ doc'.plan = {plan[e].personas}
      <4>1. doc' = [Base(e) EXCEPT !.planner = plan[e].status, !.plan = {plan[e].personas}]
        BY <2>4 DEF ApplyPlan
      <4>2. QED
        BY <2>1, <4>1 DEF IsDocument
    <3>2. pc'[e] = "enqueue" /\ plan'[e] = plan[e]
      BY <1>1, <1>2, <2>4
    <3>3. QED
      BY <3>1, <3>2 DEF Updates
  <2>5. QED
    BY <2>2, <2>3, <2>4
<1>4. local = [f \in Events |-> local[f]]
  BY DEF TypeOK
<1>5. /\ local' = [f \in Events |-> local'[f]]
      /\ \A f \in Events : local'[f] \in {local[f], doc'}
      /\ local'[e] = doc' \/ ApplyPlan(e)
      /\ \A f \in Events \ {e} : local'[f] = local[f]
  BY <1>1, <1>4
<1>6. TypeOK'
  BY <1>1, <1>2, <1>3, <1>5 DEF TypeOK, Updates
<1>7. \A f \in Events : Moves(f) /\ Holds(f)
  BY <1>1, <1>2, <1>5 DEF Moves, Holds, PlannerHolds
<1>8. Writes(e)
  BY <1>2, <1>3, <1>5 DEF Writes, PlannerHolds
<1>9. QED
  BY <1>1, <1>6, <1>7, <1>8 DEF Advances

LEMMA Kinds ==
  ASSUME TypeOK, [Next]_vars
  PROVE  \/ Advances
         \/ \E e \in Events : EnqueuePlan(e)
         \/ \E w \in Workers, e \in Events : \E k \in DOMAIN jobs[e] : RunJob(w, e, k)
         \/ \E w \in Workers : ReadDocument(w) \/ JobFails(w) \/ AppendFinding(w) \/ MarkDone(w)
<1>1. setup.arriving \subseteq Events
  BY PlanningAssumption DEF TypeOK, Deployment
<1>2. ASSUME NEW e \in setup.arriving, NEW entry \in {"api", "cli"}, Ingest(e, entry)
      PROVE  Advances
  BY <1>1, <1>2, IngestAdvances
<1>3. ASSUME NEW e \in Events, Consume(e) \/ PlanTask(e) \/ PlannerDies(e), ~EnqueuePlan(e)
      PROVE  Advances
  <2>1. CASE Consume(e)
    BY <2>1, IngestAdvances
  <2>2. CASE PlannerDies(e) \/ DispatchInline(e)
    BY <2>2, FaultAdvances
  <2>3. CASE BeginRead(e) \/ PlannerRead(e)
    BY <2>3, ReadAdvances
  <2>4. CASE DispatchSync(e) \/ PlannerFails(e) \/ \E a : PlannerAnswers(e, a)
    BY <2>4, PlanAdvances
  <2>5. CASE BeginWrite(e) \/ PlannerRestart(e) \/ ApplyPlan(e)
    BY <2>5, WriteAdvances
  <2>6. QED
    BY <1>3, <2>1, <2>2, <2>3, <2>4, <2>5 DEF PlanTask
<1>4. CASE \/ ApiCrash \/ UNCHANGED vars
           \/ \E p \in Personas, t \in 0..2 : QualitySample(p, t)
  BY <1>4, FaultAdvances
<1>5. QED
  BY <1>2, <1>3, <1>4 DEF Next, Work

-----------------------------------------------------------------------------
(* The other three kinds *)

LEMMA EnqueueEffect ==
  ASSUME TypeOK, NEW e \in Events, EnqueuePlan(e)
  PROVE  /\ TypeOK' /\ UNCHANGED <<setup, doc, via, local, plan, worker, record>>
         /\ pc[e] = "enqueue" /\ pc'[e] = "done"
         /\ jobs'[e] = JobsFor(plan[e].personas, ChainRequested(e))
         /\ \A f \in Events \ {e} : pc'[f] = pc[f] /\ jobs'[f] = jobs[f]
<1> DEFINE new == JobsFor(plan[e].personas, ChainRequested(e))
<1>1. jobs = [f \in Events |-> jobs[f]] /\ jobs' = [jobs EXCEPT ![e] = new]
      /\ UNCHANGED <<setup, doc, via, local, plan, worker, record>>
  BY DEF TypeOK, EnqueuePlan
<1>2. /\ pc' = [f \in Events |-> pc'[f]] /\ pc[e] = "enqueue" /\ pc'[e] = "done"
      /\ \A f \in Events \ {e} : pc'[f] = pc[f]
  BY OneMoves DEF EnqueuePlan
<1> HIDE DEF new
<1>3. /\ jobs' = [f \in Events |-> jobs'[f]] /\ jobs'[e] = new
      /\ \A f \in Events \ {e} : jobs'[f] = jobs[f]
  BY <1>1
<1>4. TypeOK'
  BY <1>1, <1>2, <1>3 DEF TypeOK
<1>5. QED
  BY <1>1, <1>2, <1>3, <1>4 DEF new

(* What becomes of the worker w that moves, and of the others. *)
WorkerIs(w, job, at, snap) ==
  /\ worker' = [v \in Workers |-> [job |-> worker'[v].job, at |-> worker'[v].at, snap |-> worker'[v].snap]]
  /\ worker'[w] = [job |-> job, at |-> at, snap |-> snap]
  /\ \A v \in Workers \ {w} : worker'[v] = worker[v]

LEMMA WorkerMoves ==
  ASSUME TypeOK, NEW w \in Workers, NEW job, NEW at, NEW snap,
         worker' = [worker EXCEPT ![w] = [job |-> job, at |-> at, snap |-> snap]]
  PROVE  WorkerIs(w, job, at, snap)
<1>1. worker = [v \in Workers |-> [job |-> worker[v].job, at |-> worker[v].at, snap |-> worker[v].snap]]
  BY DEF TypeOK
<1>2. worker'[w] = [job |-> job, at |-> at, snap |-> snap] /\ \A v \in Workers \ {w} : worker'[v] = worker[v]
  BY <1>1
<1>3. \A v \in Workers : worker'[v] = [job |-> worker'[v].job, at |-> worker'[v].at, snap |-> worker'[v].snap]
  <2>1. worker'[w] = [job |-> worker'[w].job, at |-> worker'[w].at, snap |-> worker'[w].snap]
    BY <1>2
  <2>2. \A v \in Workers : worker[v] = [job |-> worker[v].job, at |-> worker[v].at, snap |-> worker[v].snap]
    BY <1>1
  <2>3. QED
    BY <1>2, <2>1, <2>2
<1>4. DOMAIN worker' = Workers /\ worker' = [v \in Workers |-> worker'[v]]
  BY <1>1
<1>5. QED
  BY <1>2, <1>3, <1>4 DEF WorkerIs

(* The type of what the workers leave alone. *)
LEMMA WorkerTyped ==
  ASSUME TypeOK, UNCHANGED <<setup, pc, via, local, plan, jobs>>, IsDocument(doc'),
         NEW w \in Workers, NEW job, NEW at, NEW snap, WorkerIs(w, job, at, snap), IsDocument(snap),
         NEW a, NEW b, NEW c, NEW d, record' = [ran |-> a, ended |-> b, found |-> c, exposed |-> d]
  PROVE  TypeOK'
<1>1. \A v \in Workers : IsDocument(worker'[v].snap)
  <2>1. worker'[w].snap = snap
    BY DEF WorkerIs
  <2>2. \A v \in Workers \ {w} : worker'[v] = worker[v] /\ IsDocument(worker[v].snap)
    BY DEF WorkerIs, TypeOK
  <2>3. QED
    BY <2>1, <2>2
<1>2. worker' = [v \in Workers |-> [job |-> worker'[v].job, at |-> worker'[v].at, snap |-> worker'[v].snap]]
  BY DEF WorkerIs
<1>3. record' = [ran |-> record'.ran, ended |-> record'.ended, found |-> record'.found, exposed |-> record'.exposed]
  OBVIOUS
<1>4. QED
  BY <1>1, <1>2, <1>3 DEF TypeOK

LEMMA RunEffect ==
  ASSUME TypeOK, NEW w \in Workers, NEW e \in Events, NEW k \in DOMAIN jobs[e], RunJob(w, e, k)
  PROVE  /\ TypeOK' /\ UNCHANGED <<setup, doc, pc, via, local, plan, jobs>>
         /\ worker[w] = Idle /\ WorkerIs(w, <<e, k>>, "running", NoDocument)
         /\ record'.ran = record.ran \cup {<<e, k>>} /\ record'.ended = record.ended
         /\ record'.found = record.found /\ record'.exposed = record.exposed
         /\ jobs[e][k].depends \subseteq doc.done
<1>1. /\ UNCHANGED <<setup, doc, pc, via, local, plan, jobs>>
      /\ worker[w] = Idle /\ jobs[e][k].depends \subseteq doc.done
      /\ worker' = [worker EXCEPT ![w] = [job |-> <<e, k>>, at |-> "running", snap |-> NoDocument]]
  BY DEF RunJob
<1>2. WorkerIs(w, <<e, k>>, "running", NoDocument)
  BY <1>1, WorkerMoves
<1>3. record' = [ran |-> record.ran \cup {<<e, k>>}, ended |-> record.ended,
                 found |-> record.found, exposed |-> record.exposed]
  BY DEF RunJob, TypeOK
<1>4. TypeOK'
  <2>1. IsDocument(doc')
    BY <1>1 DEF TypeOK
  <2>2. QED
    BY <1>1, <1>2, <1>3, <2>1, EmptyDocument, WorkerTyped
<1>5. QED
  BY <1>1, <1>2, <1>3, <1>4

(* A worker takes a copy of the document, or its job fails. *)
WorkerReads(w) ==
  /\ TypeOK' /\ UNCHANGED <<setup, doc, pc, via, local, plan, jobs, record>>
  /\ worker[w] # Idle
  /\ \E at, snap : /\ WorkerIs(w, worker[w].job, at, snap)
                   /\ snap = doc \/ (snap = worker[w].snap /\ at = "found")

LEMMA ReadEffect ==
  ASSUME TypeOK, NEW w \in Workers, ReadDocument(w) \/ JobFails(w)
  PROVE  WorkerReads(w)
<1>1. UNCHANGED <<setup, doc, pc, via, local, plan, jobs, record>> /\ worker[w] # Idle
  BY DEF ReadDocument, JobFails, Idle
<1>2. PICK own : own = worker[w]
  OBVIOUS
<1>3. worker = [v \in Workers |-> [job |-> worker[v].job, at |-> worker[v].at, snap |-> worker[v].snap]]
      /\ own = [job |-> own.job, at |-> own.at, snap |-> own.snap] /\ IsDocument(own.snap)
  BY <1>2 DEF TypeOK
<1>4. PICK at, snap : /\ worker' = [worker EXCEPT ![w] = [job |-> own.job, at |-> at, snap |-> snap]]
                      /\ snap = doc \/ (snap = own.snap /\ at = "found")
  <2>1. CASE ReadDocument(w)
    BY <1>2, <1>3, <2>1 DEF ReadDocument
  <2>2. CASE JobFails(w)
    BY <1>2, <1>3, <2>2 DEF JobFails
  <2>3. QED
    BY <2>1, <2>2
<1>5. WorkerIs(w, own.job, at, snap)
  BY <1>4, WorkerMoves
<1>6. TypeOK'
  <2>1. IsDocument(doc') /\ IsDocument(snap)
    BY <1>1, <1>3, <1>4 DEF TypeOK
  <2>2. \E a, b, c, d : record' = [ran |-> a, ended |-> b, found |-> c, exposed |-> d]
    BY <1>1 DEF TypeOK
  <2>3. QED
    BY <1>1, <1>5, <2>1, <2>2, WorkerTyped
<1>7. QED
  BY <1>1, <1>2, <1>4, <1>5, <1>6 DEF WorkerReads

LEMMA WorkerBaseIsVersion ==
  ASSUME TypeOK, NEW w \in Workers
  PROVE  WorkerBase(w) \in Versions /\ IsDocument(WorkerBase(w))
  BY DEF TypeOK, WorkerBase, Versions

(* Job j of worker w is appended or marked as done: the document keeps what *)
(* the version at hand has, and has that too.                               *)
WorkerWrites(w) ==
  /\ TypeOK' /\ UNCHANGED <<setup, pc, via, local, plan, jobs>>
  /\ doc'.planner = WorkerBase(w).planner /\ doc'.plan = WorkerBase(w).plan
  /\ WorkerBase(w).findings \subseteq doc'.findings
  /\ worker[w] # Idle
  /\ WorkerIs(w, worker[w].job, "found", NoDocument) \/ WorkerIs(w, << >>, "idle", NoDocument)
  /\ record'.ran = record.ran

LEMMA AppendEffect ==
  ASSUME TypeOK, NEW w \in Workers, AppendFinding(w)
  PROVE  /\ WorkerWrites(w)
         /\ WorkerIs(w, worker[w].job, "found", NoDocument)
         /\ record'.found = record.found \cup {worker[w].job} /\ record'.ended = record.ended
         /\ record'.exposed = IF Overlapped(w) THEN record.exposed \cup {worker[w].job} ELSE record.exposed
         /\ ~setup.inProcess => worker[w].at = "append"
         /\ doc'.done = WorkerBase(w).done
         /\ doc'.findings = WorkerBase(w).findings \cup {worker[w].job}
<1>1. UNCHANGED <<setup, pc, via, local, plan, jobs>>
      /\ worker[w].at = IF setup.inProcess THEN "running" ELSE "append"
  BY DEF AppendFinding
<1>2. PICK own, base : own = worker[w] /\ base = WorkerBase(w)
  OBVIOUS
<1>3. own # Idle
  BY <1>1, <1>2 DEF Idle
<1>4. worker' = [worker EXCEPT ![w] = [job |-> own.job, at |-> "found", snap |-> NoDocument]]
  BY <1>2 DEF AppendFinding, TypeOK
<1>5. WorkerIs(w, own.job, "found", NoDocument)
  BY <1>4, WorkerMoves
<1>6. base \in Versions /\ IsDocument(base)
  BY <1>2, WorkerBaseIsVersion
<1>7. PICK f : f = base.findings \cup {own.job}
  OBVIOUS
<1>8. doc' = [base EXCEPT !.exists = TRUE, !.findings = f]
  BY <1>2, <1>6, <1>7 DEF AppendFinding, IsDocument
<1>9. /\ IsDocument(doc') /\ doc'.done = base.done /\ doc'.findings = f
      /\ doc'.planner = base.planner /\ doc'.plan = base.plan
  BY <1>6, <1>8 DEF IsDocument
<1>10. PICK x : x = IF Overlapped(w) THEN record.exposed \cup {own.job} ELSE record.exposed
  OBVIOUS
<1>11. record' = [ran |-> record.ran, ended |-> record.ended, found |-> record.found \cup {own.job}, exposed |-> x]
  BY <1>2, <1>10 DEF AppendFinding, TypeOK
<1>12. TypeOK'
  BY <1>1, <1>5, <1>9, <1>11, EmptyDocument, WorkerTyped
<1>13. QED
  BY <1>1, <1>2, <1>3, <1>5, <1>7, <1>9, <1>10, <1>11, <1>12 DEF WorkerWrites

LEMMA MarkEffect ==
  ASSUME TypeOK, NEW w \in Workers, MarkDone(w)
  PROVE  /\ WorkerWrites(w)
         /\ record'.ended = record.ended \cup {worker[w].job}
         /\ record'.found = record.found /\ record'.exposed = record.exposed
         /\ worker'[w] = Idle
         /\ ~setup.inProcess => worker[w].at = "mark"
         /\ doc'.done = WorkerBase(w).done \cup {jobs[worker[w].job[1]][worker[w].job[2]].persona}
         /\ doc'.findings = WorkerBase(w).findings
<1>1. UNCHANGED <<setup, pc, via, local, plan, jobs>>
      /\ worker[w].at = IF setup.inProcess THEN "found" ELSE "mark"
  BY DEF MarkDone
<1>2. PICK own, base : own = worker[w] /\ base = WorkerBase(w)
  OBVIOUS
<1>3. own # Idle
  BY <1>1, <1>2 DEF Idle
<1>4. worker' = [worker EXCEPT ![w] = [job |-> << >>, at |-> "idle", snap |-> NoDocument]]
  BY DEF MarkDone, Idle
<1>5. WorkerIs(w, << >>, "idle", NoDocument)
  BY <1>4, WorkerMoves
<1>6. base \in Versions /\ IsDocument(base)
  BY <1>2, WorkerBaseIsVersion
<1>7. PICK p : p = base.done \cup {jobs[own.job[1]][own.job[2]].persona}
  OBVIOUS
<1>8. doc' = [base EXCEPT !.exists = TRUE, !.done = p]
  BY <1>2, <1>6, <1>7 DEF MarkDone, IsDocument
<1>9. /\ IsDocument(doc') /\ doc'.done = p /\ doc'.findings = base.findings
      /\ doc'.planner = base.planner /\ doc'.plan = base.plan
  BY <1>6, <1>8 DEF IsDocument
<1>10. record' = [ran |-> record.ran, ended |-> record.ended \cup {own.job},
                  found |-> record.found, exposed |-> record.exposed]
  BY <1>2 DEF MarkDone, TypeOK
<1>11. TypeOK'
  BY <1>1, <1>5, <1>9, <1>10, EmptyDocument, WorkerTyped
<1>12. worker'[w] = Idle
  BY <1>5 DEF WorkerIs, Idle
<1>13. QED
  BY <1>1, <1>2, <1>3, <1>5, <1>7, <1>9, <1>10, <1>11, <1>12 DEF WorkerWrites

(* What may happen, with the effects above. *)
LEMMA Steps ==
  ASSUME TypeOK, [Next]_vars
  PROVE  \/ Advances
         \/ \E e \in Events : EnqueuePlan(e)
         \/ \E w \in Workers, e \in Events : \E k \in DOMAIN jobs[e] : RunJob(w, e, k)
         \/ \E w \in Workers : WorkerReads(w) \/ WorkerWrites(w)
  BY Kinds, ReadEffect, AppendEffect, MarkEffect

LEMMA NextTyped ==
  ASSUME TypeOK, [Next]_vars
  PROVE  TypeOK'
  BY Steps, EnqueueEffect, RunEffect DEF Advances, WorkerReads, WorkerWrites

LEMMA InitTyped == Init => TypeOK
<1> SUFFICES ASSUME Init PROVE TypeOK
  OBVIOUS
<1>1. /\ worker = [w \in Workers |-> [job |-> worker[w].job, at |-> worker[w].at, snap |-> worker[w].snap]]
      /\ \A w \in Workers : worker[w].snap = NoDocument
  BY DEF Init, Idle
<1>2. plan = [e \in Events |-> [personas |-> plan[e].personas, status |-> plan[e].status]]
  BY DEF Init, Unplanned
<1>3. record = [ran |-> record.ran, ended |-> record.ended, found |-> record.found, exposed |-> record.exposed]
  BY DEF Init, NoRecord
<1>4. QED
  BY <1>1, <1>2, <1>3, EmptyDocument DEF Init, TypeOK

-----------------------------------------------------------------------------
(* The versions after a step *)

(* A worker that moves keeps or drops its copy, or takes the document. *)
LEMMA SnapsAfter ==
  ASSUME NEW w \in Workers, NEW job, NEW at, NEW snap, WorkerIs(w, job, at, snap)
  PROVE  \A v \in Workers : worker'[v].snap = IF v = w THEN snap ELSE worker[v].snap
  BY DEF WorkerIs

LEMMA WorkerAfter ==
  ASSUME NEW w \in Workers, NEW job, NEW at, NEW snap, WorkerIs(w, job, at, snap)
  PROVE  /\ worker'[w].job = job /\ worker'[w].at = at /\ worker'[w].snap = snap
         /\ job = << >> /\ at = "idle" /\ snap = NoDocument => worker'[w] = Idle
         /\ \A v \in Workers \ {w} : worker'[v] = worker[v]
  BY DEF WorkerIs, Idle

LEMMA VersionsAfter ==
  ASSUME TypeOK, [Next]_vars
  PROVE  \A d \in Versions' :
           \/ d \in Versions \cup {NoDocument}
           \/ /\ d = doc'
              /\ \/ Advances /\ \E e \in Events : Updates(e, Base(e), d)
                 \/ \E w \in Workers : AppendFinding(w) \/ MarkDone(w)
<1>1. CASE Advances
  BY <1>1 DEF Advances, Writes, Versions
<1>2. ASSUME NEW e \in Events, EnqueuePlan(e) PROVE Versions' = Versions
  BY <1>2, EnqueueEffect DEF Versions
<1>3. ASSUME NEW w \in Workers, NEW e \in Events, NEW k \in DOMAIN jobs[e], RunJob(w, e, k)
      PROVE  Versions' \subseteq Versions \cup {NoDocument}
  <2>1. doc' = doc /\ local' = local /\ WorkerIs(w, <<e, k>>, "running", NoDocument)
    BY <1>3, RunEffect
  <2>2. \A v \in Workers : worker'[v].snap \in {worker[v].snap, NoDocument}
    BY <2>1, SnapsAfter
  <2>3. QED
    BY <2>1, <2>2 DEF Versions
<1>4. ASSUME NEW w \in Workers, WorkerReads(w) PROVE Versions' \subseteq Versions
  <2>1. PICK at, snap : /\ WorkerIs(w, worker[w].job, at, snap)
                        /\ snap = doc \/ snap = worker[w].snap
    BY <1>4 DEF WorkerReads
  <2>2. \A v \in Workers : worker'[v].snap \in {worker[v].snap, doc}
    BY <2>1, SnapsAfter
  <2>3. doc' = doc /\ local' = local
    BY <1>4 DEF WorkerReads
  <2>4. QED
    BY <2>2, <2>3 DEF Versions
<1>5. ASSUME NEW w \in Workers, AppendFinding(w) \/ MarkDone(w)
      PROVE  Versions' \subseteq Versions \cup {NoDocument, doc'}
  <2>0. WorkerWrites(w)
    BY <1>5, AppendEffect, MarkEffect
  <2>1. \A v \in Workers : worker'[v].snap \in {worker[v].snap, NoDocument}
    BY <2>0, SnapsAfter DEF WorkerWrites
  <2>2. local' = local
    BY <2>0 DEF WorkerWrites
  <2>3. QED
    BY <2>1, <2>2 DEF Versions
<1>6. QED
  BY <1>1, <1>2, <1>3, <1>4, <1>5, Kinds, ReadEffect

(* A plan once shown stays what it was. *)
LEMMA PlansStay ==
  ASSUME TypeOK, [Next]_vars, NEW e \in Events, pc[e] \in {"enqueue", "done", "dead"}
  PROVE  pc'[e] \in {"enqueue", "done", "dead"} /\ plan'[e] = plan[e]
<1>1. CASE Advances
  BY <1>1 DEF Advances, Moves
<1>2. ASSUME NEW f \in Events, EnqueuePlan(f) PROVE pc'[e] \in {"enqueue", "done", "dead"} /\ plan'[e] = plan[e]
  BY <1>2, EnqueueEffect
<1>3. ASSUME NEW w \in Workers, NEW f \in Events, NEW k \in DOMAIN jobs[f], RunJob(w, f, k)
      PROVE  pc'[e] = pc[e] /\ plan'[e] = plan[e]
  BY <1>3, RunEffect
<1>4. ASSUME NEW w \in Workers, WorkerReads(w) \/ WorkerWrites(w) PROVE pc'[e] = pc[e] /\ plan'[e] = plan[e]
  BY <1>4 DEF WorkerReads, WorkerWrites
<1>5. QED
  BY <1>1, <1>2, <1>3, <1>4, Steps

LEMMA PlansStep ==
  ASSUME TypeOK, PlansAreReal, [Next]_vars
  PROVE  PlansAreReal'
<1> SUFFICES ASSUME NEW d \in Versions' PROVE PlanIsReal(d)'
  BY DEF PlansAreReal
<1>1. CASE d \in Versions
  BY <1>1, PlansStay DEF PlansAreReal, PlanIsReal
<1>2. CASE d = NoDocument
  BY <1>2, EmptyDocument DEF PlanIsReal
<1>3. ASSUME Advances, NEW e \in Events, Updates(e, Base(e), d) PROVE PlanIsReal(d)'
  <2>1. CASE d = Base(e)
    BY <1>1, <2>1, BaseIsVersion
  <2>2. CASE d # Base(e)
    BY <1>3, <2>2 DEF Updates, PlanIsReal
  <2>3. QED
    BY <2>1, <2>2
<1>4. ASSUME NEW w \in Workers, AppendFinding(w) \/ MarkDone(w), d = doc' PROVE PlanIsReal(d)'
  <2>1. PlanIsReal(WorkerBase(w))
    BY WorkerBaseIsVersion DEF PlansAreReal
  <2>2. d.planner = WorkerBase(w).planner /\ d.plan = WorkerBase(w).plan
    BY <1>4, AppendEffect, MarkEffect DEF WorkerWrites
  <2>3. QED
    BY <2>1, <2>2, PlansStay DEF PlanIsReal
<1>5. QED
  BY <1>1, <1>2, <1>3, <1>4, VersionsAfter

(* A planner that is shown as finished shows a plan that was enqueued or   *)
(* was about to be: neither planners of other events nor workers that      *)
(* write an old copy back make it another.                                 *)
THEOREM ReadyPlansAreReal == Spec => []ReadyPlanIsReal
<1>1. Init => PlansAreReal
  BY EmptyDocument DEF Init, PlansAreReal, PlanIsReal, Versions, Idle
<1>2. TypeOK /\ PlansAreReal /\ [Next]_vars => TypeOK' /\ PlansAreReal'
  BY NextTyped, PlansStep
<1>3. PlansAreReal => ReadyPlanIsReal
  BY DEF PlansAreReal, ReadyPlanIsReal, Versions
<1>4. QED
  BY <1>1, <1>2, <1>3, InitTyped, PTL DEF Spec

-----------------------------------------------------------------------------
(* Jobs run in the order of the chain *)

JobsInv == JobsFollowPlan /\ RanIsEnqueued /\ WorkersHaveJobs /\ EndedHaveRun

(* The jobs that have run are those of events that are done. *)
LEMMA RanIsDone ==
  ASSUME JobsInv, NEW j \in record.ran
  PROVE  /\ j[1] \in Events /\ j[2] \in DOMAIN jobs[j[1]] /\ j = <<j[1], j[2]>> /\ j # << >>
         /\ pc[j[1]] = "done"
<1>1. PICK e \in Events : \E k \in DOMAIN jobs[e] : j = <<e, k>>
  BY DEF JobsInv, RanIsEnqueued
<1>2. PICK k \in DOMAIN jobs[e] : j = <<e, k>>
  BY <1>1
<1>3. pc[e] = "done"
  BY <1>2 DEF JobsInv, JobsFollowPlan
<1>4. QED
  BY <1>2, <1>3

(* An event that is done keeps its jobs. *)
LEMMA DoneStays ==
  ASSUME TypeOK, [Next]_vars, NEW e \in Events, pc[e] = "done"
  PROVE  /\ pc'[e] = "done" /\ jobs'[e] = jobs[e] /\ plan'[e] = plan[e]
         /\ via'[e] = via[e] /\ setup' = setup
<1>1. CASE Advances
  BY <1>1 DEF Advances, Moves
<1>2. ASSUME NEW f \in Events, EnqueuePlan(f)
      PROVE  /\ pc'[e] = "done" /\ jobs'[e] = jobs[e] /\ plan'[e] = plan[e]
             /\ via'[e] = via[e] /\ setup' = setup
  BY <1>2, EnqueueEffect
<1>3. ASSUME NEW w \in Workers, NEW f \in Events, NEW k \in DOMAIN jobs[f], RunJob(w, f, k)
      PROVE  UNCHANGED <<pc, jobs, plan, via, setup>>
  BY <1>3, RunEffect
<1>4. ASSUME NEW w \in Workers, WorkerReads(w) \/ WorkerWrites(w)
      PROVE  UNCHANGED <<pc, jobs, plan, via, setup>>
  BY <1>4 DEF WorkerReads, WorkerWrites
<1>5. QED
  BY <1>1, <1>2, <1>3, <1>4, Steps

(* More jobs are started, one at a time, and more are marked as done. *)
LEMMA RecordGrows ==
  ASSUME TypeOK, [Next]_vars
  PROVE  /\ record.ran \subseteq record'.ran /\ record.ended \subseteq record'.ended
         /\ \/ record'.ended = record.ended
            \/ \E w \in Workers : worker[w] # Idle /\ record'.ended = record.ended \cup {worker[w].job}
         /\ \/ record'.ran = record.ran
            \/ \E w \in Workers, e \in Events : \E k \in DOMAIN jobs[e] :
                  RunJob(w, e, k) /\ record'.ran = record.ran \cup {<<e, k>>}
<1>1. CASE Advances
  BY <1>1 DEF Advances
<1>2. ASSUME NEW f \in Events, EnqueuePlan(f) PROVE record' = record
  BY <1>2, EnqueueEffect
<1>3. ASSUME NEW w \in Workers, NEW f \in Events, NEW k \in DOMAIN jobs[f], RunJob(w, f, k)
      PROVE  record'.ran = record.ran \cup {<<f, k>>} /\ record'.ended = record.ended
  BY <1>3, RunEffect
<1>4. ASSUME NEW w \in Workers, ReadDocument(w) \/ JobFails(w) PROVE record' = record
  BY <1>4, ReadEffect DEF WorkerReads
<1>5. ASSUME NEW w \in Workers, AppendFinding(w) PROVE record'.ran = record.ran /\ record'.ended = record.ended
  BY <1>5, AppendEffect DEF WorkerWrites
<1>6. ASSUME NEW w \in Workers, MarkDone(w)
      PROVE  /\ record'.ran = record.ran /\ worker[w] # Idle
             /\ record'.ended = record.ended \cup {worker[w].job}
  BY <1>6, MarkEffect DEF WorkerWrites
<1>7. QED
  BY <1>1, <1>2, <1>3, <1>4, <1>5, <1>6, Kinds

LEMMA JobsStep ==
  ASSUME TypeOK, JobsInv, [Next]_vars
  PROVE  JobsInv'
<1>1. JobsFollowPlan'
  <2> SUFFICES ASSUME NEW e \in Events
               PROVE  IF pc'[e] = "done" THEN jobs'[e] = JobsFor(plan'[e].personas, ChainRequested(e)')
                                         ELSE jobs'[e] = << >>
    BY DEF JobsFollowPlan
  <2>1. CASE pc[e] = "done"
    BY <2>1, DoneStays DEF JobsInv, JobsFollowPlan, ChainRequested
  <2>2. CASE pc[e] # "done" /\ pc'[e] = "done"
    <3>1. PICK f \in Events : EnqueuePlan(f)
      BY <2>2, Steps, RunEffect DEF Advances, Moves, WorkerReads, WorkerWrites
    <3>2. QED
      BY <2>2, <3>1, EnqueueEffect DEF ChainRequested
  <2>3. CASE pc[e] # "done" /\ pc'[e] # "done"
    <3>1. jobs[e] = << >>
      BY <2>3 DEF JobsInv, JobsFollowPlan
    <3>2. jobs'[e] = jobs[e]
      BY <2>3, Steps, EnqueueEffect, RunEffect DEF Advances, WorkerReads, WorkerWrites
    <3>3. QED
      BY <2>3, <3>1, <3>2
  <2>4. QED
    BY <2>1, <2>2, <2>3
<1>2. RanIsEnqueued'
  <2> SUFFICES ASSUME NEW j \in record'.ran
               PROVE  \E e \in Events : \E k \in DOMAIN jobs'[e] : j = <<e, k>>
    BY DEF RanIsEnqueued
  <2>1. CASE j \in record.ran
    BY <2>1, RanIsDone, DoneStays
  <2>2. CASE j \notin record.ran
    BY <2>2, RecordGrows, RunEffect
  <2>3. QED
    BY <2>1, <2>2
<1>3. WorkersHaveJobs'
  <2>1. WorkersHaveJobs /\ record.ran \subseteq record'.ran
    BY RecordGrows DEF JobsInv
  <2>2. CASE Advances \/ \E e \in Events : EnqueuePlan(e)
    <3>1. worker' = worker
      BY <2>2, EnqueueEffect DEF Advances
    <3>2. QED
      BY <2>1, <3>1 DEF WorkersHaveJobs
  <2>3. ASSUME NEW w \in Workers, NEW e \in Events, NEW k \in DOMAIN jobs[e], RunJob(w, e, k)
        PROVE  WorkersHaveJobs'
    <3>0. WorkerIs(w, <<e, k>>, "running", NoDocument) /\ record'.ran = record.ran \cup {<<e, k>>}
      BY <2>3, RunEffect
    <3>1. worker'[w].job = <<e, k>> /\ <<e, k>> \in record'.ran
      BY <3>0, WorkerAfter
    <3>2. \A v \in Workers \ {w} : worker'[v] = worker[v]
      BY <3>0, WorkerAfter
    <3>3. QED
      BY <2>1, <3>1, <3>2 DEF WorkersHaveJobs
  <2>4. ASSUME NEW w \in Workers, WorkerReads(w) \/ WorkerWrites(w) PROVE WorkersHaveJobs'
    <3>1. worker'[w].job = worker[w].job \/ worker'[w] = Idle
      BY <2>4, WorkerAfter DEF WorkerReads, WorkerWrites
    <3>2. worker[w].job \in record'.ran
      BY <2>1, <2>4 DEF WorkersHaveJobs, WorkerReads, WorkerWrites
    <3>3. \A v \in Workers \ {w} : worker'[v] = worker[v]
      BY <2>4 DEF WorkerReads, WorkerWrites, WorkerIs
    <3>4. QED
      BY <2>1, <3>1, <3>2, <3>3 DEF WorkersHaveJobs
  <2>5. QED
    BY <2>2, <2>3, <2>4, Steps
<1>4. EndedHaveRun'
  BY RecordGrows DEF JobsInv, EndedHaveRun, WorkersHaveJobs
<1>5. QED
  BY <1>1, <1>2, <1>3, <1>4 DEF JobsInv

(* A job that supports what is recorded or ordered supports it for good. *)
LEMMA WitnessStays ==
  ASSUME TypeOK, JobsInv, [Next]_vars, NEW i \in record.ended
  PROVE  i \in record'.ended /\ jobs'[i[1]][i[2]] = jobs[i[1]][i[2]]
<1>1. i \in record.ran
  BY DEF JobsInv, EndedHaveRun
<1>2. QED
  BY <1>1, RecordGrows, RanIsDone, DoneStays

LEMMA DoneHasEndedStep ==
  ASSUME TypeOK, JobsInv, DoneHasEnded, [Next]_vars
  PROVE  DoneHasEnded'
<1> DEFINE Supported(p) == \E i \in record.ended : jobs[i[1]][i[2]].persona = p
<1> SUFFICES ASSUME NEW d \in Versions', NEW p \in d.done PROVE Supported(p)'
  BY DEF DoneHasEnded
<1>1. ASSUME NEW b \in Versions, p \in b.done PROVE Supported(p)'
  BY <1>1, WitnessStays DEF DoneHasEnded
<1>2. ASSUME NEW e \in Events, Updates(e, Base(e), d) PROVE Supported(p)'
  BY <1>1, <1>2, BaseIsVersion DEF Updates
<1>3. ASSUME NEW w \in Workers, AppendFinding(w), d = doc' PROVE Supported(p)'
  BY <1>1, <1>3, AppendEffect, WorkerBaseIsVersion
<1>4. ASSUME NEW w \in Workers, MarkDone(w), d = doc' PROVE Supported(p)'
  <2>1. CASE p \in WorkerBase(w).done
    BY <1>1, <2>1, WorkerBaseIsVersion
  <2>2. CASE p = jobs[worker[w].job[1]][worker[w].job[2]].persona
    BY <1>4, <2>2, MarkEffect DEF WorkerWrites
  <2>3. QED
    BY <1>4, <2>1, <2>2, MarkEffect
<1>5. QED
  BY <1>1, <1>2, <1>3, <1>4, VersionsAfter, EmptyDocument

LEMMA ChainStep ==
  ASSUME TypeOK, JobsInv, DoneHasEnded, RunsInChain, [Next]_vars
  PROVE  RunsInChain'
<1> SUFFICES ASSUME NEW j \in record'.ran, ChainRequested(j[1])', j[2] - 1 \in DOMAIN jobs'[j[1]]
             PROVE  \E i \in record'.ended : jobs'[i[1]][i[2]].persona = jobs'[j[1]][j[2] - 1].persona
  BY DEF RunsInChain
<1>1. CASE j \in record.ran
  <2>1. jobs'[j[1]] = jobs[j[1]] /\ ChainRequested(j[1])
    BY <1>1, RanIsDone, DoneStays DEF ChainRequested
  <2>2. PICK i \in record.ended : jobs[i[1]][i[2]].persona = jobs[j[1]][j[2] - 1].persona
    BY <1>1, <2>1 DEF RunsInChain
  <2>3. QED
    BY <2>1, <2>2, WitnessStays
<1>2. CASE j \notin record.ran
  <2>1. PICK w \in Workers, e \in Events : \E k \in DOMAIN jobs[e] :
          RunJob(w, e, k) /\ record'.ran = record.ran \cup {<<e, k>>}
    BY <1>2, RecordGrows
  <2>2. PICK k \in DOMAIN jobs[e] : RunJob(w, e, k) /\ record'.ran = record.ran \cup {<<e, k>>}
    BY <2>1
  <2>3. j[1] = e /\ j[2] = k
    BY <1>2, <2>2
  <2>4. /\ UNCHANGED <<jobs, setup, via>>
        /\ jobs[e][k].depends \subseteq doc.done
    BY <2>2, RunEffect
  <2>5. jobs[e] = JobsFor(plan[e].personas, ChainRequested(e)) /\ ChainRequested(e)
    BY <2>3, <2>4 DEF JobsInv, JobsFollowPlan, ChainRequested
  <2>6. DOMAIN jobs[e] = DOMAIN plan[e].personas
    BY <2>5 DEF JobsFor
  <2>7. jobs[e][k].depends = {jobs[e][k - 1].persona}
    BY <2>3, <2>4, <2>5, <2>6 DEF JobsFor
  <2>8. PICK i \in record.ended : jobs[i[1]][i[2]].persona = jobs[e][k - 1].persona
    BY <2>4, <2>7 DEF DoneHasEnded, Versions
  <2>9. QED
    BY <2>3, <2>4, <2>8, WitnessStays
<1>3. QED
  BY <1>1, <1>2

LEMMA JobsInit == Init => JobsInv
  BY DEF Init, JobsInv, JobsFollowPlan, RanIsEnqueued, WorkersHaveJobs, EndedHaveRun, NoRecord

(* In a chain no job runs before a job of the persona in front of it has   *)
(* ended and is marked as done: whatever planners and workers write back,  *)
(* no document names a persona as done that was not marked.                *)
THEOREM ChainsAreKept == Spec => []RunsInChain
<1>1. Init => JobsInv /\ DoneHasEnded /\ RunsInChain
  BY JobsInit, EmptyDocument DEF Init, DoneHasEnded, RunsInChain, Versions, Idle, NoRecord
<1>2. TypeOK /\ JobsInv /\ DoneHasEnded /\ RunsInChain /\ [Next]_vars
        => TypeOK' /\ JobsInv' /\ DoneHasEnded' /\ RunsInChain'
  BY NextTyped, JobsStep, DoneHasEndedStep, ChainStep
<1>3. QED
  BY <1>1, <1>2, InitTyped, PTL DEF Spec

-----------------------------------------------------------------------------
(* Findings stay in the document *)

(* Finding j is in document d and in every copy that is going to replace it. *)
IsEverywhere(j) ==
  /\ j \in doc.findings
  /\ ~setup.inProcess => /\ \A w \in Workers : WorkerHolds(w) => j \in worker[w].snap.findings
                         /\ \A e \in Events : PlannerHolds(e) => j \in local[e].findings

(* What somebody starts his update from has it as well. *)
LEMMA BasesHaveIt ==
  ASSUME NEW j, IsEverywhere(j)
  PROVE  /\ \A e \in Events : PlannerHolds(e) => j \in Base(e).findings
         /\ \A w \in Workers : setup.inProcess \/ WorkerHolds(w) => j \in WorkerBase(w).findings
  BY DEF IsEverywhere, Base, WorkerBase

(* The planners, the events and the queue leave it everywhere. *)
LEMMA PlannersKeepIt ==
  ASSUME TypeOK, NEW j, IsEverywhere(j), Advances \/ \E e \in Events : EnqueuePlan(e)
  PROVE  IsEverywhere(j)'
<1>1. CASE Advances
  <2>1. UNCHANGED <<setup, worker>> /\ \A f \in Events : Holds(f)
    BY <1>1 DEF Advances
  <2>2. j \in doc'.findings
    <3>1. ASSUME NEW e \in Events, Writes(e) PROVE j \in doc'.findings
      BY <3>1, BasesHaveIt DEF Writes, Updates
    <3>2. QED
      BY <1>1, <3>1 DEF Advances, IsEverywhere
  <2>3. \A w \in Workers : WorkerHolds(w)' = WorkerHolds(w)
    BY <2>1 DEF WorkerHolds
  <2>4. QED
    BY <2>1, <2>2, <2>3 DEF IsEverywhere, Holds
<1>2. ASSUME NEW e \in Events, EnqueuePlan(e) PROVE IsEverywhere(j)'
  <2>1. UNCHANGED <<setup, doc, local, worker>> /\ pc'[e] = "done"
        /\ \A f \in Events \ {e} : pc'[f] = pc[f]
    BY <1>2, EnqueueEffect
  <2>2. \A f \in Events : PlannerHolds(f)' => PlannerHolds(f)
    BY <2>1 DEF PlannerHolds
  <2>3. \A w \in Workers : WorkerHolds(w)' = WorkerHolds(w)
    BY <2>1 DEF WorkerHolds
  <2>4. QED
    BY <2>1, <2>2, <2>3 DEF IsEverywhere
<1>3. QED
  BY <1>1, <1>2

(* So does a worker that moves, if the document keeps it and the copy that *)
(* he takes has it.                                                        *)
LEMMA WorkersKeepIt ==
  ASSUME NEW j, IsEverywhere(j), j \in doc'.findings, UNCHANGED <<setup, pc, local>>,
         NEW w \in Workers, NEW job, NEW at, NEW snap, WorkerIs(w, job, at, snap),
         at \in {"append", "mark"} => j \in snap.findings
  PROVE  IsEverywhere(j)'
<1>1. \A e \in Events : PlannerHolds(e)' = PlannerHolds(e)
  BY DEF PlannerHolds
<1>2. WorkerHolds(w)' => j \in worker'[w].snap.findings
  BY WorkerAfter DEF WorkerHolds
<1>3. \A v \in Workers \ {w} : WorkerHolds(v)' = WorkerHolds(v) /\ worker'[v].snap = worker[v].snap
  BY WorkerAfter DEF WorkerHolds
<1>4. QED
  BY <1>1, <1>2, <1>3 DEF IsEverywhere

(* A finding that is appended while nobody else has a copy is everywhere. *)
LEMMA AppendedIsEverywhere ==
  ASSUME NEW w \in Workers, NEW j, j \in doc'.findings, ~Overlapped(w), UNCHANGED <<setup, pc, local>>,
         NEW job, WorkerIs(w, job, "found", NoDocument)
  PROVE  IsEverywhere(j)'
<1>1. \A e \in Events : PlannerHolds(e)' = PlannerHolds(e)
  BY DEF PlannerHolds
<1>2. ~WorkerHolds(w)'
  BY WorkerAfter DEF WorkerHolds
<1>3. \A v \in Workers \ {w} : WorkerHolds(v)' = WorkerHolds(v)
  BY WorkerAfter DEF WorkerHolds
<1>4. QED
  BY <1>1, <1>2, <1>3 DEF IsEverywhere, Overlapped

LEMMA FreshStep ==
  ASSUME TypeOK, CopiesAreFresh, [Next]_vars
  PROVE  CopiesAreFresh'
<1>1. \A j \in record.found \ record.exposed : IsEverywhere(j)
  BY DEF CopiesAreFresh, IsEverywhere
<1> SUFFICES ASSUME NEW j \in record'.found \ record'.exposed PROVE IsEverywhere(j)'
  BY DEF CopiesAreFresh, IsEverywhere
<1>2. CASE Advances \/ \E e \in Events : EnqueuePlan(e)
  <2>1. record' = record
    BY <1>2, EnqueueEffect DEF Advances
  <2>2. QED
    BY <1>1, <1>2, <2>1, PlannersKeepIt
<1>3. ASSUME NEW w \in Workers, NEW e \in Events, NEW k \in DOMAIN jobs[e], RunJob(w, e, k)
      PROVE  IsEverywhere(j)'
  <2>1. /\ UNCHANGED <<setup, doc, pc, local>> /\ WorkerIs(w, <<e, k>>, "running", NoDocument)
        /\ record'.found = record.found /\ record'.exposed = record.exposed
    BY <1>3, RunEffect
  <2>2. IsEverywhere(j) /\ j \in doc'.findings
    BY <1>1, <2>1 DEF IsEverywhere
  <2>3. QED
    BY <2>1, <2>2, WorkersKeepIt
<1>4. ASSUME NEW w \in Workers, ReadDocument(w) \/ JobFails(w) PROVE IsEverywhere(j)'
  <2>1. WorkerReads(w)
    BY <1>4, ReadEffect
  <2>2. UNCHANGED <<setup, doc, pc, local, record>>
    BY <2>1 DEF WorkerReads
  <2>3. PICK at, snap : /\ WorkerIs(w, worker[w].job, at, snap)
                        /\ snap = doc \/ at = "found"
    BY <2>1 DEF WorkerReads
  <2>4. IsEverywhere(j) /\ j \in doc'.findings /\ j \in doc.findings
    BY <1>1, <2>2 DEF IsEverywhere
  <2>5. QED
    BY <2>2, <2>3, <2>4, WorkersKeepIt
<1>5. ASSUME NEW w \in Workers, AppendFinding(w) PROVE IsEverywhere(j)'
  <2>1. /\ UNCHANGED <<setup, pc, local>> /\ WorkerIs(w, worker[w].job, "found", NoDocument)
        /\ record'.found = record.found \cup {worker[w].job}
        /\ record'.exposed = IF Overlapped(w) THEN record.exposed \cup {worker[w].job} ELSE record.exposed
        /\ doc'.findings = WorkerBase(w).findings \cup {worker[w].job}
    BY <1>5, AppendEffect DEF WorkerWrites
  <2>2. setup.inProcess \/ WorkerHolds(w)
    BY <1>5, AppendEffect DEF WorkerHolds
  <2>3. CASE j \in record.found \ record.exposed
    <3>1. IsEverywhere(j) /\ j \in doc'.findings
      BY <1>1, <2>1, <2>2, <2>3, BasesHaveIt
    <3>2. QED
      BY <2>1, <3>1, WorkersKeepIt
  <2>4. CASE j \notin record.found \ record.exposed
    <3>1. j = worker[w].job /\ ~Overlapped(w)
      BY <2>1, <2>4
    <3>2. QED
      BY <2>1, <3>1, AppendedIsEverywhere
  <2>5. QED
    BY <2>3, <2>4
<1>6. ASSUME NEW w \in Workers, MarkDone(w) PROVE IsEverywhere(j)'
  <2>1. /\ UNCHANGED <<setup, pc, local>>
        /\ record'.found = record.found /\ record'.exposed = record.exposed
        /\ doc'.findings = WorkerBase(w).findings
        /\ \E job, at : WorkerIs(w, job, at, NoDocument) /\ at \in {"found", "idle"}
    BY <1>6, MarkEffect DEF WorkerWrites
  <2>2. setup.inProcess \/ WorkerHolds(w)
    BY <1>6, MarkEffect DEF WorkerHolds
  <2>3. IsEverywhere(j) /\ j \in doc'.findings
    BY <1>1, <2>1, <2>2, BasesHaveIt
  <2>4. QED
    BY <2>1, <2>3, WorkersKeepIt
<1>7. QED
  BY <1>2, <1>3, <1>4, <1>5, <1>6, Kinds

(* Whatever planners and workers write back, a finding that was appended    *)
(* while nobody had another copy is never overwritten: no copy that lacks  *)
(* it is left to be written.  In memory that is every finding.             *)
THEOREM FindingsAreKept == Spec => []WorkKept
<1>1. Init => CopiesAreFresh
  BY DEF Init, CopiesAreFresh, NoRecord
<1>2. TypeOK /\ CopiesAreFresh /\ [Next]_vars => TypeOK' /\ CopiesAreFresh'
  BY NextTyped, FreshStep
<1>3. CopiesAreFresh => WorkKept
  BY DEF CopiesAreFresh, WorkKept
<1>4. QED
  BY <1>1, <1>2, <1>3, InitTyped, PTL DEF Spec
=============================================================================
