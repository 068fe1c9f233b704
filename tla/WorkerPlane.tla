----------------------------- MODULE WorkerPlane -----------------------------
(***************************************************************************)
(* The worker plane: one investigation's plan is persisted and enqueued    *)
(* by the dispatcher (interfaces/worker/orchestrator.py), worker daemons   *)
(* take its jobs from the shared queue (infrastructure/queue.py), run them *)
(* (use_cases/run_worker_job.py) and record what happened in the job store *)
(* and in the investigation document, while the API resumes the jobs that  *)
(* an agent paused for a human (use_cases/resume_hitl_job.py).             *)
(*                                                                         *)
(* Two deployments are modelled.  InProcess: one process, the in-memory    *)
(* queue and stores.  ~InProcess: worker processes that share a Redis      *)
(* stream and the Postgres stores, where a dequeue is an XREAD followed by *)
(* an XDEL and an update of the investigation is a SELECT of the whole     *)
(* document followed by an upsert of it.                                   *)
(***************************************************************************)
EXTENDS Naturals, Sequences, FiniteSets

CONSTANTS
  Plan,           \* the personas of the plan, in order: job j runs Plan[j]
  Sequential,     \* each job depends on the persona before it
  Workers,        \* concurrent WorkerOrchestrator loops
  Requests,       \* concurrent POST /jobs/{id}/resume requests
  Dangerous,      \* jobs whose agent calls a tool above the HITL threshold
  NumRecipients,  \* bus_recipients plus the critic
  InProcess,      \* in-memory deployment (see above)
  MaxPauses,      \* bound: approval ids created for one job
  MaxQueue,       \* bound: entries in the queue (racing XREADs multiply them)
  MaxCrashes      \* bound: crashes of worker and API processes

Jobs == DOMAIN Plan
Personas == {Plan[j] : j \in Jobs}
NoJob == 0

ASSUME PlanAssumption == Plan \in Seq(STRING) /\ Plan # << >>
ASSUME SwitchAssumption == Sequential \in BOOLEAN /\ InProcess \in BOOLEAN
ASSUME DangerousAssumption == Dangerous \subseteq Jobs
ASSUME BoundAssumption ==
  NumRecipients \in Nat \ {0}
  /\ MaxPauses \in Nat /\ MaxQueue \in Nat /\ MaxCrashes \in Nat

(* depends_on_persona of the jobs that _jobs_for_routing builds. *)
HasDependency(j) == Sequential /\ j > 1
DependsOn(j) == Plan[j - 1]

VARIABLES
  \* dispatcher
  persisted,   \* jobs of the plan written to the job store
  enqueued,    \* jobs of the plan handed to the queue
  \* shared state
  queue,       \* the job queue, oldest entry first
  status,      \* JobRecord.status
  pending,     \* approval_id of JobRecord.pending_hitl, 0 for None
  pauses,      \* approval ids created so far
  thread,      \* the LangGraph checkpoint of the job's session
  inv,         \* InvestigationState: completed_personas and findings_summary
  delivered,   \* recipients that a finding of the job was published to
  granted,     \* approvals recorded as approved or edited
  executed,    \* approvals under which a dangerous tool was executed
  \* workers
  pc, cur, fresh, sent, outcome, snap, sandbox,
  \* resume requests
  rpc, rjob, rseen,
  \* auxiliary
  ended,       \* history: jobs that _mark_persona_terminal was run for
  crashes

dispatchVars == <<persisted, enqueued>>
jobVars == <<status, pending, pauses, thread>>
invVars == <<inv, ended>>
approvalVars == <<granted, executed>>
workerVars == <<pc, cur, fresh, sent, outcome, snap, sandbox>>
requestVars == <<rpc, rjob, rseen>>
vars == <<dispatchVars, queue, jobVars, invVars, delivered, approvalVars,
          workerVars, requestVars, crashes>>

Statuses == {"none", "pending", "running", "awaiting_approval",
             "completed", "failed"}
Terminal == {"completed", "failed"}
Document == [done : SUBSET Personas, findings : SUBSET Jobs]
EmptyDocument == [done |-> {}, findings |-> {}]

(* Worker program counters.  A worker holds a sandbox from "created" on.   *)
Executing == {"agent", "validate", "publish", "memory", "append", "upsertFinding",
              "persona", "upsertPersona", "complete", "failing"}
WorkerPc == {"idle", "reading", "taken", "ready", "created", "destroy"}
            \cup Executing
RequestPc == {"idle", "deciding", "resuming", "tool", "loop", "finish"}

DispatchType == persisted \in 0..Len(Plan) /\ enqueued \in 0..persisted
QueueType == queue \in Seq(Jobs)
StoreType ==
  /\ status \in [Jobs -> Statuses]
  /\ pending \in [Jobs -> Nat] /\ pauses \in [Jobs -> Nat]
  /\ thread \in [Jobs -> {"none", "interrupted", "ended"}]
ApprovalType == granted \subseteq Jobs \X Nat /\ executed \subseteq Jobs \X Nat
DocumentType ==
  /\ inv \in Document /\ ended \subseteq Jobs
DeliveryType == delivered \in [Jobs -> SUBSET (1..NumRecipients)]
WorkerType ==
  /\ pc \in [Workers -> WorkerPc]
  /\ cur \in [Workers -> Jobs \cup {NoJob}]
  /\ fresh \in [Workers -> BOOLEAN]
  /\ sent \in [Workers -> 0..NumRecipients]
  /\ outcome \in [Workers -> {"ok", "error", "failed"}]
  /\ snap \in [Workers -> Document]
  /\ sandbox \in [Workers -> SUBSET Jobs]
RequestType ==
  /\ rpc \in [Requests -> RequestPc]
  /\ rjob \in [Requests -> Jobs \cup {NoJob}]
  /\ rseen \in [Requests -> Nat]

TypeOK ==
  /\ DispatchType /\ QueueType /\ StoreType /\ ApprovalType /\ DocumentType
  /\ DeliveryType /\ WorkerType /\ RequestType
  /\ crashes \in Nat

Init ==
  /\ persisted = 0 /\ enqueued = 0
  /\ queue = << >>
  /\ status = [j \in Jobs |-> "none"]
  /\ pending = [j \in Jobs |-> 0] /\ pauses = [j \in Jobs |-> 0]
  /\ thread = [j \in Jobs |-> "none"]
  /\ inv = EmptyDocument /\ ended = {}
  /\ delivered = [j \in Jobs |-> {}]
  /\ granted = {} /\ executed = {}
  /\ pc = [w \in Workers |-> "idle"]
  /\ cur = [w \in Workers |-> NoJob]
  /\ fresh = [w \in Workers |-> FALSE]
  /\ sent = [w \in Workers |-> 0]
  /\ outcome = [w \in Workers |-> "ok"]
  /\ snap = [w \in Workers |-> EmptyDocument]
  /\ sandbox = [w \in Workers |-> {}]
  /\ rpc = [r \in Requests |-> "idle"]
  /\ rjob = [r \in Requests |-> NoJob]
  /\ rseen = [r \in Requests |-> 0]
  /\ crashes = 0

-----------------------------------------------------------------------------
(* The job store: no operation looks at the status it replaces.            *)

SetStatus(j, s) == status' = [status EXCEPT ![j] = s]

(* mark_completed and mark_failed: PostgresJobStore upserts the row with   *)
(* pending_hitl = None, InMemoryJobStore leaves the field alone.           *)
MarkTerminal(j, s) ==
  /\ SetStatus(j, s)
  /\ pending' = IF InProcess THEN pending ELSE [pending EXCEPT ![j] = 0]
  /\ UNCHANGED <<pauses, thread>>

(* upsert_pending, upsert_running and mark_running drop the pending action. *)
MarkActive(j, s) ==
  /\ SetStatus(j, s)
  /\ pending' = [pending EXCEPT ![j] = 0]
  /\ UNCHANGED <<pauses, thread>>

(* Mutant: a second pause of the job keeps the first approval id. *)
RegisterPause_SameId(j) ==
  /\ pauses[j] < MaxPauses
  /\ pauses' = [pauses EXCEPT ![j] = @ + 1]
  /\ pending' = [pending EXCEPT ![j] = 1]
  /\ SetStatus(j, "awaiting_approval")

(* register_hitl_pause: a new approval id and pause_for_hitl. *)
RegisterPause(j) ==
  /\ pauses[j] < MaxPauses
  /\ pauses' = [pauses EXCEPT ![j] = @ + 1]
  /\ pending' = [pending EXCEPT ![j] = pauses[j] + 1]
  /\ SetStatus(j, "awaiting_approval")

-----------------------------------------------------------------------------
(* Dispatcher: _persist_and_enqueue_jobs writes each job to the store and  *)
(* then to the queue, in plan order.                                       *)

PersistJob ==
  /\ persisted = enqueued /\ persisted < Len(Plan)
  /\ persisted' = persisted + 1
  /\ MarkActive(persisted + 1, "pending")
  /\ UNCHANGED <<enqueued, queue, invVars, delivered, approvalVars, workerVars,
                 requestVars, crashes>>

(* InMemoryJobQueue.enqueue and RedisJobQueue.enqueue (XADD). *)
Enqueue(j) == queue' = Append(queue, j)

EnqueueJob ==
  /\ enqueued < persisted
  /\ enqueued' = enqueued + 1
  /\ Enqueue(persisted)
  /\ UNCHANGED <<persisted, jobVars, invVars, delivered, approvalVars, workerVars,
                 requestVars, crashes>>

-----------------------------------------------------------------------------
(* Workers.                                                                *)

GoTo(w, from, to) == pc[w] = from /\ pc' = [pc EXCEPT ![w] = to]

(* run_job returns, or its process dies: its locals are gone. *)
DropLocals(w) ==
  /\ pc' = [pc EXCEPT ![w] = "idle"]
  /\ cur' = [cur EXCEPT ![w] = NoJob]
  /\ fresh' = [fresh EXCEPT ![w] = FALSE]
  /\ sent' = [sent EXCEPT ![w] = 0]
  /\ outcome' = [outcome EXCEPT ![w] = "ok"]
  /\ snap' = [snap EXCEPT ![w] = EmptyDocument]

(* InMemoryJobQueue.dequeue *)
PopLeft(w) ==
  /\ InProcess /\ queue # << >>
  /\ GoTo(w, "idle", "taken")
  /\ cur' = [cur EXCEPT ![w] = Head(queue)]
  /\ queue' = Tail(queue)
  /\ UNCHANGED <<dispatchVars, jobVars, invVars, delivered, approvalVars,
                 fresh, sent, outcome, snap, sandbox, requestVars, crashes>>

(* RedisJobQueue.dequeue reads the first entry of the stream ... *)
XRead(w) ==
  /\ ~InProcess /\ queue # << >>
  /\ GoTo(w, "idle", "reading")
  /\ cur' = [cur EXCEPT ![w] = Head(queue)]
  /\ fresh' = [fresh EXCEPT ![w] = TRUE]
  /\ UNCHANGED <<dispatchVars, queue, jobVars, invVars, delivered, approvalVars,
                 sent, outcome, snap, sandbox, requestVars, crashes>>

(* Mutant: trims the first entry of the stream, whichever it is by now. *)
XDel_TrimsHead(w) ==
  /\ GoTo(w, "reading", "taken")
  /\ queue' = IF queue = << >> THEN queue ELSE Tail(queue)
  /\ fresh' = [v \in Workers |-> FALSE]
  /\ UNCHANGED <<dispatchVars, jobVars, invVars, delivered, approvalVars,
                 cur, sent, outcome, snap, sandbox, requestVars, crashes>>

(* ... deletes it by its id and returns it whether or not the XDEL found   *)
(* it.  fresh[w] says that the entry w read is still the first one.        *)
XDel(w) ==
  /\ GoTo(w, "reading", "taken")
  /\ queue' = IF fresh[w] THEN Tail(queue) ELSE queue
  /\ fresh' = IF fresh[w] THEN [v \in Workers |-> FALSE] ELSE fresh
  /\ UNCHANGED <<dispatchVars, jobVars, invVars, delivered, approvalVars,
                 cur, sent, outcome, snap, sandbox, requestVars, crashes>>

(* Mutant: only a missing investigation document holds the job back. *)
DependencyReady_AnyDocument(w) ==
  /\ HasDependency(cur[w]) => (DependsOn(cur[w]) \in inv.done \/ inv # EmptyDocument)
  /\ GoTo(w, "taken", "ready")
  /\ UNCHANGED <<dispatchVars, queue, jobVars, invVars, delivered, approvalVars,
                 cur, fresh, sent, outcome, snap, sandbox, requestVars, crashes>>

(* run_job puts a job back at the end of the queue while the persona it    *)
(* depends on is not in completed_personas.                                *)
DependencyReady(w) ==
  /\ HasDependency(cur[w]) => DependsOn(cur[w]) \in inv.done
  /\ GoTo(w, "taken", "ready")
  /\ UNCHANGED <<dispatchVars, queue, jobVars, invVars, delivered, approvalVars,
                 cur, fresh, sent, outcome, snap, sandbox, requestVars, crashes>>

DependencyNotReady(w) ==
  /\ HasDependency(cur[w]) /\ DependsOn(cur[w]) \notin inv.done
  /\ Len(queue) < MaxQueue
  /\ pc[w] = "taken" /\ DropLocals(w)
  /\ Enqueue(cur[w])
  /\ UNCHANGED <<dispatchVars, jobVars, invVars, delivered, approvalVars,
                 sandbox, requestVars, crashes>>

CreateSandbox(w) ==
  /\ GoTo(w, "ready", "created")
  /\ sandbox' = [sandbox EXCEPT ![w] = @ \cup {cur[w]}]
  /\ UNCHANGED <<dispatchVars, queue, jobVars, invVars, delivered, approvalVars,
                 cur, fresh, sent, outcome, snap, requestVars, crashes>>

UpsertRunning(w) ==
  /\ GoTo(w, "created", "agent")
  /\ MarkActive(cur[w], "running")
  /\ UNCHANGED <<dispatchVars, queue, invVars, delivered, approvalVars,
                 cur, fresh, sent, outcome, snap, sandbox, requestVars, crashes>>

(* runtime.arun returns a finding, or a dict with an "error" in it (a      *)
(* refusal or an exhausted budget), which execute treats as a result.      *)
AgentReturns(w, o) ==
  /\ GoTo(w, "agent", "validate")
  /\ outcome' = [outcome EXCEPT ![w] = o]
  /\ thread' = [thread EXCEPT ![cur[w]] = "ended"]
  /\ UNCHANGED <<dispatchVars, queue, status, pending, pauses, invVars, delivered,
                 approvalVars, cur, fresh, sent, snap, sandbox, requestVars, crashes>>

(* SecurityMiddleware registers the pause and interrupts the graph;        *)
(* ainvoke returns the interrupted state and arun a raw_response.          *)
AgentPauses(w) ==
  /\ cur[w] \in Dangerous
  /\ GoTo(w, "agent", "validate")
  /\ RegisterPause(cur[w])
  /\ thread' = [thread EXCEPT ![cur[w]] = "interrupted"]
  /\ UNCHANGED <<dispatchVars, queue, invVars, delivered, approvalVars,
                 cur, fresh, sent, outcome, snap, sandbox, requestVars, crashes>>

(* Mutant: the handler forgets to set the FAILED outcome. *)
Raises_KeepsOutcome(w) ==
  /\ pc[w] \in {"ready", "created", "agent", "validate", "publish"}
  /\ pc' = [pc EXCEPT ![w] = "failing"]
  /\ UNCHANGED <<dispatchVars, queue, jobVars, invVars, delivered, approvalVars,
                 cur, fresh, sent, outcome, snap, sandbox, requestVars, crashes>>

(* Mutant: the handler also gets what is raised once the dependents are      *)
(* released.                                                                *)
Raises_Late(w) ==
  /\ pc[w] \in {"ready", "created", "agent", "validate", "publish", "complete"}
  /\ pc' = [pc EXCEPT ![w] = "failing"]
  /\ outcome' = [outcome EXCEPT ![w] = "failed"]
  /\ UNCHANGED <<dispatchVars, queue, jobVars, invVars, delivered, approvalVars,
                 cur, fresh, sent, snap, sandbox, requestVars, crashes>>

(* An exception in execute: from acreate, arun, the schema validation, the *)
(* bus guards or the transport.                                            *)
Raises(w) ==
  /\ pc[w] \in {"ready", "created", "agent", "validate", "publish"}
  /\ pc' = [pc EXCEPT ![w] = "failing"]
  /\ outcome' = [outcome EXCEPT ![w] = "failed"]
  /\ UNCHANGED <<dispatchVars, queue, jobVars, invVars, delivered, approvalVars,
                 cur, fresh, sent, snap, sandbox, requestVars, crashes>>

ValidateOk(w) ==
  /\ GoTo(w, "validate", "publish")
  /\ UNCHANGED <<dispatchVars, queue, jobVars, invVars, delivered, approvalVars,
                 cur, fresh, sent, outcome, snap, sandbox, requestVars, crashes>>

(* One iteration of the loop over the recipients. *)
Publish(w) ==
  /\ pc[w] = "publish"
  /\ sent' = [sent EXCEPT ![w] = @ + 1]
  /\ delivered' = [delivered EXCEPT ![cur[w]] = @ \cup {sent[w] + 1}]
  /\ pc' = [pc EXCEPT ![w] = IF sent[w] + 1 = NumRecipients THEN "memory"
                                                            ELSE "publish"]
  /\ UNCHANGED <<dispatchVars, queue, jobVars, invVars, approvalVars,
                 cur, fresh, outcome, snap, sandbox, requestVars, crashes>>

(* append_pending_finding inserts into episodic memory, which nothing here  *)
(* reads.  An error result skips append_finding.                           *)
AppendMemory(w) ==
  /\ GoTo(w, "memory", IF outcome[w] = "error" THEN "persona" ELSE "append")
  /\ UNCHANGED <<dispatchVars, queue, jobVars, invVars, delivered, approvalVars,
                 cur, fresh, sent, outcome, snap, sandbox, requestVars, crashes>>

(* The store's get, in append_finding and in mark_persona_done. *)
ReadDocument(w) ==
  /\ ~InProcess
  /\ \/ GoTo(w, "append", "upsertFinding")
     \/ GoTo(w, "persona", "upsertPersona")
  /\ snap' = [snap EXCEPT ![w] = inv]
  /\ UNCHANGED <<dispatchVars, queue, jobVars, invVars, delivered, approvalVars,
                 cur, fresh, sent, outcome, sandbox, requestVars, crashes>>

(* The document an update starts from: the stored one under the in-memory  *)
(* store's lock, what get returned before with Postgres.                   *)
Base(w) == IF InProcess THEN inv ELSE snap[w]

UpsertFinding(w) ==
  /\ GoTo(w, IF InProcess THEN "append" ELSE "upsertFinding", "persona")
  /\ inv' = [Base(w) EXCEPT !.findings = @ \cup {cur[w]}]
  /\ UNCHANGED <<dispatchVars, queue, jobVars, ended, delivered, approvalVars,
                 cur, fresh, sent, outcome, snap, sandbox, requestVars, crashes>>

UpsertPersona(w) ==
  /\ GoTo(w, IF InProcess THEN "persona" ELSE "upsertPersona",
             IF outcome[w] = "failed" THEN "destroy" ELSE "complete")
  /\ inv' = [Base(w) EXCEPT !.done = @ \cup {Plan[cur[w]]}]
  /\ ended' = ended \cup {cur[w]}
  /\ UNCHANGED <<dispatchVars, queue, jobVars, delivered, approvalVars,
                 cur, fresh, sent, outcome, snap, sandbox, requestVars, crashes>>

MarkCompleted(w) ==
  /\ GoTo(w, "complete", "destroy")
  /\ MarkTerminal(cur[w], "completed")
  /\ UNCHANGED <<dispatchVars, queue, invVars, delivered, approvalVars,
                 cur, fresh, sent, outcome, snap, sandbox, requestVars, crashes>>

(* Mutant: a failed job does not unblock the jobs that depend on it. *)
MarkFailed_KeepsBlocked(w) ==
  /\ GoTo(w, "failing", "destroy")
  /\ MarkTerminal(cur[w], "failed")
  /\ UNCHANGED <<dispatchVars, queue, invVars, delivered, approvalVars,
                 cur, fresh, sent, outcome, snap, sandbox, requestVars, crashes>>

(* The except clauses of execute: mark_failed, then the persona.  (The       *)
(* last one ends with send_to_dlq, which neither queue of this module has.)  *)
MarkFailed(w) ==
  /\ GoTo(w, "failing", "persona")
  /\ MarkTerminal(cur[w], "failed")
  /\ UNCHANGED <<dispatchVars, queue, invVars, delivered, approvalVars,
                 cur, fresh, sent, outcome, snap, sandbox, requestVars, crashes>>

(* Mutant: the sandbox is destroyed on success only, not in a finally. *)
DestroySandbox_OnSuccess(w) ==
  /\ pc[w] = "destroy" /\ DropLocals(w)
  /\ sandbox' = [sandbox EXCEPT ![w] = IF outcome[w] = "failed" THEN @ ELSE @ \ {cur[w]}]
  /\ UNCHANGED <<dispatchVars, queue, jobVars, invVars, delivered, approvalVars,
                 requestVars, crashes>>

(* The finally clause. *)
DestroySandbox(w) ==
  /\ pc[w] = "destroy" /\ DropLocals(w)
  /\ sandbox' = [sandbox EXCEPT ![w] = @ \ {cur[w]}]
  /\ UNCHANGED <<dispatchVars, queue, jobVars, invVars, delivered, approvalVars,
                 requestVars, crashes>>

(* A worker process dies: the job it held is in no queue any more and its  *)
(* sandbox is left behind.                                                 *)
WorkerCrash(w) ==
  /\ ~InProcess /\ crashes < MaxCrashes /\ pc[w] # "idle"
  /\ crashes' = crashes + 1
  /\ DropLocals(w)
  /\ UNCHANGED <<dispatchVars, queue, jobVars, invVars, delivered, approvalVars,
                 sandbox, requestVars>>

WorkerStep(w) ==
  \/ PopLeft(w) \/ XRead(w) \/ XDel(w)
  \/ DependencyReady(w) \/ DependencyNotReady(w)
  \/ CreateSandbox(w) \/ UpsertRunning(w)
  \/ \E o \in {"ok", "error"} : AgentReturns(w, o)
  \/ AgentPauses(w) \/ Raises(w) \/ ValidateOk(w) \/ Publish(w)
  \/ AppendMemory(w) \/ ReadDocument(w) \/ UpsertFinding(w) \/ UpsertPersona(w)
  \/ MarkCompleted(w) \/ MarkFailed(w) \/ DestroySandbox(w)

-----------------------------------------------------------------------------
(* ResumeHitlJob.execute.  Requests run on the API's event loop, which the *)
(* code holds from the store's get to the decision: at most one request is *)
(* "deciding".  Worker processes write to the store in between.            *)

RGoTo(r, from, to) == rpc[r] = from /\ rpc' = [rpc EXCEPT ![r] = to]

REnd(r) ==
  /\ rpc' = [rpc EXCEPT ![r] = "idle"]
  /\ rjob' = [rjob EXCEPT ![r] = NoJob]
  /\ rseen' = [rseen EXCEPT ![r] = 0]

(* The checks on the record, with the approval_id a of the request (0 when *)
(* it gives none).  A request that fails them changes nothing.             *)
ResumeGet(r, j, a) ==
  /\ \A q \in Requests : rpc[q] # "deciding"
  /\ status[j] = "awaiting_approval" /\ pending[j] # 0
  /\ a \in {0, pending[j]}
  /\ RGoTo(r, "idle", "deciding")
  /\ rjob' = [rjob EXCEPT ![r] = j]
  /\ rseen' = [rseen EXCEPT ![r] = pending[j]]
  /\ UNCHANGED <<dispatchVars, queue, jobVars, invVars, delivered, approvalVars,
                 workerVars, crashes>>

ResumeReject(r) ==
  /\ rpc[r] = "deciding" /\ REnd(r)
  /\ MarkTerminal(rjob[r], "failed")
  /\ UNCHANGED <<dispatchVars, queue, invVars, delivered, approvalVars,
                 workerVars, crashes>>

(* "approve" (the arguments' hash is that of the same pause, so it         *)
(* matches) and "edit": record_hitl_approval, then mark_running.           *)
ResumeApprove(r) ==
  /\ RGoTo(r, "deciding", "resuming")
  /\ granted' = granted \cup {<<rjob[r], rseen[r]>>}
  /\ MarkActive(rjob[r], "running")
  /\ UNCHANGED <<dispatchVars, queue, invVars, delivered, executed,
                 workerVars, rjob, rseen, crashes>>

(* aresume replays the interrupted node from its start: the middleware     *)
(* registers a second pause, and only then interrupt() returns.            *)
ReplayPause(r) ==
  /\ RGoTo(r, "resuming", "tool")
  /\ thread[rjob[r]] = "interrupted"
  /\ RegisterPause(rjob[r])
  /\ UNCHANGED <<thread, dispatchVars, queue, invVars, delivered, approvalVars,
                 workerVars, rjob, rseen, crashes>>

(* Nothing is interrupted in the checkpoint: the graph has nothing to do.  *)
ReplayNothing(r) ==
  /\ RGoTo(r, "resuming", "finish")
  /\ thread[rjob[r]] # "interrupted"
  /\ UNCHANGED <<dispatchVars, queue, jobVars, invVars, delivered, approvalVars,
                 workerVars, rjob, rseen, crashes>>

ExecuteTool(r) ==
  /\ RGoTo(r, "tool", "loop")
  /\ executed' = executed \cup {<<rjob[r], rseen[r]>>}
  /\ UNCHANGED <<dispatchVars, queue, jobVars, invVars, delivered, granted,
                 workerVars, rjob, rseen, crashes>>

(* The agent loop goes on to its end, to another dangerous tool ...        *)
ResumedEnds(r) ==
  /\ RGoTo(r, "loop", "finish")
  /\ thread' = [thread EXCEPT ![rjob[r]] = "ended"]
  /\ UNCHANGED <<dispatchVars, queue, status, pending, pauses, invVars, delivered,
                 approvalVars, workerVars, rjob, rseen, crashes>>

ResumedPauses(r) ==
  /\ RGoTo(r, "loop", "finish")
  /\ RegisterPause(rjob[r])
  /\ thread' = [thread EXCEPT ![rjob[r]] = "interrupted"]
  /\ UNCHANGED <<dispatchVars, queue, invVars, delivered, approvalVars,
                 workerVars, rjob, rseen, crashes>>

(* ... or aresume raises, or the API process dies: nothing is written.     *)
ResumeRaises(r) ==
  /\ rpc[r] \in {"resuming", "tool", "loop"} /\ REnd(r)
  /\ UNCHANGED <<dispatchVars, queue, jobVars, invVars, delivered, approvalVars,
                 workerVars, crashes>>

ResumeCompleted(r) ==
  /\ rpc[r] = "finish" /\ REnd(r)
  /\ MarkTerminal(rjob[r], "completed")
  /\ UNCHANGED <<dispatchVars, queue, invVars, delivered, approvalVars,
                 workerVars, crashes>>

ApiCrash ==
  /\ ~InProcess /\ crashes < MaxCrashes
  /\ \E r \in Requests : rpc[r] # "idle"
  /\ crashes' = crashes + 1
  /\ rpc' = [r \in Requests |-> "idle"]
  /\ rjob' = [r \in Requests |-> NoJob]
  /\ rseen' = [r \in Requests |-> 0]
  /\ UNCHANGED <<dispatchVars, queue, jobVars, invVars, delivered, approvalVars,
                 workerVars>>

ResumeStep(r) ==
  \/ \E j \in Jobs : \E a \in 0..pauses[j] : ResumeGet(r, j, a)
  \/ ResumeReject(r) \/ ResumeApprove(r)
  \/ ReplayPause(r) \/ ReplayNothing(r) \/ ExecuteTool(r)
  \/ ResumedEnds(r) \/ ResumedPauses(r) \/ ResumeRaises(r) \/ ResumeCompleted(r)

-----------------------------------------------------------------------------
(* In one process a request that is deciding holds the event loop. *)
LoopFree == InProcess => \A r \in Requests : rpc[r] # "deciding"

Next ==
  \/ PersistJob \/ EnqueueJob
  \/ \E w \in Workers : LoopFree /\ (WorkerStep(w) \/ WorkerCrash(w))
  \/ \E r \in Requests : ResumeStep(r)
  \/ ApiCrash

Spec == Init /\ [][Next]_vars

(* A dispatch runs to its end, and worker daemons keep polling.  In one      *)
(* process the queue is drained by POST /workers/process-one alone: nobody   *)
(* has to send it.  Humans and crashes owe nothing.  A request that has read *)
(* the record goes on.                                                       *)
Fairness ==
  /\ WF_vars(PersistJob \/ EnqueueJob)
  /\ \A w \in Workers : WF_vars(~InProcess /\ WorkerStep(w))
  /\ \A r \in Requests : WF_vars(ResumeReject(r) \/ ResumeApprove(r))

FairSpec == Spec /\ Fairness

-----------------------------------------------------------------------------
(* The parts of the inductive invariant behind the safety properties.      *)

BeforePublish == {"idle", "reading", "taken", "ready", "created", "agent", "validate"}
AfterPublish == {"memory", "append", "upsertFinding", "complete"}
Persona == {"persona", "upsertPersona"}
Resumed == {"resuming", "tool", "loop", "finish"}

(* Whoever is not idle has a job, and the locals of execute are what its   *)
(* program counter says.                                                   *)
WorkerShape ==
  \A w \in Workers :
    /\ pc[w] = "idle" <=> cur[w] = NoJob
    /\ pc[w] \in BeforePublish => sent[w] = 0
    /\ pc[w] = "publish" => sent[w] < NumRecipients
    /\ pc[w] \in BeforePublish \cup AfterPublish \cup {"publish"} => outcome[w] # "failed"
    /\ pc[w] = "failing" => outcome[w] = "failed"

RequestShape ==
  /\ \A r \in Requests : rpc[r] = "idle" <=> rjob[r] = NoJob
  /\ \A r, q \in Requests : rpc[r] = "deciding" /\ rpc[q] = "deciding" => r = q

(* The entry a worker read last is still the first one of the stream.      *)
ReadersShape ==
  \A w \in Workers :
    fresh[w] => /\ ~InProcess /\ pc[w] = "reading"
                /\ queue # << >> /\ cur[w] = Head(queue)

(* What the publication loop of a worker has delivered so far. *)
PublishProgress ==
  \A w \in Workers :
    /\ pc[w] = "publish" => 1..sent[w] \subseteq delivered[cur[w]]
    /\ (pc[w] \in AfterPublish \cup Persona /\ outcome[w] # "failed")
         => delivered[cur[w]] = 1..NumRecipients

(* Who resumes was granted the approval it saw; approval ids are handed    *)
(* out in increasing order.                                                *)
ApprovalOrder ==
  /\ \A r \in Requests : rpc[r] \in Resumed => <<rjob[r], rseen[r]>> \in granted
  /\ \A j \in Jobs : pending[j] <= pauses[j]
  /\ \A g \in granted : g[2] <= pauses[g[1]]
  /\ \A r \in Requests :
       rpc[r] = "deciding" => /\ rseen[r] <= pauses[rjob[r]]
                              /\ <<rjob[r], rseen[r]>> \notin granted

(* No copy of the document, stored or read, lists a persona as done before *)
(* a job of that persona has ended.                                        *)
DoneOnlyIfEnded ==
  \A p \in Personas :
    (p \in inv.done \/ \E w \in Workers : p \in snap[w].done)
      => \E i \in ended : Plan[i] = p

(* Until a process dies, a worker has at most the sandbox of the job it is *)
(* running, and none before it creates one.                                *)
SandboxHeld ==
  crashes = 0 =>
    \A w \in Workers :
      /\ sandbox[w] \subseteq {cur[w]}
      /\ pc[w] \in {"idle", "reading", "taken", "ready"} => sandbox[w] = {}

(* What workers and queue hold was enqueued, and a worker that has         *)
(* recorded a status of its job has taken it out of PENDING for good.      *)
WorkIsStarted ==
  /\ persisted <= enqueued + 1
  /\ \A k \in DOMAIN queue : queue[k] <= enqueued
  /\ \A w \in Workers :
       /\ cur[w] <= enqueued
       /\ pc[w] \in (Executing \ {"failing"}) \cup {"destroy"}
            => status[cur[w]] # "pending"

(* In one process and without dangerous tools, every job of the plan is in *)
(* one place: not yet persisted, persisted, in the queue or with a worker  *)
(* (whose program counter tells its status), or finished.                  *)
QueueOnce ==
  /\ \A k \in DOMAIN queue :
       /\ queue[k] <= enqueued /\ status[queue[k]] = "pending" /\ queue[k] \notin ended
       /\ \A w \in Workers : cur[w] # queue[k]
  /\ \A i, k \in DOMAIN queue : queue[i] = queue[k] => i = k

(* The status s of a job, and whether it has ended (e), by the program     *)
(* counter p and the outcome o of the worker that holds it.                *)
StatusFits(p, s, e, o) ==
  /\ p \in {"taken", "ready", "created"} => s = "pending" /\ ~e
  /\ p \in {"agent", "validate", "publish", "memory", "append"} => s = "running" /\ ~e
  /\ p = "failing" => s \in {"pending", "running"} /\ ~e
  /\ p = "persona" => s = (IF o = "failed" THEN "failed" ELSE "running") /\ ~e
  /\ p = "complete" => s = "running" /\ e
  /\ p \notin {"reading", "upsertFinding", "upsertPersona"}

WorkerOnce ==
  \A w \in Workers :
    /\ cur[w] <= enqueued
    /\ \A v \in Workers : (cur[v] = cur[w] /\ pc[w] # "idle") => v = w
    /\ StatusFits(pc[w], status[cur[w]], cur[w] \in ended, outcome[w])

NotYetEnqueued ==
  /\ \A j \in Jobs : j > persisted => status[j] = "none"
  /\ \A j \in Jobs : j > enqueued => j \notin ended
  /\ enqueued < persisted => persisted = enqueued + 1 /\ status[persisted] = "pending"

NobodyWaits ==
  /\ \A j \in Jobs : status[j] # "awaiting_approval"
  /\ \A r \in Requests : rpc[r] = "idle"

SingleDelivery == QueueOnce /\ WorkerOnce /\ NotYetEnqueued /\ NobodyWaits

-----------------------------------------------------------------------------
(* Properties.                                                             *)

(* A job that depends on another persona is past run_job's dependency      *)
(* check only once some job of that persona has been through               *)
(* _mark_persona_terminal, whatever stale copies of the investigation      *)
(* document have been written back in between.                             *)
UpstreamFirst ==
  \A w \in Workers :
    (pc[w] \in {"ready", "created", "destroy"} \cup Executing /\ HasDependency(cur[w]))
      => \E i \in ended : Plan[i] = DependsOn(cur[w])

(* Without crashes, a job that was enqueued and has not started is in the  *)
(* queue or in a worker's hands: requeueing and racing XREADs duplicate    *)
(* jobs but never drop one.                                                *)
NoJobLost ==
  crashes = 0 =>
    \A j \in 1..enqueued :
      status[j] = "pending" => \/ \E k \in DOMAIN queue : queue[k] = j
                              \/ \E w \in Workers : cur[w] = j

(* COMPLETED means that the finding went out to every recipient, the       *)
(* critic included, unless a human's approval let the API complete the job *)
(* on its own.                                                             *)
CompletedWasPublished ==
  \A j \in Jobs :
    status[j] = "completed" =>
      \/ delivered[j] = 1..NumRecipients
      \/ \E g \in granted : g[1] = j

(* A tool above the HITL threshold runs only under an approval that a      *)
(* human granted for this job and this pause.                              *)
ToolNeedsApproval == executed \subseteq granted

(* An approval id that a request can still present has not been granted    *)
(* before: a granted approval cannot be replayed, although the resumed     *)
(* node registers its pause a second time.                                 *)
ApprovalUsedOnce ==
  \A j \in Jobs : pending[j] # 0 => <<j, pending[j]>> \notin granted

(* Both hold of the approvals of L1 HITL. *)
ApprovalsHold == ToolNeedsApproval /\ ApprovalUsedOnce

(* Without crashes, a worker that goes back to its queue has destroyed     *)
(* every sandbox it created, on the failure paths too.                     *)
SandboxReleased ==
  crashes = 0 => \A w \in Workers : pc[w] = "idle" => sandbox[w] = {}

(* Two workers have read the same entry of the stream, or one has read the  *)
(* entry of a job that was requeued for the other.                         *)
Doubled ==
  \E v, w \in Workers : v # w /\ cur[v] = cur[w] /\ cur[v] # NoJob

(* Where worker daemons poll the queue and no process dies, every job of    *)
(* the plan is eventually through _mark_persona_terminal: "Unblock          *)
(* sequential downstream jobs after success or failure".  From the third    *)
(* job on, two workers with the same job can undo that for good: the slower *)
(* one writes back a document from before the previous persona was done.    *)
EveryPersonaUnblocked ==
  \A j \in Jobs :
    <>(Plan[j] \in inv.done \/ crashes > 0 \/ (j > 2 /\ Doubled))

Lifecycle == INSTANCE JobLifecycle WITH released <- ended
(* In one process and without dangerous tools, the detailed job statuses   *)
(* implement the abstract life cycle: no terminal status is ever left, a   *)
(* dependent job starts after its upstream is released, and a job completes *)
(* only after it released its dependents.                                  *)
ImplementsLifecycle == Lifecycle!Spec
=============================================================================
