# TLA+ models of cys-agi

cys-agi (`egregore`) is an event-driven platform on which personas, LLM agents with
a role, a prompt and a set of tools, work on security events. This directory holds
TLA+ models of the parts of it that coordinate: how an event becomes jobs, how
workers run them, how a human's approval gets in between, what stands between a model's
answer and a tool, what a model is shown, how findings travel to the control plane, who
writes the catalog, and how an interactive run keeps its state. TLC checks the models
exhaustively on small instances; TLAPS proves their central safety properties for
instances of every size.

Paths below are relative to the repository's root. `PROJECT.json` maps every
definition to the lines it models, and every hazard to a line and to the properties
that would notice it going wrong.

    tlc -workers 4 -config worker_distributed.cfg MCWorkerPlane # a run
    tlapm WorkerPlaneProofs.tla                                 # the proofs

## 1. The system

    API / CLI / SIEM poll --> RouteAndEnqueueEvent --> (Kafka security.events.raw --> RouterConsumer) --+
                                                                                                        |
           +----------------------------- DispatchEvent <-----------------------------------------------+
           |                                   |
           |  manual.investigation             | any other type: plan from the YAML registry
           v                                   v
      PlanInvestigation (LLM) ----------> job queue + job store
                                               |
                 resume request (API) --> WorkerOrchestrator --> RunWorkerJob --> sandbox, AgentRuntime
                                               |                        |              |
                                        investigation document    SecureAgentBus    SecurityMiddleware,
                                        and episodic memory             |           tool gateway
                                                                        v
                                                    transport (Kafka bus.findings, Redis, in-memory)
                                                           |                     |
                                                     critic daemon       coordinator daemon
                                                           +---- status store ---+
                                                                     |
                                                              GET /status/stream

    API /sessions, /runs --> ManageRun --> RunStep (conductor, plan mode, trace critic) --> AgentRuntime

Python is asyncio: within one process tasks interleave at an `await` only. Several
processes (the Helm chart: one API and two workers; the daemons besides) share Redis, Kafka and
Postgres and interleave everywhere.

### Components

| Component | State it keeps | Operations | Hard behaviours | What makes it correct |
|---|---|---|---|---|
| Worker plane (`interfaces/worker/orchestrator.py`, `use_cases/run_worker_job.py`) | the job in hand, its sandbox, its budget | enqueue a plan, dequeue, dependency gate, sandbox, agent, validate, publish, record, fail | two workers on one queue, exceptions at every step, crash between two | dependent jobs run after their upstream; no job lost; COMPLETED means published; sandboxes released |
| Job queue (`infrastructure/queue.py`, `kafka_queue.py`) | a list, a Redis stream or a topic | enqueue, dequeue | XREAD and XDEL are two calls; nothing is acknowledged | an entry is delivered, once where that is possible |
| Job store (`infrastructure/job_store/`) | a status and a pending approval per job | upsert, mark, pause | blind writes of the status by workers and API | statuses mean what they say |
| L1 HITL (`middleware/hitl_pause.py`, `security_middleware.py`, `use_cases/resume_hitl_job.py`) | approval ids, the graph's checkpoint | pause, approve, edit, reject, replay | the interrupted node runs again; resume against worker; two resumes | a dangerous tool runs only under a fresh, granted approval |
| Investigation document (`infrastructure/memory/stores.py`) | plan, planner status, completed personas, findings | get, upsert of the whole document | lost updates between planners and workers | which updates can be lost, and that a chain loses none |
| Planner and dispatch (`use_cases/plan_investigation.py`, `dispatch_event.py`, `route_and_enqueue.py`, `async_manual_investigation.py`) | one background task per event | begin, ask the LLM, fall back, apply, enqueue | several planners for one investigation, API dies, empty answers | an accepted event gets jobs in plan order; the status settles |
| Agent bus (`domain/security/agent_bus.py`) | a circuit breaker per agent | send, receive, record a failure | failures and sends in any order over several breaker periods | only permitted messages are sent; the breaker is open when it must be |
| Bus transport and daemons (`infrastructure/kafka_bus.py`, `interfaces/control_plane/`) | a topic, an offset per group | publish, consume, handle, stop | commit before handling; a commit that fails; crash and SIGTERM in between | findings are narrated in order, twice only if the commit failed |
| Status feed (`postgres_status_store.py`, `status_store.py`, `interfaces/api/app.py`) | rows, the stream's `last_id` | record, connect, fetch, yield | ids become visible out of order | a client gets every status once, in order |
| Interactive runs (`use_cases/run_step.py`, `manage_run.py`, `interfaces/api/runs.py`, `infrastructure/runs/`) | run state, todos, attachments, the session's budget | create, step, approve, reject, upload | concurrent requests on one run, concurrent calls of one turn, reruns, restart of the API | budgets and reruns are bounded; todos and attachments survive; steps end |
| Job budgets (`domain/workers/job_budget.py`) | calls, tokens and cost per session | configure, check, record, clear | check before and count after the call; shared sessions | no more calls than allowed |
| Tool calls (`middleware/one_tool_middleware.py`, `sgr_*`, `scope_middleware.py`, `interfaces/gateways/tool/`, `use_cases/invoke_tool.py`) | the turn's counters, chain state per job | call, deny, pause, invoke, invoke again | parallel calls of a turn; a resumed session is a new agent; a gateway whose answer is lost | one action per turn, reasoning first, bounded chains of high-risk tools |
| Rate limiting (`security/rate_limit.py`) | a window per key | allow | same-second members, concurrent checks | no more than the limit per window |
| Catalog and write gate, skills, policies, persona quality (`infrastructure/catalog/`, `interfaces/api/catalog.py`, `use_cases/update_persona_quality.py`) | rows, versions, an audit log, a registry per process | save, approve, activate, delete, seed, reload, count | read-modify-write by several processes; handlers that end half way | only vetted skills are loaded; a runtime is made with what the rows say; samples and blocks are kept |
| Event routing (`application/routing/event_router.py`, `domain/events/plans.py`) | none | match, merge | several rules and plans match one event | one job per persona that some matching rule names |
| SIEM poll (`connectors/siem_poll/client.py`) and the Kafka queue (`kafka_events.py`, `kafka_queue.py`) | a cursor, topics, offsets, a fallback queue | poll, post, publish, consume, enqueue, dequeue | lost answers, outages, commits before and after the work | every alert is accepted or refused, accepted ones get their jobs, jobs are run |
| Sandboxes (`infrastructure/sandbox.py`, `k8s_sandbox.py`) | Kubernetes jobs | create, destroy | fallback, name clashes, partial failure | as many destroyed as created, but for faults |
| Agent context (`runtime/agent.py`, `middleware/prompt_context_middleware.py`, `memory_context_middleware.py`, `context_summary_middleware.py`, `domain/memory/services.py`) | checkpointed history, episodic memory | run, resume, add results, retrieve, trim, sanitize | histories cut anywhere; entries that expire or are damaged | the model is shown well-formed, current, guarded text |

The remaining components, `PROJECT.json` lists them all, do text, I/O or wiring: RAG,
context summaries, registries and MCP clients, LLM providers, persistence,
observability, authentication, bootstrap, UI and deployment.

### How components interact

- **Calls**: dispatch, planning and enqueueing are one call chain in the API (or the
  router daemon); a worker calls the sandbox connector, the runtime, the bus and the
  stores in a fixed order with one `try`/`except`/`finally` around them.
- **Messages**: jobs through the queue; findings through the bus transport to the
  critic and the coordinator; raw events through Kafka to the router daemon.
- **Shared state**: the job store (workers write, API reads and writes), the
  investigation document (planners and workers read, modify and write it as a whole),
  the run state (requests read, modify and write it as a whole), the status rows
  (API and daemons write, the stream polls), the catalog rows (operators and jobs write,
  every process reads), episodic memory (workers write, every model call reads).
- **Callbacks**: the security middleware runs inside the agent's graph, registers a
  pause and interrupts the graph; a resume replays the interrupted node from its start.

## 2. The modules

| Module | Models | Instances | Proofs |
|---|---|---|---|
| `WorkerPlane` | dispatcher, queue, job store, workers, HITL pause and resume, investigation document | `MCWorkerPlane` | `WorkerPlaneProofs` |
| `JobLifecycle` | abstract: what the worker plane promises of the jobs of a plan | through `WorkerPlane` | `WorkerPlaneProofs` |
| `Planning` | ingress, dispatch, LLM planner, its document against the workers' | `MCPlanning` | `PlanningProofs` |
| `Routing` | severity map, plans, router and conductor as operators | through `Intake` | `IntakeProofs` |
| `Intake` (extends `Routing`) | SIEM poll, API, raw topic, router daemon, Kafka job queue, worker daemons, Kubernetes sandboxes | `MCIntake` | `IntakeProofs` |
| `AgentBus` | `SecureAgentBus` and its circuit breakers | `MCAgentBus` | `AgentBusProofs` |
| `ControlPlane` | the bus transports, the two daemons and their services | `MCControlPlane` | `ControlPlaneProofs` |
| `StatusFeed` | the status stores and `GET /status/stream` | `MCStatusFeed` | `ControlPlaneProofs` |
| `Conductor` | merge of todos, plan delta, trace critic and prompt notes as operators | through `Runs` | `RunsProofs` |
| `Runs` (extends `Conductor`) | interactive runs, their budgets, todos, attachments, delegates and reruns | `MCRuns` | `RunsProofs` |
| `Policy` | tool risk, allowlists, mode sets, merging of policy edits as operators | through the next two | `CatalogProofs` |
| `Catalog` (extends `Policy`) | every writer and reader of agents, skills, plans, servers, tools and policies | `MCCatalog` | `CatalogProofs` |
| `ToolGate` (extends `Policy`) | the tool calls of one agent session, middlewares and gateway | `MCToolGate` | `ToolGateProofs` |
| `AgentContext` | what an agent's model is shown: history, memory, trimming, guards | `MCAgentContext` | `AgentBusProofs` |

Operators whose comment starts with `Mutant:` are not part of a model. Each is the
definition that follows it with a plausible mistake in it; put in its place it makes
TLC find a violation of the property that `PROJECT.json` ("mutants") names. They
document what the properties are sensitive to.

Settings of a deployment that one run explores several of are a variable (`setup`,
`deployment`) that is chosen in the initial state and never changes.

### WorkerPlane

One investigation with the plan `Plan` (job `j` runs persona `Plan[j]`), any number of
`Workers` and of resume `Requests`.

- `PersistJob`, `EnqueueJob`: one iteration of `_persist_and_enqueue_jobs`, as two
  steps because a worker can run in between.
- `PopLeft` is the in-memory dequeue. `XRead` and `XDel` are the Redis one, which reads
  the first entry, deletes it by id and does not look at how many entries that deleted:
  two workers may return the same entry. `fresh[w]` says that the entry `w` read is
  still there.
- `DependencyReady`, `DependencyNotReady`: the gate at the start of `run_job`. A job
  that has to wait goes to the end of the queue.
- `CreateSandbox` to `DestroySandbox`: `RunWorkerJob.execute`, one action per call that
  changes shared state. `Raises` is an exception anywhere in the `try`; `MarkFailed`
  and the persona's mark are its handler, `DestroySandbox` its `finally`.
- `ReadDocument`, `UpsertFinding`, `UpsertPersona`: Postgres reads the document and
  writes it back whole; `Base` is the only place where the two stores differ.
- `AgentPauses`, `ResumeGet` to `ResumeCompleted`: the pause and
  `ResumeHitlJob.execute`. `ResumeGet` to the decision is one stretch of the event
  loop, so at most one request is deciding, but other processes write meanwhile. The
  replay registers a second pause before `interrupt()` returns (`ReplayPause`).
- `WorkerCrash`, `ApiCrash`: a process loses its locals. Nothing acknowledges a queue
  entry, so the job is gone; that is why `NoJobLost` is about runs without crashes.

`InProcess` selects the deployment. In the in-process deployment every action is one
step between awaits or finer; splitting more finely than the event loop does only adds
behaviours, which is safe for the safety properties it is used for. A worker is then a
request POST /workers/process-one, which is all that drains that queue.

### Planning

Events of one investigation (same `correlation_id`). An event is at one point of its
way (`pc`), dispatched by one process (`via`: API, CLI or router daemon), with the
planner's copy of the document (`local`). `Holding` lists the points between which a
task does not give the event loop back; tasks of one process do not interleave there,
tasks of different processes do. `BeginRead`/`BeginWrite` are `begin_planning`,
`PlannerRead` to `ApplyPlan` are `PlanInvestigation.execute` with its three ways to a
plan (the answer, the answer without a known persona, the exception), `EnqueuePlan` is
`_jobs_for_routing`. `RunJob` to `MarkDone` are the workers as far as the document
sees them (`WorkerPlane` has them in full): `ReadDocument` and the write of the finding or
of the persona are steps of their own with Postgres, so that any number of workers and
planners may have a copy at the same time, and one update under a lock in memory. Redis may
deliver a job twice. `record` keeps, for the properties, which jobs ran, which ended, and
which findings were appended while somebody held an older copy (`Overlapped`).
`QualitySample` changes the trust that `rank_personas_by_quality` filters by.

### Routing and Intake

`Routing` defines `MapSiemSeverity`, the match of a rule, the merge of the rules that
match over all plans in load order, and the conductor that may take their place. `Wanted`
states with sets what the loop computes. The loops themselves are recursive functions, one
value for each turn: `Rules` (the plans), `Route` (the rules), `AddPersonas` (the personas of
a rule). `LoopIsRight` says that loops and sets agree on every alert: it is proved
(`RoutingIsRight`), TLC evaluates it on the instance, and checks the jobs that `Intake` makes
against `Wanted` as well.

`Intake` follows an alert. `FetchAlerts`, `SkipPoisoned`, `PostEvent`, `PostAnswered`,
`PollRaises` and `PollReturns` are `poll_once`; the caller that keeps the cursor `since`
is external. `PublishRawEvent` is the API's attempt to hand the event to Kafka, whose
answer may get lost; `ConsumeRawEvent` and `StopConsumer` are the router's consumer, which
is closed, and thereby commits, before the event is routed. `EnqueueJob` is one persona of
a decision, to the topic or to the process's own fallback queue. `Connect`, `Adequeue`,
`AutoCommit`, `RunJob` are a worker daemon (the write of a failed job to the dead-letter
topic, which nobody reads, is part of `RunJob`; its error ends the daemon like
`CrashWorker`); `CreateSandbox` and `DestroySandbox` the
Kubernetes connector, whose calls may fail after they took effect. What a job does inside
is `WorkerPlane`'s.

### AgentBus

`SendMessage` is `send_message` with all of its checks and `receive_message` (`Verified`),
which the worker calls at once on the envelope it just got, for the recipient it sent it
to; nobody else verifies an envelope, so what happens to one on its way is never looked at.
`Sanitize` removes the `_system` keys of a payload and of the dicts nested in it, and leaves
those of dicts in lists.
`LookAtBreaker` models that `is_open` resets a breaker as a side effect, also when the
message is then refused. `strikes` is a history of all failures; the breaker's own state
is `failures` and `openedAt`. The HMAC is a record of the fields that are signed: equal
signatures mean equal fields.

### ControlPlane

Three transports (Kafka; Redis; Redis that did not answer at start-up) and two modes
(services in daemons, or in the API process too). On Kafka each daemon has a consumer group
with one committed offset and makes a consumer per message: `GetOne`, then `CommitOffset`
or `CommitFails` when the consumer is closed, and only then `Narrate` or `Judge`; `position`
is the message in hand, `offset` the committed one. On Redis a thread of the
critic daemon listens (`Listen`). `HandleHere` is a handler that the transport calls in the
publishing process. `Judge` takes its outcome from the constructor's parameters
(`CanJudge`): see the divergences below.

### StatusFeed

`InsertRow`, `CommitRow`: Postgres hands out the id when the row is inserted and shows
the row when the transaction commits. `IsBatch` says of a batch what `ORDER BY id LIMIT` does
with it: it is in order, and no smaller row is left out. `FetchSince`, `Yield`: the generator of the
stream. `RecordInMemory` appends and notifies subscribers in one call.

### Conductor and Runs

`Conductor` is what a step makes of the LLM's answer: `MergeTodos`, the critic's
heuristics, score and verdict, and the notes of the next prompt. `Runs` is one run in the
Postgres state store. A request reads the whole state, works on its copy while the LLM runs
and writes the copy back. `budget` holds the session budgets of `JobBudgetTracker`; the
session depends on the persona only, so two requests of one run share it: the second
configures it anew, the first to end clears it. The tool calls of one turn run
concurrently (`StartTool`, `EndTool`: `flight` of them at a time, `started` in this turn)
unless the persona runs with one tool per turn (`OneTool`, `TurnAway`); all of them may pass
the check before one is counted. `alone` remembers whether a request met
such a rival, `trouble` what else has happened, so that each property says exactly under
which circumstances it holds.

### Policy and Catalog

`Policy` has the pure functions: `ClassifyToolRisk`, `ModeSets`, `AllowTool` and the merge
of an edit. In `Catalog` a process runs one handler at a time. A handler starts with what it
reads and leaves a list of steps (`todo`) whose first is taken by `Merge`, `Write`,
`WritePolicy`, `WriteAudit`, `ReloadRegistry` or `CountUse`; another process may step in
between two of them, and `Restart` may end the process there. In memory a read returns the
stored object itself (`InPlace`), so a change is seen before it is saved; in Postgres
reading and writing are transactions of their own. Requests of the API are `PutAgent`,
`PutSkill`, `ApproveSkill`, `PutResource`, `ActivatePlan`, `HealthCheck`, `PutPolicy` (a
patch merged into the stored policy), `PutProfile` (a profile that is new: the patch takes
the place of the defaults), `Delete`, `Seed`, `ReloadCatalog`; hooks of running jobs are `RecordQuality`, `RecordMatch`
and `LoadSkill`. `registry` is what `get_agent_registry` returns and a reload replaces;
`runtime` is the registry that the cached `AgentRuntime` took when it was made
(`GetRuntime`) and keeps.

### ToolGate

The calls of a turn are concurrent tasks. A call passes `Enter` (scope, budget), the rate
limiter, an approval (`Aresume`, `Reject`), the rule of the turn (`MayRun`, `Raised`) and
is served by the worker or by `InvokeTool` behind the gateway, whose answer may get lost
(`LoseAnswer`) so that the worker runs the tool again (`LocalInvoke`). A resumed session is
a new agent with new middlewares (`NewMiddlewares`) and without a budget. SGR asks for a
reasoning step before an action only with `require_before_action` (`required`). The check and
the count of `check_tool_chain` are one step although several threads may be there: from
the read of the depth to its write CPython calls nothing, and its lock changes hands at calls and
jumps back only. `since`, `acted`,
`thought`, `row` and `passed` are histories that the properties compare with the code's own
counters.

### AgentContext

A text is the set of marks that the sanitizer can find in it and whether it is delimited. A
call of the model (`ModelCall`) is refused when a hard text is in the history; otherwise
the history passes `SanitizeMessages`, `InjectMemory` and `TrimMessages` (old results cut,
then old messages, then results without their call), in the order of the middlewares.
`ToolsReturn`, `ToolsRaise` and `Aresume` extend the history; `AppendEntry`, `Damage` (a row
gets another text or investigation, or loses its checksum, and one without a checksum is
not verified) and `TimePasses` change the memory meanwhile. `shown` is what the last call gave to the model.
Filters and the stable sort of the code are `Arranged(s, I, R)`: the elements of `s` at the
indices `I`, in the order `R`, so that a cut of the history is a set of indices.

## 3. The runs

All runs pass and are exhaustive. The times are for two workers.

| Run | What it shows | Size |
|---|---|---|
| `worker_distributed` | Two worker daemons on Redis and Postgres with racing dequeues, failures, a job that both may run and pause, and a crash: order, delivery, sandboxes, and every persona of a chain of two is unblocked in the end | 333k states, 70 s |
| `worker_approvals` | One job that two processes may run and pause, two resumes that may find the next dangerous tool, and a crash: approvals, publication | 640k, 30 s |
| `worker_lifecycle` | Without dangerous tools and in one process the worker plane implements `JobLifecycle` | 7k, 1 s |
| `planning` | Two workers and seven deployments, see `Supported`: which findings can be lost, that a chain loses none, jobs run in the order of the plan, a plan shown as ready is real, accepted events get jobs | 208k, 30 s |
| `intake` | Three alerts, one of them poisoned, from the SIEM to the worker under a crash, a timeout, an outage or a lost answer | 113k, 60 s |
| `bus` | Every type and payload between an internal and a privileged agent; four failures over several breaker periods | 52k, 25 s |
| `control_findings` | Three messages about two findings over three transports and two modes, with a fault anywhere, a commit that fails included, a SIGTERM and restarts | 445k, 100 s |
| `feed` | Both stores, two writers, failed transactions, batches of two, a client that connects twice | 16k, 5 s |
| `runs` | All requests on a run, two of them concurrent, with delegates, concurrent tool calls, failing LLM runs and traces, reruns, a restart of the API | 220k, 150 s |
| `catalog` | The API and a worker on each store, with a cached runtime each and processes that end in the middle of a handler | 1.1M, 110 s |
| `toolgate` | Two concurrent calls per turn with every discipline, both limiters, approvals and a gateway that loses answers | 1.0M, 25 s |
| `context` | Runs, results and resumptions of a session with and without trimming and memory, while the memory changes | 3.6M, 110 s |

### Properties

*Worker plane.* `ApprovalsHold`: no dangerous tool without an approval for that pause, and
no approval used twice. `UpstreamFirst`: past the dependency gate the upstream persona has
ended, whatever stale documents were written back. `NoJobLost`: requeueing and racing XREADs
may duplicate but not drop. `CompletedWasPublished`: COMPLETED implies that every recipient
got the finding, or that a human's approval let the API complete the job. `SandboxReleased`:
also on failure paths. `NoJobLost` and `SandboxReleased` are about the time in which no process
has died. `ImplementsLifecycle`: refinement. `EveryPersonaUnblocked`: the persona of each
job is marked as done some time unless a process dies, and from the third job on unless two
workers held the same job (`Doubled`): the slower one may write back a document in which the
persona before is not done yet, and then the later ones wait for ever. It is about daemons; in
one process nothing guarantees that anybody sends the next POST /workers/process-one.

*Planning.* `WorkKept`: a finding that was appended stays in the document, unless another
worker or a planner held an older copy at that moment, which in memory nobody can.
`ChainKeepsApart`: with one event whose plan is a chain of different personas and without a
double delivery nobody ever does. `RunsInChain` says "a job of the persona before it", not
"the job": with two events in an investigation `completed_personas` does not tell their jobs
apart. `ReadyPlanIsReal`. `AcceptedIsEnqueued`
leaves out what the code does not do: events through the router daemon while planning is a
background task (the default), a dead API, and personas that lost their trust.

*Intake.* `NothingSkipped`: the cursor passes no alert that was neither accepted nor refused.
`JobsAreWanted`: jobs are those of the set-based definition, with its playbook, and no
dispatch gives a persona two. `SandboxesAccounted`: a Kubernetes job without a worker stems
from a fault of its own. `AcceptedIsRouted`, `JobsAreRun`: the router and the workers catch
up again and again, except with what died in their hands after a commit.

*Bus.* `BreakerIsExact`: an agent with
`Threshold` failures within `Reset` cannot send, and one that cannot send failed within
`Reset`.

*Control plane and feed.* `NarratedInOrder`: in the order of the topic, a message again only
if its offset could not be committed before, and without a fault none is left out.
`FindingIsNarrated`; `ShownInOrder`,
`FeedIsComplete` (every row that was committed in the order of the ids).

*Runs.* `BudgetHolds`: an LLM run whose session no other request uses exceeds its budget by
no more than the other calls of one turn. `TodosAgree`, `AttachmentsKept`, `FailureIsTold` (no LLM run after a
failed trace starts without a note on it), `StepEnds`.

*Catalog.* `LoadedIsVetted`: what `load_skill` gives out was vetted in that wording.
`RuntimeServes`: in memory, a runtime is made with what the process's rows and files say at
that moment (so a handler or a reload before it must have brought the registry up to date), and
no later edit or reload changes it. `MemorySamples`: in memory no quality sample is lost. `PlanBlockKept`: in
memory, once a profile stores its lists of mutating and of plan-blocked tools, no edit makes a
tool callable in plan mode.

*Tool calls.* `ActionsPerTurn`; `ReasonedFirst`, where `require_before_action` is on; `LimitsHold` is the conjunction of
`ToolBudget` (the budget is exceeded by no more than the calls that run at the same time),
`RateHolds` (for the limiter in memory: of `MaxPerWindow + 1` passes of a tool in a row the
last is more than a window after the first) and `ChainBound`; `ApprovedRuns`: an
approved call is not turned away afterwards.

*Context.* `ResultsHaveCalls`, `LastTurnShown`; `MemoryIsSound`: what is retrieved is of the investigation, fresh, in
the order of trust and time, and an entry with a checksum is one that was written for the investigation
and carries no mark; `ShownIsGuarded` is the
conjunction of `UnsafeNeverShown` and `SoftIsNoted`.

### Bounds

| Bound | Value | Why it is enough |
|---|---|---|
| jobs in a plan | 3 in one process, 2 distributed, 1 for approvals | approvals belong to a job; a chain needs an upstream, a middle job and a last one; a race on the document needs two, and from the third job on `EveryPersonaUnblocked` excludes such races |
| workers, requests | 2, 2 (requests in `worker_approvals` only) | all races in the code are between two actors; requests decide one at a time, and change neither the queue nor the investigation |
| `NumRecipients` | 1 | the critic alone: what it got is what a completed job has published |
| `MaxPauses` | 3 in `worker_approvals`, 2 distributed | the pause, its replay, and the next dangerous tool's |
| `MaxQueue` | 3 | a requeued job waits (`DependencyNotReady` is blocked, not lost) while the queue is full; it is never full with three jobs in one process |
| `MaxCrashes` | 1, 0 for the refinement | no action reads `crashes` but the bound |
| events, `Workers` of `Planning` | 2, 2 | two planners on one document; two workers with a copy of it each |
| `maxSamples`, `maxFaults` | 1 | one change of trust empties a one-persona fallback; one crash kills every task of the API; one job is delivered twice |
| alerts, `MaxPosts`, `MaxFaults`, `Served` | 3, 3, 1, one persona | an alert before and one after the poisoned one; one of them can be posted again; a fault at every point; one daemon per persona and they share nothing |
| `MaxTime`, `Reset`, `MaxAge`, failures | 4, 2, 1, 4 | a breaker opens, recovers and opens again; a message expires |
| findings, `MaxFaults`, `MaxStops` | 2 (3 messages), 1, 1 | one fault at every point, and a stop with a restart after it |
| `MaxRecords`, `FetchLimit`, `MaxConnects` | 5, 2, 2 | three batches, the last one short, and a second connection |
| `EveryN`, `RerunMax`, `MaxToolCalls`, `Parallel`, `RecursionLimit`, `MaxRestarts` | 1, 1, 1, 2, 3, 1 | the critic is asked at every step, reruns once; two calls of one turn pass the check together, and a call after them is possible only where no budget stops it |
| processes, ids, contents, `MaxCalls` | 2, 1, 3, 3 | rows of different ids do not touch; an edit, an attack and the file; three handlers make every pair race with a third step after it |
| calls, turns, `MaxClock`, `MaxResumes` | 2, 2, 2, 1 | two concurrent calls, a reset of the turn, a window that passes, one resume |
| `MaxToolCalls`, `MaxPerWindow`, `Window`, `MaxChain` | 2, 1, 1, 1 | each limit can be reached and be exceeded |
| `KeepResults`, `MaxMessages`, `MaxEntries`, `MaxChars`, `TTL`, `MaxClock` | 2, 4, 2, 3, 1, 2 | histories of up to 9 messages are cut by both limits; three entries compete for two places, age and expire |

The bounds are guards of the modules and constants with assumptions, so the theorems hold
for every value of them.

In `toolgate` at most one call of a turn needs an approval. In `runs` the plan is not
strict: a strict plan ignores deltas, which is what answers without one do.

### Fairness

Only what the code's own loops guarantee:

- `WorkerPlane`: the dispatcher's loop runs to its end, worker daemons poll for ever
  (`run_poll_daemon`), and a request that has read the record decides. Nobody has to
  send a request, and nothing has to crash. In one process the queue is drained by POST
  /workers/process-one alone (`app.py:310`), so that its workers owe nothing.
- `Planning`: background tasks and the router daemon go on. Clients, workers, faults
  and quality samples need not.
- `Intake`: a request that is being served goes on, the router listens and handles what it
  got, worker daemons go on. That a router that died is restarted and that an outage ends
  are assumptions on the operator. The SIEM and the poll owe nothing.
- `StatusFeed`: transactions end one way or the other; the generator goes on while the
  client is connected.
- `ControlPlane`: the daemons handle what they got and are started again when they end, a
  called handler goes on. That they are started again is an assumption on the operator: the
  chart and the Compose files do not run these two daemons.
- `Runs`: an LLM run or a tool answers or raises (`llm_request_timeout` bounds a call of
  the LLM). The client owes nothing.
- `AgentBus`, `Catalog`, `ToolGate`, `AgentContext`: none; their properties are safety.

All of it is weak fairness, on the disjunction of what one actor can do, so no single
outcome (success rather than failure, approval rather than rejection) is promised.

## 4. The proofs

The theorems hold for every value of the constants that satisfies the named assumptions:
any plan, any sets of workers and requests, both deployments; any agents, trust levels and
escalation paths; any processes, catalog entries, contents and patches; any tools, limits and
number of concurrent calls; any alerts and plans; any events and deployments of the planner;
any requests, answers and files of a run; any writers and batches of the
status feed. The assumptions say what the code needs anyway:
a plan is not empty, there is at least one recipient (the critic), limits and a breaker's
threshold and recovery time are positive, file contents differ from edits, policies have the
fields of a policy, and the bounds are numbers. TLC evaluates them in every run of the
module.

One theorem has a hypothesis of its own, because the property is claimed of one deployment
only: `LifecycleIsImplemented` assumes `InProcess` and `Dangerous = {}`, which are about
constants and hold in the run that checks the property. The
other properties of the form "P => Q" carry their condition in the property itself.

Each argument is the same: an inductive invariant that TLC checked on the instance first, one
lemma per action or kind of action, and a last step in temporal logic.

### `WorkerPlaneProofs`

| Theorem | States |
|---|---|
| `TypeCorrect` | `Spec => []TypeOK` |
| `ToolsAreApproved` | `Spec => []ToolNeedsApproval` |
| `ApprovalsAreFresh` | `Spec => []ApprovalUsedOnce` |
| `ApprovalsAreHeld` | `Spec => []ApprovalsHold`, the conjunction of the two |
| `CompletionIsEarned` | `Spec => []CompletedWasPublished` |
| `UpstreamEndsFirst` | `Spec => []UpstreamFirst` |
| `SandboxesAreReleased` | `Spec => []SandboxReleased` |
| `JobsAreNotLost` | `Spec => []NoJobLost` |
| `LifecycleIsImplemented` | `InProcess`, `Dangerous = {}`: `Spec => ImplementsLifecycle` |

None of these is inductive alone. The strengthening, whose parts are defined in
`WorkerPlane` next to the properties:

- `WorkerShape`, `RequestShape`, `ReadersShape` (with `TypeOK`: `Typed`). A worker holds a
  job exactly when it is not idle, and the locals of `execute` are what its program
  counter says; at most one request is deciding; an entry that was read and not yet
  deleted is the head of the stream. Without them `cur[w]` could be `NoJob` where the
  store is updated, and `Tail` could be taken of an empty queue.
- `ApprovalOrder`. Approval ids are handed out in increasing order, so a pause gets an id
  that is larger than every granted one; a request that is deciding has seen an id that is
  not granted; one that is past its decision has been granted what it saw. The last part
  gives `ToolNeedsApproval`, the first two carry `ApprovalUsedOnce` over the second pause
  that a replayed node registers. That two requests cannot both be deciding
  (`RequestShape`) is what keeps the same id from being granted by both.
- `PublishProgress`. A worker in the publication loop has delivered to the recipients
  before `sent[w]`, one past it without having failed has delivered to all. With
  `DeliveriesGrow` (deliveries and approvals are never taken back) it gives
  `CompletedWasPublished`: only `MarkCompleted` and `ResumeCompleted` write COMPLETED
  (`WhoCompletes`).
- `DoneOnlyIfEnded`. No copy of the investigation document, stored or in a worker's hands,
  lists a persona before a job of it has ended. Speaking of the copies is the point: the
  upsert of a stale copy may take a persona out of the document but cannot put one in.
- `SandboxHeld`. Until a process dies, a worker has at most the sandbox of the job it holds,
  and only between its creation and the `finally` of `execute`.
- `WorkIsStarted`. Only jobs that were enqueued are in the queue or in a worker's hands, and
  a worker that has recorded a status of its job has taken it out of PENDING for good. Two
  workers may read the same Redis entry; the second deletes nothing, so that only an entry
  that is in somebody's hands leaves the queue.
- `SingleDelivery`. In one process a job is in the queue or in the hands of one worker, once,
  and the status of the job is what the worker's program counter says. It maps every step of
  the worker plane to a step of the life of one job in `JobLifecycle`, or to a stutter. With Redis a job may run twice, which is why the refinement is of one
  process.

Each preservation lemma has one step per action that can disturb its conjuncts;
`WorkerFrame` and `RequestFrame` say what the others leave alone.

### `PlanningProofs`

| Theorem | States |
|---|---|
| `ReadyPlansAreReal` | `Spec => []ReadyPlanIsReal` |
| `ChainsAreKept` | `Spec => []RunsInChain` |
| `FindingsAreKept` | `Spec => []WorkKept` |

Planners and workers write whole documents back, so the invariants are about all `Versions`:
the stored document, and the copies of every worker and every planner. `PlansAreReal`: a
version with a finished plan has the plan of an event whose jobs are enqueued or about to be.
`DoneHasEnded`: a persona is done in a version only if a job of it has ended; a
stale write may take a persona out and cannot put one in. With `JobsFollowPlan`,
`RanIsEnqueued`, `WorkersHaveJobs` and `EndedHaveRun` it gives the order of a chain.
`FindingsAreKept` follows from `CopiesAreFresh`: a finding that was appended while nobody held
an older copy is in the document and in every copy that somebody is going to write back, since
all of these were read later.

### `RunsProofs`

| Theorem | States |
|---|---|
| `RunsTyped` | `Spec => []TypeOK` |
| `BudgetsHold` | `Spec => []BudgetHolds` |
| `FailuresAreTold` | `Spec => []FailureIsTold` |
| `AttachmentsAreKept` | `Spec => []AttachmentsKept` |
| `TodosAlwaysAgree` | `Spec => []TodosAgree` |

`AloneIsCounted`: a request whose session no other one uses has a configured budget that
counts all of its calls but those that are running, of which there are no more than were
started in this turn; what has passed the check when the budget was not yet used up is
therefore bounded by the calls of one turn. `FailureIsLearned`: a failed trace has left a
lesson. `CopiesExist`, `CopiesHaveFiles`, `CopiesAgree`: what a request will write back exists,
has the files that were attached while no LLM was running, and agrees with the todo store if
nothing overlapped.

### `ControlPlaneProofs`

`CoordinatorKeepsOrder`: `Spec => []NarratedInOrder`. `OffsetInLog` says that a daemon that
has fetched finds its message in the topic, and that the one it handles is its own and
committed or the next to be;
`CommittedFirst` that what was narrated after its commit is behind the message in hand. The
commit comes before the handling, so a crash skips a message, and only a commit that fails
repeats one.

`StreamKeepsOrder`: `FeedSpec => []ShownInOrder`, the specification of `StatusFeed`, whose
names differ from those of `ControlPlane` so that one module can speak of both. All that is
still to be sent is in order and comes after all that was sent (`PendingIsNew`, `SentIsSeen`),
and the queue of a subscription in memory has nothing that the next record does not follow
(`QueueIsKnown`).

### `AgentBusProofs`

| Theorem | States |
|---|---|
| `BusTypeCorrect` | `Spec => []TypeOK` |
| `BreakerIsRight` | `Spec => []BreakerIsExact` |
| `ContextInvariant` | `ContextSpec => []ContextInv` |
| `ContextResults` | `ContextSpec => []ResultsHaveCalls` |
| `ContextLastTurn` | `ContextSpec => []LastTurnShown` |
| `ContextMemory` | `ContextSpec => []MemoryIsSound` |
| `ContextGuard` | `ContextSpec => []ShownIsGuarded` |

For the breaker the invariant is `BreakerCounts`:
failures are recorded in order, those the breaker has forgotten are at least `Reset` old,
and an open breaker was opened by the last failure. It is needed because `is_open` resets
the counter as a side effect of being looked at, so that the counter alone says nothing
about the past.

The second half is about `AgentContext`, whose specification is called `ContextSpec` so that
one module can speak of both. `ContextInv` is inductive and says nothing of what was shown:
the types, that every result in the checkpoint follows the answer that asked for it and that
tools run for the answer at its end (`HistoryIsWellFormed`), and that what was signed carried
no mark and the store is in the order of time (`StoreIsSigned`): from the last part it follows
that a row with a checksum that fits is unmarked, and that the newer of two rows is the later one.
Each of the four properties then follows for a request that is made of such a history and
store, and every other step clears `shown` (`NothingShown`). The lemmas that carry this:

- `ArrangedShape`: for an order in which every index has a rank, what `Arranged` returns has
  each chosen index once (`RankOnto`: ranks differ and there are as many as indices) and in that
  order. `KeptWellFormed` and `KeptEnd` read off what cutting results leaves.
- `Healed`: dropping the results at the front of a history in which only the front can lack
  an answer makes it well formed, and keeps every end that starts with an answer.
  `TrimmedMessages` puts the three cuts of the middleware together; the end that it keeps is
  the last turn if the limits have room for it (`RequestShowsTurn`).
- `QueryShape` and `FormatShape`: the query returns valid entries in the order of trust and
  then time, and what is formatted is a beginning of it.

### `CatalogProofs`

| Theorem | States |
|---|---|
| `OnlyVettedIsLoaded` | `Spec => []LoadedIsVetted` |
| `RegistriesServe` | `Spec => []RegistryServes` |
| `RuntimesServe` | `Spec => RuntimeServes`, an action property |
| `SamplesAreCounted` | `Spec => []MemorySamples` |
| `PlanModeIsKept` | `Spec => PlanBlockKept`, an action property |

What is loaded is read from a row, and a row is written from what a handler read earlier,
perhaps before another process changed it. `Inv` therefore follows the vetting through the
stored rows (`RowsGood`) and through the steps that handlers still have to take (`TodoGood`):
every entry of a skill that is not a draft, wherever it is, has a vetted wording. One lemma
per handler and step.

`MemoryInv` is about a process with its catalog in memory. Either its registry serves the
agents of its rows and every agent that its handler will still write back is the stored one
(`Repeats`), or the last step of the handler is a reload that nothing before it can prevent
(`Reloads`). Entries under way carry the number of quality events (`Carries`), and a row that
does not exist has counted none (`Counted`). `RegistriesServe` (between two requests a process
looks agents up in what its rows and files say) is what `RuntimesServe` rests on: a runtime is
made between two requests and takes the registry of that moment, no handler touches it, and a
process that starts again has none.

`PolicyInv`: only the first step of a handler saves a policy, and in memory the policy that it
saves is the stored one with an edit merged in (`MadeOfStored`); the merge of two lists of
tools has every tool of both (`MergeModes`). The property is false without
its condition on the stored lists: an empty list means the built-in one, so that the first
edit of a list replaces the built-in list, which the proof attempt brought out.

### `ToolGateProofs`

| Theorem | States |
|---|---|
| `TurnRuleHolds`, `ReasoningHolds`, `ChainHolds` | `Spec => []ActionsPerTurn`, `[]ReasonedFirst`, `[]ChainBound` |
| `ApprovalsAreHonoured` | `Spec => []ApprovedRuns` |
| `LimitsAreHeld` | `Spec => []LimitsHold` |

The invariant says what each counter of the code stands for: the turn's counter is at least
the number of actions started (`Counted`), `reasoning_done` implies that a reasoning step has
returned (`Thought`; where reasoning is required, no action has started before it), and the counter of a chain is the length of the row it bounds
(`Chained`). `Settled` and `Approved`: while the model answers or a person decides no call is
under way, and the call that is approved is the last one left and finds the turn's counter at
0. `Budget` and `OneBudget`: what ran is counted or in flight, and once the budget is used up
only calls that passed the check before are left. `Rate`: a bucket of the limiter in memory is
the tail of the tool's passes that its window still covers; dropping the expired entries from
the front is right because passes are recorded in the order of the clock.

### `IntakeProofs`

| Theorem | States |
|---|---|
| `NothingIsSkipped` | `Spec => []NothingSkipped` |
| `SandboxesAreAccounted` | `Spec => []SandboxesAccounted` |
| `RoutingIsRight` | `LoopIsRight` |
| `JobsAreAsWanted` | `Spec => []JobsAreWanted` |

While a poll is under way everything before its position is settled (`PassedSettled`), the
request it waits for is about the alert at its position (`WaitsForNext`), and a request is
answered only for an alert that is accepted (`AnsweredAccepted`). For the sandboxes: the names
that workers noted are in the cluster and differ, so that a Kubernetes job nobody noted is
counted by the fault that made it. For the jobs (`DInv`): what a task still has to enqueue is
wanted and has not been enqueued by it (`TasksRight`, `TodoIsNew`), and every job made is
wanted, once for each task (`JobsRight`, `JobsOnce`).

What a task is given in the first place is the result of the router's loops. `RoutingIsRight`
is about them alone: `DecidedBy(d, n, e)` says what the decision is after `n` rules, namely
the personas of those that matched, each once, and the playbook of the last that named one or
else the first id of a plan; `RuleKeepsDecision` is one turn. That a loop has values
(`LoopTyped`) and keeps what every turn keeps (`LoopKeeps`) is an induction on its turns, done
with a set of numbers and its least element (`LeastNumber`, `Induction`), since the library's
induction theorem takes an operator.

### Only model-checked

- Liveness and everything under fairness (`EveryPersonaUnblocked`, `AcceptedIsEnqueued`,
  `AcceptedIsRouted`, `JobsAreRun`, `FeedIsComplete`, `FindingIsNarrated`, `StepEnds`): out of
  the prover's reach, as is `ENABLED`.
- `ChainKeepsApart`: its invariant would count the jobs of a chain that are under way.
- What the folds and pure operators of `Conductor`, `Policy` and `Planning` compute, beyond
  what the proofs above use of them. Induction with an operator as a parameter is out of the
  provers' reach; induction on a set of numbers is not, and was used for the loops of the
  router. No module declares a `RECURSIVE` operator.

Every other state invariant that a run checks is stated by a theorem above; so are the two
action properties and the refinement.

## 5. Known divergences

Met while modelling. The models do what the code does; the conditions of the properties leave
these cases out, and where a document, comment or test says otherwise it is quoted.

*Worker plane.*
- `execute` goes on with the return value of an interrupted graph and overwrites
  AWAITING_APPROVAL with COMPLETED or FAILED (`run_worker_job.py:252`), whereas README.md:16
  says "Durable JobStore (HITL pause/resume survives restart)" and docs/ARCHITECTURE.md:67
  "Durable pause/resume across pod restart". The dangerous tool does not run without an
  approval (proved), but the human's decision comes too late.
- Two workers on one Redis stream may run the same job; Postgres write-backs of the document
  lose updates (`stores.py:235-250`), and a persona that such a write takes out of
  `completed_personas` for good keeps the jobs behind it waiting for ever, whereas
  `run_worker_job.py:82` says "Unblock sequential downstream jobs after success or failure.";
  a crash between dequeue and the end of a job loses the job and its sandbox.
- In one process only POST /workers/process-one runs jobs (`app.py:310`).
- `sanitize_payload` does not enter lists (`agent_bus.py:188-192`): `_system*` keys of a dict
  in a list survive. The one call of `receive_message` verifies what the same process has just
  signed (`run_worker_job.py:223`).
- `record_success` of the breaker has no caller: a breaker recovers by time only.

*Planning.*
- With Kafka and the default `manual_investigation_async` the router daemon only marks the
  investigation as planning (`dispatch_event.py:141`); `router_consumer.py:20` says "Consume
  security.events.raw, route deterministically, enqueue worker jobs."
- With `manual_investigation_async` off no plan sets `depends_on`: the jobs are not chained.
- The trust floor is applied after the checks that replace an empty plan, which may leave
  it empty. The planner task dies with the API, or with an exception from the catalog, and
  leaves `planning` behind.

*Control plane and feed.*
- `CriticService` passes arguments that `ProcessFindingCritic` does not take: the `TypeError`
  ends the critic's daemon, its Redis thread or the publishing job, although
  docs/ARCHITECTURE.md:58 says "CriticService  — trust_score, L2 HITL, escalation, promote to
  finding, revision enqueue".
- Over Redis the coordinator daemon never subscribes, and pub/sub keeps nothing; with Redis
  down at start-up handlers are registered where `publish` does not look; Kafka's `publish`
  without a producer returns normally (`kafka_bus.py:67`); with Kafka and the services in the
  API process as well as in a daemon a finding is narrated twice, and so is one whose commit
  fails when the consumer is closed (`kafka_bus_events.py:30`).
- Postgres ids are taken at INSERT and seen at COMMIT: with two writing processes the stream
  can pass over a row that commits late (`postgres_status_store.py:32`, "Durable
  control-plane status feed in Postgres."). Order and `events_count` of a snapshot differ
  between the stores.

*Intake.*
- `poll_once` has no caller in the repository; a publish may succeed while reporting failure,
  so that two tasks make jobs of one event; the router commits before it routes; the API's
  fallback queue is drained by POST /workers/process-one only, the router's by nobody; a
  worker whose consumer failed after its producer started never tries again.
- Kubernetes names are cut to 63 characters and may collide, and a redelivered job finds its
  predecessor's Kubernetes job: both end in a local sandbox.
- With an empty dynamic catalog `from_plans_dir` recurses until the error is swallowed, then
  the files serve.

*Catalog.*
- `CatalogSingletons.get` runs the factory under a lock that is not re-entrant, and the
  factory of the write gate takes it again (`BuildWriteGate`): no gate is ever built, and the
  request hangs, whereas tests/ingress/test_catalog_api.py:31 has "assert put.status_code ==
  200". The deployments with a gate show what the handlers would do.
- Postgres' `upsert_agent` replaces the counted quality by the stored one
  (tests/application/test_update_persona_quality.py:26, "assert entry.quality.sample_size == 1").
- Whole-row write-backs undo concurrent edits, deletes and activations; concurrent edits of a
  policy lose one; a reload reaches only its own process, and not the runtime of that process, which is cached
  with the registry it was made with (`runtime/agent.py:114`, `525`), whereas
  docs/deploy/policy-seed-checklist.md:10 says "Reload workers after policy PUT"; deleting a filed agent brings the
  file's definition back; a re-seed resets policy, versions and quality; activating an unknown
  plan deactivates all, and in memory the activation compares a name with a pair.

*Tool calls.*
- Security (budget, rate, approval) is outside the rule of the turn: a call refused by it has
  used a rate slot and an approval. A resumed session starts with a new counter, no
  reasoning, no budget and the default profile (settings.py:96, "Limit agents to one tool call
  per model turn.").
- A failed gateway call is repeated in the worker under another chain key; with an approval
  threshold below "high" the chain is never reached without an approval; the Redis limiter
  counts seconds, not calls.

*Context.*
- An entry of the memory whose checksum is empty, the default, is taken unverified
  (`services.py:143`).
- The summarizer behind the trimming is never reached, and the task itself may be trimmed
  away; trimming leaves calls without results; with more parallel calls than `KEEP_TOOL_RESULTS`
  the model misses results.
- A suspicious message is counted again at every call; newer pending entries crowd out older
  confirmed ones; a hard text in a tool result refuses the session for good; a delimited text
  passes the sanitizer and is only caught by the middleware; a resume runs without
  investigation memory.

*Runs.*
- The calls of one turn all pass the check of the budget before one of them is counted
  (`security_middleware.py:138`, `163`), unless there is one tool per turn.
- Concurrent steps of one run share and clear one budget; an attachment that is uploaded
  during a step is overwritten; a rejected plan leaves its todos in the todo store; a delegate
  has no budget, because the session it asks about is never configured; a judge's verdict and
  score may disagree; `rerun_max` 0 of a profile falls back to the environment's value; a strict
  plan ignores a delta but not a replaced list.

## 6. What is not modelled

- Failures of the database inside a job; LangGraph's checkpoint beyond what the code reads of
  it (external, modelled from how the runtime uses it); `_maybe_self_refine`, which is part of
  the agent's run; the hash over the arguments of an approval (an approve request and the
  pause it refers to have the same arguments, an edit sends its own).
- What an LLM or a judge answers: a choice from a small set, with failure as one of the choices.
- The regular expressions of the sanitizer and of redaction: a text is the marks they find.
- Token and cost budgets, which only end an LLM run with an error, one of its answers anyway.
- The status snapshot, dead-letter, audit, paused and escalation topics, which nothing reads
  back (the job that fails is sent to the first through `getattr`, `run_worker_job.py:302-304`,
  where the queue is Kafka's); `SubagentSpawnBroker`, which nothing calls; the worker that a
  Kubernetes job starts inside its pod, and `--max-jobs` of the daemon.
- The in-memory `RunState` store, which hands out shared objects; the reflexion store beyond
  "has a lesson". Modes ask and debug of a run are folded into agent, which `RunStep` treats
  alike; `step_count` is kept modulo `every_n_steps`, which is all that is read of it.
- The components that `PROJECT.json` lists as `not_modelled`: text for prompts, clients of
  external services, wiring, persistence, observability, UI and deployment.

## 7. Order of work

The worker plane came first, because every event ends there and most actors meet there:
`WorkerPlane` with `JobLifecycle` and its theorems, `Planning`, `AgentBus` with its theorems,
`StatusFeed`, `ControlPlane`, `Runs`; then `Policy` with `Catalog` and `ToolGate`, `Routing`
with `Intake`, `AgentContext` and `Conductor`, with the theorems of the first three.

Proofs followed the models: the worker plane's sandboxes, queues, document and refinement;
then `Runs`, `ControlPlane` with `StatusFeed`, `Planning`, the limits and approvals of
`ToolGate`, the sandboxes and jobs of `Intake`, and the registry, samples and policies of
`Catalog`; last the four invariants of `AgentContext` and the loops of the router, which took
lemmas on arranged sequences and on loops first.

Left: a refinement of the distributed deployment, with a life of a job in which it may run
twice, and a proof that a chain keeps the workers apart. In the models: the
Kafka queue as a third queue of `WorkerPlane`, what `ProcessFindingCritic` does once it can be
built, and several calls of one turn that need an approval.
