-------------------------------- MODULE Runs --------------------------------
(***************************************************************************)
(* One interactive run, a session or a one-shot job, behind the API:       *)
(* interfaces/api/runs.py, use_cases/manage_run.py and run_step.py, the    *)
(* budget of its LLM runs (application/runs/run_budget.py,                 *)
(* domain/workers/job_budget.py) and its three stores: the run state in    *)
(* Postgres, which get copies and upsert replaces as a whole, the todo     *)
(* store and the budgets in the memory of the API process.                 *)
(*                                                                         *)
(* Requests are tasks of one event loop.  They interleave where they       *)
(* await: while the LLM and its tools run, among them delegate_research,   *)
(* which runs an LLM of its own.  What an LLM answers is a choice; mode    *)
(* "agent" also stands for ask and debug, which RunStep does not tell      *)
(* apart from it.                                                          *)
(***************************************************************************)
EXTENDS Conductor, Functions

CONSTANTS
  Requests,        \* requests that run the LLM or decide on a plan
  Plans,           \* the todo lists of plans that the LLM or the user may write
  Answers,         \* answers of the LLM outside the plan mode
  Files,           \* attachments
  EveryN,          \* trace_critic.every_n_steps
  RerunMax,        \* trace_critic.rerun_max
  MaxToolCalls,    \* max_tool_calls of the persona's budget
  OneTool,         \* personas that run under OneToolPerTurnMiddleware
  Parallel,        \* bound: tool calls of one turn of an LLM of another persona,
                   \* and of the LLMs that the tools of one turn run
  RecursionLimit,  \* bound: tool calls of one LLM run without a budget
  MaxRestarts      \* bound: restarts of the API process

ASSUME RunsAssumption ==
  /\ EveryN \in Nat \ {0} /\ RerunMax \in Nat
  /\ MaxToolCalls \in Nat /\ RecursionLimit \in Nat /\ MaxRestarts \in Nat
  /\ Parallel \in Nat \ {0}

VARIABLES
  store,      \* the stored RunState
  todoStore,  \* InMemoryWorkTodoStore
  lessons,    \* the reflexion store has a lesson of this run
  budget,     \* JobBudgetTracker: tool_calls of the sessions that have a budget
  req,        \* the requests
  calm,       \* files that were uploaded while no LLM was running
  trouble,    \* what has happened: "overlap", "raise", "reject"
  failed,     \* a trace has failed since the API process was started
  restarts

vars == <<store, todoStore, lessons, budget, req, calm, trouble, failed, restarts>>

Modes == {"plan", "agent"}
Personas == {"conductor", "other"}

NoRun == [exists |-> FALSE, mode |-> "plan", status |-> "open", plan |-> NoTodos,
          todos |-> NoTodos, steps |-> 0, reruns |-> 0, notes |-> {}, files |-> {}]

NotSent == [pc |-> "new", persona |-> "conductor", mode |-> "plan", state |-> NoRun,
            prompt |-> Prompt(NoRun, NoTodos), calls |-> 0, started |-> 0, flight |-> 0,
            nested |-> 0, alone |-> TRUE, late |-> FALSE]

Init ==
  /\ store = NoRun /\ todoStore = NoTodos /\ lessons = FALSE /\ budget = [s \in {} |-> 0]
  /\ req = [r \in Requests |-> NotSent]
  /\ calm = {} /\ trouble = {} /\ failed = FALSE /\ restarts = 0

InFlight(r) == req[r].pc \in {"thinking", "tool"}
Ended == [NotSent EXCEPT !.pc = "done"]
Quiet == \A r \in Requests : ~InFlight(r)

-----------------------------------------------------------------------------
(* JobBudgetTracker.  The session id of a run depends on its persona. *)

Configured(session) == [s \in DOMAIN budget \cup {session} |->
                          IF s = session THEN 0 ELSE budget[s]]
Cleared(session) == Restrict(budget, DOMAIN budget \ {session})

(* check_tool_call: no limit without a budget. *)
MayCall(session) == session \in DOMAIN budget => budget[session] < MaxToolCalls

(* Mutant: a call is counted only while the budget is not used up after it. *)
Counted_Late(session) ==
  IF session \in DOMAIN budget /\ budget[session] + 1 < MaxToolCalls
  THEN [budget EXCEPT ![session] = @ + 1] ELSE budget

(* record_tool_call, which checks again. *)
Counted(session) ==
  IF session \in DOMAIN budget /\ MayCall(session)
  THEN [budget EXCEPT ![session] = @ + 1] ELSE budget

(* nested_delegate_budget: a share of the budget of the delegating session *)
(* as delegate_research names it.  No session of that name has a budget.   *)
NestedBudget == IF "delegate" \in DOMAIN budget THEN Configured("child") ELSE budget

-----------------------------------------------------------------------------
(* RunStep.execute up to its LLM call: state is read from the store, todos *)
(* from the todo store or else from the state, notes are added and the     *)
(* budget is configured.                                                   *)
StartStep(r, persona, mode) ==
  LET others == {s \in Requests \ {r} : InFlight(s)}
      rivals == {s \in others : req[s].persona = persona}
      notes == InjectHints(InjectLessons(store'.notes, lessons), store'.steps, persona, mode)
      state == [store' EXCEPT !.notes = notes]
  IN  /\ req[r].pc = "new"
      /\ req' = [s \in Requests |->
           IF s = r THEN [pc |-> "thinking", persona |-> persona, mode |-> mode,
                          state |-> state,
                          prompt |-> Prompt(state, IF todoStore' # NoTodos THEN todoStore'
                                                   ELSE state.todos),
                          calls |-> 0, started |-> 0, flight |-> 0, nested |-> 0,
                          alone |-> rivals = {}, late |-> failed]
           ELSE IF s \in rivals THEN [req[s] EXCEPT !.alone = FALSE] ELSE req[s]]
      /\ budget' = Configured(persona)
      /\ trouble' = IF others = {} THEN trouble ELSE trouble \cup {"overlap"}
      /\ UNCHANGED <<lessons, failed>>

(* The state of a new run: from_session_id or one_shot_job, saved for the   *)
(* first time.                                                              *)
NewRun(mode) == [NoRun EXCEPT !.exists = TRUE, !.mode = mode, !.status = "in_progress"]

(* get_context: a request for an unknown run gets a 404. *)
Found == store.exists

(* Mutant: the context is saved in a new state. *)
SaveContext_Fresh(mode) == NewRun(mode)

(* save_context for a run that exists. *)
SaveContext(mode) == [store EXCEPT !.mode = mode]

(* POST /sessions and POST /runs, the latter with any persona and files. *)
CreateRun(r, mode, persona, files) ==
  /\ ~Found
  /\ store' = [NewRun(mode) EXCEPT !.files = files]
  /\ calm' = files
  /\ UNCHANGED <<todoStore, restarts>>
  /\ StartStep(r, persona, mode)

(* POST /runs/{id}/steps, with a mode or without. *)
PostStep(r, mode) ==
  /\ Found
  /\ store' = SaveContext(mode)
  /\ UNCHANGED <<todoStore, calm, restarts>>
  /\ StartStep(r, "conductor", mode)

(* POST /runs/{id}/approve-plan: the plan as it is or edited ... *)
ApprovePlan(r, plan) ==
  /\ Found
  /\ store' = [SaveContext("agent") EXCEPT !.plan = plan,
                                           !.todos = IF plan # NoTodos THEN plan ELSE @]
  /\ todoStore' = IF plan # NoTodos THEN plan ELSE todoStore
  /\ UNCHANGED <<calm, restarts>>
  /\ StartStep(r, "conductor", "agent")

(* ... or rejected, which replaces the state and leaves the todo store. *)
RejectPlan(r) ==
  /\ Found /\ req[r].pc = "new"
  /\ store' = [NoRun EXCEPT !.exists = TRUE, !.mode = store.mode, !.status = "closed"]
  /\ req' = [req EXCEPT ![r] = Ended]
  /\ trouble' = trouble \cup {"reject"}
  /\ UNCHANGED <<todoStore, lessons, budget, calm, failed, restarts>>

(* POST /runs/{id}/attachments, once the file has been read. *)
UploadAttachment(f) ==
  /\ Found /\ f \notin store.files
  /\ store' = [store EXCEPT !.files = @ \cup {f}]
  /\ calm' = IF Quiet THEN calm \cup {f} ELSE calm
  /\ UNCHANGED <<todoStore, lessons, budget, req, trouble, failed, restarts>>

-----------------------------------------------------------------------------
(* While the LLM runs: the tool calls of one of its turns run concurrently *)
(* through SecurityMiddleware, which checks the budget before a tool runs  *)
(* and counts the call after it.  (The LLM is told of a call that the      *)
(* check refuses, and goes on.)                                            *)

(* The calls of a turn that run a tool. *)
PerTurn(persona) == IF persona \in OneTool THEN 1 ELSE Parallel

(* The call passes the check, in a new turn or the one that is going on. *)
StartTool(r) ==
  /\ InFlight(r) /\ MayCall(req[r].persona)
  /\ req[r].started < PerTurn(req[r].persona) /\ req[r].calls < RecursionLimit
  /\ req' = [req EXCEPT ![r].pc = "tool", ![r].calls = @ + 1,
                        ![r].started = @ + 1, ![r].flight = @ + 1]
  /\ UNCHANGED <<store, todoStore, lessons, budget, calm, trouble, failed, restarts>>

EndTool(r) ==
  /\ req[r].pc = "tool" /\ req[r].flight > 0
  /\ req' = [req EXCEPT ![r].flight = @ - 1]
  /\ budget' = Counted(req[r].persona)
  /\ UNCHANGED <<store, todoStore, lessons, calm, trouble, failed, restarts>>

(* OneToolPerTurnMiddleware answers a further call of the turn, which is   *)
(* counted as if its tool had run.                                         *)
TurnAway(r) ==
  /\ req[r].pc = "tool" /\ req[r].persona \in OneTool
  /\ budget' = Counted(req[r].persona)
  /\ UNCHANGED <<store, todoStore, lessons, req, calm, trouble, failed, restarts>>

(* The LLM gets the results of the turn. *)
EndTurn(r) ==
  /\ req[r].pc = "tool" /\ req[r].flight = 0
  /\ req' = [req EXCEPT ![r].pc = "thinking", ![r].started = 0, ![r].nested = 0]
  /\ UNCHANGED <<store, todoStore, lessons, budget, calm, trouble, failed, restarts>>

(* A tool is delegate_research, and the LLM that it runs calls a tool. *)
DelegateCalls(r) ==
  /\ req[r].pc = "tool" /\ req[r].flight > 0 /\ req[r].persona = "conductor"
  /\ "child" \in DOMAIN NestedBudget => NestedBudget["child"] < MaxToolCalls
  /\ req[r].nested < Parallel
  /\ req' = [req EXCEPT ![r].nested = @ + 1]
  /\ budget' = NestedBudget
  /\ UNCHANGED <<store, todoStore, lessons, calm, trouble, failed, restarts>>

(* The LLM, a tool or the parsing of the answer raises: nothing is stored. *)
Raise(r) ==
  /\ InFlight(r)
  /\ req' = [req EXCEPT ![r] = Ended]
  /\ budget' = Cleared(req[r].persona)
  /\ trouble' = trouble \cup {"raise"}
  /\ UNCHANGED <<store, todoStore, lessons, calm, failed, restarts>>

(* The end of every step: its copy of the state is written back. *)
Finish(r, state) ==
  /\ store' = state
  /\ req' = [req EXCEPT ![r] = Ended]
  /\ budget' = Cleared(req[r].persona)
  /\ UNCHANGED <<calm, trouble, restarts>>

PlanAnswered(r, plan) ==
  /\ req[r].pc = "thinking" /\ req[r].mode = "plan"
  /\ todoStore' = IF plan # NoTodos THEN plan ELSE todoStore
  /\ UNCHANGED <<lessons, failed>>
  /\ Finish(r, [req[r].state EXCEPT !.plan = plan, !.status = "awaiting_plan_approval",
                                    !.todos = IF plan # NoTodos THEN plan ELSE @])

(* A one-shot run of a persona other than the conductor. *)
WorkerAnswered(r) ==
  /\ req[r].pc = "thinking" /\ req[r].mode = "agent" /\ req[r].persona # "conductor"
  /\ UNCHANGED <<todoStore, lessons, failed>>
  /\ Finish(r, [req[r].state EXCEPT !.status = "in_progress"])

-----------------------------------------------------------------------------
(* _run_conductor: the answer's todos go to the todo store and the state,  *)
(* and every EveryN steps the trace critic judges the answer.              *)

(* Mutant: the todos go to the todo store only. *)
Stepped_TodosInStore(state, todos) == [state EXCEPT !.steps = (@ % EveryN) + 1]

(* step_count is kept modulo EveryN, except that 0 is before the first. *)
Stepped(state, todos) == [state EXCEPT !.todos = todos, !.steps = (@ % EveryN) + 1]

ConductorAnswers(r) ==
  req[r].pc = "thinking" /\ req[r].mode = "agent" /\ req[r].persona = "conductor"

(* The critic is asked, and a failure is learned from. *)
IsJudged(state, answer) == state.steps = EveryN /\ ~answer.enough
WantsRerun(state, answer) == IsJudged(state, answer) /\ TraceVerdict(answer).rerun
Reflect(state, answer) ==
  /\ lessons' = (lessons \/ (IsJudged(state, answer) /\ Learned(TraceVerdict(answer))))
  /\ failed' = (failed \/ (IsJudged(state, answer) /\ TraceVerdict(answer).verdict = "fail"))

(* Mutant: trace_rerun_count is not counted. *)
Rerun_Uncounted(state) == [state EXCEPT !.notes = @ \cup {"critic"}]

Rerun(state) == [state EXCEPT !.reruns = @ + 1, !.notes = @ \cup {"critic"}]

(* The trace critic asks for a rerun, which gets a budget of its own. *)
CriticReruns(r, answer) ==
  LET todos == MergeTodos(answer, req[r].prompt.todos)
      state == Stepped(req[r].state, todos)
  IN  /\ ConductorAnswers(r) /\ WantsRerun(state, answer) /\ state.reruns < RerunMax
      /\ todoStore' = todos
      /\ Reflect(state, answer)
      /\ req' = [s \in Requests |->
           IF s = r
           THEN [req[r] EXCEPT !.state = Rerun(state), !.prompt = Prompt(Rerun(state), todos),
                               !.calls = 0, !.started = 0, !.flight = 0, !.late = failed',
                               !.alone = \A o \in Requests \ {r} :
                                 InFlight(o) => req[o].persona # "conductor"]
           ELSE IF InFlight(s) /\ req[s].persona = "conductor"
                THEN [req[s] EXCEPT !.alone = FALSE] ELSE req[s]]
      /\ budget' = Configured("conductor")
      /\ UNCHANGED <<store, calm, trouble, restarts>>

(* It passes, is not asked, or its reruns are exhausted: then the user is. *)
ConductorAnswered(r, answer) ==
  LET todos == MergeTodos(answer, req[r].prompt.todos)
      state == Stepped(req[r].state, todos)
  IN  /\ ConductorAnswers(r) /\ (WantsRerun(state, answer) => state.reruns >= RerunMax)
      /\ todoStore' = todos
      /\ Reflect(state, answer)
      /\ Finish(r, [state EXCEPT !.status =
             StatusFromResult(answer, WantsRerun(state, answer) /\ HitlOnExhausted)])

-----------------------------------------------------------------------------
(* The API process dies with its memory and its requests. *)
Restart ==
  /\ restarts < MaxRestarts /\ restarts' = restarts + 1
  /\ todoStore' = NoTodos /\ lessons' = FALSE /\ budget' = [s \in {} |-> 0] /\ failed' = FALSE
  /\ req' = [r \in Requests |-> IF InFlight(r) THEN Ended ELSE req[r]]
  /\ UNCHANGED <<store, calm, trouble>>

-----------------------------------------------------------------------------
Client(r) ==
  \/ \E mode \in Modes, persona \in Personas, files \in SUBSET Files :
       CreateRun(r, mode, persona, files)
  \/ \E mode \in Modes : PostStep(r, mode)
  \/ \E plan \in Plans \cup {store.plan} : ApprovePlan(r, plan)
  \/ RejectPlan(r)

Task(r) ==
  \/ StartTool(r) \/ EndTool(r) \/ TurnAway(r) \/ EndTurn(r) \/ DelegateCalls(r)
  \/ Raise(r)
  \/ \E plan \in Plans : PlanAnswered(r, plan)
  \/ WorkerAnswered(r)
  \/ \E answer \in Answers : CriticReruns(r, answer) \/ ConductorAnswered(r, answer)

Next ==
  \/ \E r \in Requests : Client(r) \/ Task(r)
  \/ \E f \in Files : UploadAttachment(f)
  \/ Restart

Spec == Init /\ [][Next]_vars

(* The LLM and the tools answer or raise; a task that can go on does. *)
FairSpec == Spec /\ \A r \in Requests : WF_vars(Task(r))

-----------------------------------------------------------------------------
(* The parts of the inductive invariant behind the safety properties.      *)

(* A run state and a request, whose todo lists and plans may be anything.  *)
IsState(s) ==
  s \in [exists : BOOLEAN, mode : Modes, status : {s.status}, plan : {s.plan},
         todos : {s.todos}, steps : Nat, reruns : Nat,
         notes : SUBSET {"lesson", "critic", "hint"}, files : SUBSET Files]

IsRequest(q) ==
  q \in [pc : {"new", "thinking", "tool", "done"}, persona : Personas, mode : Modes,
         state : {q.state}, prompt : {q.prompt}, calls : Nat, started : Nat,
         flight : Nat, nested : Nat, alone : BOOLEAN, late : BOOLEAN]

TypeOK ==
  /\ IsState(store)
  /\ req = [r \in Requests |-> req[r]]
  /\ \A r \in Requests : IsRequest(req[r]) /\ IsState(req[r].state)
  /\ \A s \in DOMAIN budget : budget[s] \in Nat
  /\ lessons \in BOOLEAN /\ failed \in BOOLEAN /\ calm \subseteq Files /\ restarts \in Nat

(* A request whose session no other one uses has a budget that counts all   *)
(* of its calls but those that are running, until the budget is used up.    *)
AloneIsCounted ==
  \A r \in Requests :
    InFlight(r) /\ req[r].alone =>
      /\ req[r].persona \in DOMAIN budget
      /\ req[r].flight <= req[r].started /\ (req[r].pc = "thinking" => req[r].started = 0)
      /\ budget[req[r].persona] < MaxToolCalls
           => req[r].calls <= budget[req[r].persona] + req[r].flight
      /\ \A s \in Requests : InFlight(s) /\ req[s].persona = req[r].persona => s = r

(* A failure of a trace is a lesson for the runs to come. *)
FailureIsLearned == failed => lessons

(* Only a run that exists is worked on, with the files it was started with. *)
CopiesExist == \A r \in Requests : InFlight(r) => store.exists /\ req[r].state.exists
CopiesHaveFiles ==
  "reject" \notin trouble => \A r \in Requests : InFlight(r) => calm \subseteq req[r].state.files

(* Without overlap, the copy of the only request agrees with the todo store. *)
CopiesAgree ==
  /\ ~store.exists => todoStore = NoTodos /\ store.todos = NoTodos
  /\ trouble = {} =>
       \A r \in Requests : InFlight(r) =>
         /\ \A s \in Requests : InFlight(s) => s = r
         /\ todoStore = req[r].state.todos \/ (restarts > 0 /\ todoStore = NoTodos)

-----------------------------------------------------------------------------
(* run_session_budget: an LLM run, rerun or not, runs no more tools than    *)
(* its persona's budget allows, but for the calls of one turn that all pass *)
(* the check before the first of them is counted, and not even those with   *)
(* one tool per turn: unless another request runs the same session at the   *)
(* same time, which replaces and clears its budget.                         *)
BudgetHolds ==
  \A r \in Requests :
    InFlight(r) /\ req[r].alone =>
      req[r].calls <= MaxToolCalls + PerTurn(req[r].persona) - 1

(* After a trace of the run has failed, whether it was run again, that     *)
(* rerun raised, or another request overtook it, no later LLM run of it    *)
(* starts without a note on the failure, as long as the API is up.         *)
FailureIsTold ==
  \A r \in Requests : InFlight(r) /\ req[r].late => req[r].prompt.notes \cap {"lesson", "critic"} # {}

(* Between requests the todo store, which the next step looks at first, has *)
(* the todos of the stored state, or none since the API restarted.          *)
TodosAgree ==
  Quiet /\ trouble = {} =>
    todoStore = store.todos \/ (restarts > 0 /\ todoStore = NoTodos)

(* A file that was uploaded while no LLM was running stays attached until   *)
(* the plan is rejected, whatever steps, overlaps and failures follow.      *)
AttachmentsKept == "reject" \in trouble \/ calm \subseteq store.files

(* Every step ends, reruns included. *)
StepEnds == \A r \in Requests : InFlight(r) ~> ~InFlight(r)
=============================================================================
