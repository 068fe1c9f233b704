------------------------------ MODULE Conductor ------------------------------
(***************************************************************************)
(* What a step of an interactive run makes of the LLM's answer: the merge  *)
(* of its todos (use_cases/run_step.py, runs/plan_helpers.py and           *)
(* plan_strict.py), the trace critic's verdict on it                       *)
(* (use_cases/evaluate_trace_critic.py) and the notes that the next LLM    *)
(* run is given.  Scores are in hundredths.                                *)
(*                                                                         *)
(* An answer has todos, which replace those of the run when there are any, *)
(* a plan_delta, the two fields enough_data and status, the words of its   *)
(* trace that the critic looks for, and what a judge thinks of it.         *)
(***************************************************************************)
EXTENDS Naturals, FiniteSets

CONSTANTS
  StrictPlan,       \* EGREGORE_STRICT_PLAN
  Threshold,        \* TRACE_CRITIC_THRESHOLD
  HitlOnExhausted,  \* TRACE_CRITIC_HITL_ON_EXHAUSTED
  TaskHints         \* TASK_HINTS_ENABLED, and the task gives rise to hints

ASSUME ConductorAssumption ==
  /\ StrictPlan \in BOOLEAN /\ HitlOnExhausted \in BOOLEAN /\ TaskHints \in BOOLEAN
  /\ Threshold \in 0..100

(* A todo list gives ids their statuses. *)
TodoStatuses == {"pending", "in_progress", "done", "failed", "cancelled"}
NoTodos == [i \in {} |-> "pending"]

NormalizeStatus(raw) == IF raw \in TodoStatuses THEN raw ELSE "pending"

(* apply_plan_delta: an unknown id is added when it comes with a content. *)
ApplyPlanDelta(todos, delta) ==
  [i \in DOMAIN todos \cup {d \in DOMAIN delta : delta[d].content} |->
     IF i \in DOMAIN delta THEN NormalizeStatus(delta[i].status) ELSE todos[i]]

MergePlanDelta(todos, delta) == IF StrictPlan THEN todos ELSE ApplyPlanDelta(todos, delta)

MergeTodos(answer, todos) ==
  MergePlanDelta(IF answer.todos # NoTodos THEN answer.todos ELSE todos, answer.delta)

-----------------------------------------------------------------------------
(* EvaluateTraceCritic. *)
HeuristicIssues(trace) ==
  {issue \in {"errors", "spawn", "short"} :
     CASE issue = "errors" -> {"error", "stub"} \subseteq trace
       [] issue = "spawn" -> "spawn" \in trace /\ "result" \notin trace
       [] issue = "short" -> "short" \in trace}

BaseScore(trace) ==
  LET score == 90 - 15 * Cardinality(HeuristicIssues(trace)) IN IF score > 20 THEN score ELSE 20

(* The verdict says how the trace is recorded, the score whether it is     *)
(* run again: a judge may disagree with itself.                            *)
Verdict(score, said) ==
  [verdict |-> IF said # "" THEN said ELSE IF score >= Threshold THEN "pass" ELSE "fail",
   rerun |-> score < Threshold]

BackendVerdict(trace, judge) ==
  LET base == BaseScore(trace)
  IN Verdict(IF judge.score > 0 /\ judge.score < base THEN judge.score ELSE base, judge.verdict)

(* _reasoning_judge: the model's own score; none when it cannot be asked   *)
(* or read.                                                                *)
ReasoningVerdict(judge) == Verdict(judge.score, judge.verdict)

TraceVerdict(answer) ==
  CASE answer.judge.by = "backend" -> BackendVerdict(answer.trace, answer.judge)
    [] answer.judge.by = "reasoning" -> ReasoningVerdict(answer.judge)
    [] answer.judge.by = "nobody" -> Verdict(BaseScore(answer.trace), "")

(* Mutant: a lesson is learned only from a failure that is not run again. *)
Learned_Final(verdict) == verdict.verdict = "fail" /\ ~verdict.rerun

(* A failed trace leaves a lesson in the reflexion store. *)
Learned(verdict) == verdict.verdict = "fail"

-----------------------------------------------------------------------------
(* The notes of a step: the lessons, each once, and hints on a task that   *)
(* has none yet.                                                           *)
InjectLessons(notes, lessons) == IF lessons THEN notes \cup {"lesson"} ELSE notes

InjectHints(notes, steps, persona, mode) ==
  IF persona = "conductor" /\ mode = "agent" /\ TaskHints /\ notes = {} /\ steps = 0
  THEN {"hint"} ELSE notes

(* _build_step_prompt: what the LLM is shown of the run. *)
Prompt(state, todos) == [todos |-> todos, notes |-> state.notes, files |-> state.files]

(* _status_from_result, outside the plan mode. *)
StatusFromResult(answer, escalated) ==
  IF answer.ask \/ escalated THEN "awaiting_user" ELSE "in_progress"
=============================================================================
