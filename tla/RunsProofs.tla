------------------------------ MODULE RunsProofs ------------------------------
(***************************************************************************)
(* Proofs about Runs for any requests, plans, answers and files, and for   *)
(* every setting of the trace critic and the budgets.  The lemmas on       *)
(* StartStep, Finish and the rerun say what those steps do to the request  *)
(* that takes them and to the others; each safety invariant then follows   *)
(* from one strengthening: AloneIsCounted, FailureIsLearned,               *)
(* CopiesHaveFiles and CopiesAgree.                                        *)
(***************************************************************************)
EXTENDS Runs, TLAPS

USE DEF Modes, Personas

-----------------------------------------------------------------------------
(* States and requests. *)

LEMMA NoRunTyped == IsState(NoRun) /\ IsRequest(NotSent)
  BY DEF IsState, IsRequest, NoRun, NotSent

(* A counted step keeps everything of the state but todos and count. *)
LEMMA SteppedState ==
  ASSUME NEW s, IsState(s), NEW todos
  PROVE  /\ IsState(Stepped(s, todos)) /\ Stepped(s, todos).todos = todos
         /\ Stepped(s, todos).exists = s.exists /\ Stepped(s, todos).files = s.files
         /\ Stepped(s, todos).notes = s.notes
<1>1. (s.steps % EveryN) + 1 \in Nat
  BY RunsAssumption DEF IsState
<1>2. QED
  BY <1>1 DEF IsState, Stepped

LEMMA RerunState ==
  ASSUME NEW s, IsState(s)
  PROVE  /\ IsState(Rerun(s)) /\ Rerun(s).todos = s.todos /\ Rerun(s).exists = s.exists
         /\ Rerun(s).files = s.files /\ "critic" \in Rerun(s).notes
<1> DEFINE n == s.notes \cup {"critic"}
           k == s.reruns + 1
<1>1. k \in Nat /\ n \in SUBSET {"lesson", "critic", "hint"} /\ "critic" \in n
  BY DEF IsState
<1>2. Rerun(s) = [s EXCEPT !.reruns = k, !.notes = n]
  BY DEF Rerun
<1> HIDE DEF n, k
<1>3. QED
  BY <1>1, <1>2 DEF IsState

LEMMA EndedRequest ==
  /\ IsRequest(Ended) /\ IsState(Ended.state) /\ Ended.pc = "done"
  BY NoRunTyped DEF IsRequest, NotSent, Ended

(* What everybody else keeps while a request starts or reruns: all but the *)
(* claim to be alone.                                                      *)
Kept(s) ==
  /\ IsRequest(req'[s])
  /\ req'[s].pc = req[s].pc /\ req'[s].persona = req[s].persona
  /\ req'[s].calls = req[s].calls /\ req'[s].started = req[s].started
  /\ req'[s].flight = req[s].flight /\ req'[s].state = req[s].state
  /\ req'[s].prompt = req[s].prompt /\ req'[s].late = req[s].late
  /\ req'[s].alone => req[s].alone

LEMMA KeptOrNotAlone ==
  ASSUME NEW s \in Requests, IsRequest(req[s]),
         req'[s] = req[s] \/ req'[s] = [req[s] EXCEPT !.alone = FALSE]
  PROVE  Kept(s)
  BY DEF Kept, IsRequest

(* StartStep: the request that starts, and the others. *)
LEMMA StartEffect ==
  ASSUME TypeOK, IsState(store'), NEW r \in Requests, NEW persona \in Personas, NEW mode \in Modes,
         StartStep(r, persona, mode)
  PROVE  /\ req[r].pc = "new" /\ req' = [s \in Requests |-> req'[s]]
         /\ IsRequest(req'[r]) /\ IsState(req'[r].state)
         /\ req'[r].pc = "thinking" /\ req'[r].persona = persona /\ req'[r].calls = 0
         /\ req'[r].started = 0 /\ req'[r].flight = 0
         /\ req'[r].late = failed
         /\ req'[r].state.exists = store'.exists /\ req'[r].state.files = store'.files
         /\ req'[r].state.todos = store'.todos
         /\ lessons => "lesson" \in req'[r].prompt.notes
         /\ req'[r].alone => \A s \in Requests \ {r} : InFlight(s) => req[s].persona # persona
         /\ \A s \in Requests \ {r} : Kept(s)
         /\ \A s \in Requests \ {r} :
              InFlight(s) /\ req[s].persona = persona => ~req'[s].alone
         /\ UNCHANGED <<lessons, failed>>
         /\ (trouble' = trouble /\ \A s \in Requests \ {r} : ~InFlight(s))
              \/ trouble' = trouble \cup {"overlap"}
<1> DEFINE others == {s \in Requests \ {r} : InFlight(s)}
           rivals == {s \in others : req[s].persona = persona}
           notes == InjectHints(InjectLessons(store'.notes, lessons), store'.steps, persona, mode)
           state == [store' EXCEPT !.notes = notes]
           prompt == Prompt(state, IF todoStore' # NoTodos THEN todoStore' ELSE state.todos)
           lonely == rivals = {}
           new == [pc |-> "thinking", persona |-> persona, mode |-> mode,
                          state |-> state, prompt |-> prompt,
                          calls |-> 0, started |-> 0, flight |-> 0, nested |-> 0,
                          alone |-> lonely, late |-> failed]
<1>0. /\ IsState(store') /\ lessons \in BOOLEAN /\ failed \in BOOLEAN
      /\ \A s \in Requests : IsRequest(req[s])
  BY DEF TypeOK
<1>1. notes \in SUBSET {"lesson", "critic", "hint"} /\ (lessons => "lesson" \in notes)
  BY <1>0 DEF InjectHints, InjectLessons, IsState
<1>2. /\ IsState(state) /\ state.notes = notes /\ state.exists = store'.exists
      /\ state.files = store'.files /\ state.todos = store'.todos
  <2> HIDE DEF notes
  <2>1. QED
    BY <1>0, <1>1 DEF IsState
<1>3. /\ req[r].pc = "new"
      /\ req' = [s \in Requests |->
                   IF s = r THEN new
                   ELSE IF s \in rivals THEN [req[s] EXCEPT !.alone = FALSE] ELSE req[s]]
      /\ trouble' = IF others = {} THEN trouble ELSE trouble \cup {"overlap"}
      /\ UNCHANGED <<lessons, failed>>
  BY DEF StartStep
<1>4. prompt.notes = notes
  BY <1>2 DEF Prompt
<1> HIDE DEF notes, state, prompt
<1>5. req'[r] = new /\ req' = [s \in Requests |-> req'[s]]
  BY <1>3
<1>6. IsRequest(new)
  BY <1>0 DEF IsRequest
<1>7. ASSUME NEW s \in Requests \ {r}
      PROVE  /\ Kept(s)
             /\ InFlight(s) /\ req[s].persona = persona => ~req'[s].alone
  <2>1. req'[s] = IF s \in rivals THEN [req[s] EXCEPT !.alone = FALSE] ELSE req[s]
    BY <1>3
  <2>2. Kept(s)
    BY <1>0, <2>1, KeptOrNotAlone
  <2>3. s \in rivals => ~req'[s].alone
    BY <1>0, <2>1 DEF IsRequest
  <2>4. QED
    BY <2>2, <2>3
<1>8. req'[r].alone => \A s \in Requests \ {r} : InFlight(s) => req[s].persona # persona
  <2> HIDE DEF lonely
  <2>1. req'[r].alone = lonely
    BY <1>5
  <2> USE DEF lonely
  <2>2. QED
    BY <2>1
<1>9. /\ req'[r].pc = "thinking" /\ req'[r].persona = persona /\ req'[r].calls = 0
      /\ req'[r].started = 0 /\ req'[r].flight = 0
      /\ req'[r].late = failed /\ req'[r].state = state /\ req'[r].prompt = prompt
  BY <1>5
<1>10. (trouble' = trouble /\ \A s \in Requests \ {r} : ~InFlight(s))
         \/ trouble' = trouble \cup {"overlap"}
  BY <1>3
<1>11. QED
  BY <1>1, <1>2, <1>3, <1>4, <1>5, <1>6, <1>7, <1>8, <1>9, <1>10

(* CriticReruns: the request that runs again, and the others. *)
LEMMA RerunEffect ==
  ASSUME TypeOK, NEW r \in Requests, NEW answer, CriticReruns(r, answer)
  PROVE  /\ ConductorAnswers(r) /\ req' = [s \in Requests |-> req'[s]]
         /\ IsRequest(req'[r]) /\ IsState(req'[r].state)
         /\ req'[r].pc = "thinking" /\ req'[r].persona = "conductor" /\ req'[r].calls = 0
         /\ req'[r].started = 0 /\ req'[r].flight = 0
         /\ req'[r].state.exists = req[r].state.exists
         /\ req'[r].state.files = req[r].state.files
         /\ req'[r].state.todos = todoStore'
         /\ "critic" \in req'[r].prompt.notes
         /\ req'[r].alone => \A s \in Requests \ {r} : InFlight(s) => req[s].persona # "conductor"
         /\ \A s \in Requests \ {r} : Kept(s)
         /\ \A s \in Requests \ {r} :
              InFlight(s) /\ req[s].persona = "conductor" => ~req'[s].alone
<1> DEFINE todos == MergeTodos(answer, req[r].prompt.todos)
           state == Rerun(Stepped(req[r].state, todos))
           prompt == Prompt(state, todos)
           lonely == \A o \in Requests \ {r} : InFlight(o) => req[o].persona # "conductor"
           again == [req[r] EXCEPT !.state = state, !.prompt = prompt,
                                   !.calls = 0, !.started = 0, !.flight = 0, !.late = failed', !.alone = lonely]
<1>0. /\ \A s \in Requests : IsRequest(req[s]) /\ IsState(req[s].state)
  BY DEF TypeOK
<1>1. /\ IsState(state) /\ state.exists = req[r].state.exists /\ state.todos = todos
      /\ state.files = req[r].state.files /\ "critic" \in state.notes
  BY <1>0, SteppedState, RerunState
<1>2. /\ ConductorAnswers(r) /\ todoStore' = todos
      /\ req' = [s \in Requests |->
                   IF s = r THEN again
                   ELSE IF InFlight(s) /\ req[s].persona = "conductor"
                        THEN [req[s] EXCEPT !.alone = FALSE] ELSE req[s]]
  BY DEF CriticReruns
<1>3. prompt.notes = state.notes
  BY DEF Prompt
<1>4. failed' \in BOOLEAN
  BY DEF CriticReruns, Reflect
<1> HIDE DEF todos, state, prompt
<1>5. req'[r] = again /\ req' = [s \in Requests |-> req'[s]]
  BY <1>2
<1>6. /\ IsRequest(again) /\ again.state = state /\ again.prompt = prompt /\ again.calls = 0
      /\ again.pc = "thinking" /\ again.persona = "conductor" /\ again.alone = lonely
      /\ again.started = 0 /\ again.flight = 0
  <2>1. lonely \in BOOLEAN
    OBVIOUS
  <2> HIDE DEF lonely
  <2>2. req[r].pc = "thinking" /\ req[r].persona = "conductor"
    BY <1>2 DEF ConductorAnswers
  <2>3. QED
    BY <1>0, <1>4, <2>1, <2>2, ZenonT(60) DEF IsRequest
<1>7. ASSUME NEW s \in Requests \ {r}
      PROVE  /\ Kept(s)
             /\ InFlight(s) /\ req[s].persona = "conductor" => ~req'[s].alone
  <2>1. req'[s] = IF InFlight(s) /\ req[s].persona = "conductor"
                  THEN [req[s] EXCEPT !.alone = FALSE] ELSE req[s]
    BY <1>2
  <2>2. Kept(s)
    BY <1>0, <2>1, KeptOrNotAlone
  <2>3. InFlight(s) /\ req[s].persona = "conductor" => ~req'[s].alone
    BY <1>0, <2>1 DEF IsRequest
  <2>4. QED
    BY <2>2, <2>3
<1>8. req'[r].alone = lonely
  BY <1>5, <1>6
<1> HIDE DEF again
<1>9. QED
  BY <1>1, <1>2, <1>3, <1>5, <1>6, <1>7, <1>8

(* What the step of an answer writes back. *)
LEMMA FinishEffect ==
  ASSUME TypeOK, NEW r \in Requests, NEW state, Finish(r, state)
  PROVE  /\ store' = state /\ req' = [s \in Requests |-> req'[s]]
         /\ req'[r] = Ended /\ \A s \in Requests \ {r} : req'[s] = req[s]
         /\ budget' = Cleared(req[r].persona) /\ UNCHANGED <<calm, trouble, restarts>>
  BY DEF Finish, TypeOK

(* An answer outside the plan mode, and in it: the todos of the state that *)
(* is written are those of the todo store, or both are left alone.         *)
Answered(r) ==
  \/ \E plan \in Plans : PlanAnswered(r, plan)
  \/ WorkerAnswered(r)
  \/ \E answer \in Answers : ConductorAnswered(r, answer)

LEMMA AnswerEffect ==
  ASSUME TypeOK, NEW r \in Requests, Answered(r)
  PROVE  /\ req[r].pc = "thinking" /\ IsState(store')
         /\ store'.exists = req[r].state.exists /\ store'.files = req[r].state.files
         /\ \/ store'.todos = todoStore'
            \/ store'.todos = req[r].state.todos /\ todoStore' = todoStore
         /\ req' = [s \in Requests |-> req'[s]]
         /\ req'[r] = Ended /\ \A s \in Requests \ {r} : req'[s] = req[s]
         /\ budget' = Cleared(req[r].persona) /\ UNCHANGED <<calm, trouble, restarts>>
<1> DEFINE old == req[r].state
<1>0. IsState(old)
  BY DEF TypeOK
<1> HIDE DEF old
<1>1. ASSUME NEW plan \in Plans, PlanAnswered(r, plan)
      PROVE  /\ req[r].pc = "thinking" /\ \E state : Finish(r, state)
             /\ IsState(store') /\ store'.exists = old.exists /\ store'.files = old.files
             /\ \/ store'.todos = todoStore'
                \/ store'.todos = old.todos /\ todoStore' = todoStore
  <2>1. Finish(r, [old EXCEPT !.plan = plan, !.status = "awaiting_plan_approval",
                               !.todos = IF plan # NoTodos THEN plan ELSE @])
    BY <1>1 DEF PlanAnswered, old
  <2>2. store' = [old EXCEPT !.plan = plan, !.status = "awaiting_plan_approval",
                             !.todos = IF plan # NoTodos THEN plan ELSE @]
    BY <2>1 DEF Finish
  <2>3. /\ IsState(store') /\ store'.exists = old.exists /\ store'.files = old.files
        /\ store'.todos = IF plan # NoTodos THEN plan ELSE old.todos
    BY <1>0, <2>2 DEF IsState
  <2>4. QED
    BY <1>1, <2>1, <2>3 DEF PlanAnswered
<1>2. ASSUME WorkerAnswered(r)
      PROVE  /\ req[r].pc = "thinking" /\ \E state : Finish(r, state)
             /\ IsState(store') /\ store'.exists = old.exists /\ store'.files = old.files
             /\ store'.todos = old.todos /\ todoStore' = todoStore
  <2>1. Finish(r, [old EXCEPT !.status = "in_progress"])
    BY <1>2 DEF WorkerAnswered, old
  <2>2. store' = [old EXCEPT !.status = "in_progress"]
    BY <2>1 DEF Finish
  <2>3. /\ IsState(store') /\ store'.exists = old.exists /\ store'.files = old.files
        /\ store'.todos = old.todos
    BY <1>0, <2>2 DEF IsState
  <2>4. QED
    BY <1>2, <2>1, <2>3 DEF WorkerAnswered
<1>3. ASSUME NEW answer \in Answers, ConductorAnswered(r, answer)
      PROVE  /\ req[r].pc = "thinking" /\ \E state : Finish(r, state)
             /\ IsState(store') /\ store'.exists = old.exists /\ store'.files = old.files
             /\ store'.todos = todoStore'
  <2> DEFINE todos == MergeTodos(answer, req[r].prompt.todos)
             state == Stepped(old, todos)
             status == StatusFromResult(answer, WantsRerun(state, answer) /\ HitlOnExhausted)
  <2>1. Finish(r, [state EXCEPT !.status = status]) /\ todoStore' = todos /\ req[r].pc = "thinking"
    BY <1>3 DEF ConductorAnswered, ConductorAnswers, old
  <2>2. /\ IsState(state) /\ state.todos = todos
        /\ state.exists = old.exists /\ state.files = old.files
    BY <1>0, SteppedState
  <2> HIDE DEF state, status, todos
  <2>3. store' = [state EXCEPT !.status = status]
    BY <2>1 DEF Finish
  <2>4. /\ IsState(store') /\ store'.exists = state.exists /\ store'.files = state.files
        /\ store'.todos = state.todos
    BY <2>2, <2>3 DEF IsState
  <2>5. QED
    BY <2>1, <2>2, <2>4
<1>4. QED
  BY <1>1, <1>2, <1>3, FinishEffect DEF Answered, old

(* A tool call, a nested one, their ends and a turn's change nothing of a request    *)
(* but its program counter and its counts.                                 *)
ToolStep(r) == StartTool(r) \/ EndTool(r) \/ TurnAway(r) \/ EndTurn(r) \/ DelegateCalls(r)

LEMMA ToolEffect ==
  ASSUME TypeOK, NEW r \in Requests, ToolStep(r)
  PROVE  /\ InFlight(r) /\ req' = [s \in Requests |-> req'[s]]
         /\ \A s \in Requests \ {r} : req'[s] = req[s]
         /\ IsRequest(req'[r]) /\ req'[r].pc \in {"thinking", "tool"}
         /\ req'[r].persona = req[r].persona /\ req'[r].state = req[r].state
         /\ req'[r].prompt = req[r].prompt /\ req'[r].late = req[r].late
         /\ req'[r].alone = req[r].alone
         /\ UNCHANGED <<store, todoStore, lessons, calm, trouble, failed, restarts>>
<1> USE DEF TypeOK, IsRequest
<1>1. CASE StartTool(r)
  <2> DEFINE k == req[r].calls + 1
             n == req[r].started + 1
             m == req[r].flight + 1
  <2>1. k \in Nat /\ n \in Nat /\ m \in Nat /\ IsRequest(req[r])
    OBVIOUS
  <2>2. /\ req' = [req EXCEPT ![r] = [req[r] EXCEPT !.pc = "tool", !.calls = k,
                                                  !.started = n, !.flight = m]]
        /\ InFlight(r)
        /\ UNCHANGED <<store, todoStore, lessons, budget, calm, trouble, failed, restarts>>
    BY <1>1, Zenon DEF StartTool
  <2> HIDE DEF k, n, m
  <2>3. QED
    BY <2>1, <2>2
<1>2. CASE EndTool(r)
  BY <1>2 DEF EndTool, InFlight
<1>3. CASE TurnAway(r)
  BY <1>3 DEF TurnAway, InFlight
<1>4. CASE EndTurn(r)
  BY <1>4 DEF EndTurn, InFlight
<1>5. CASE DelegateCalls(r)
  BY <1>5 DEF DelegateCalls, InFlight
<1>6. QED
  BY <1>1, <1>2, <1>3, <1>4, <1>5 DEF ToolStep

(* The requests that start a step: what they make of the stored state, the *)
(* todo store and the attachments.                                         *)
Starts(r) ==
  \/ \E mode \in Modes, persona \in Personas, files \in SUBSET Files :
       CreateRun(r, mode, persona, files)
  \/ \E mode \in Modes : PostStep(r, mode)
  \/ \E plan \in Plans \cup {store.plan} : ApprovePlan(r, plan)

LEMMA StartKinds ==
  ASSUME TypeOK, NEW r \in Requests, Starts(r)
  PROVE  /\ IsState(store') /\ store'.exists /\ restarts' = restarts
         /\ \E persona \in Personas, mode \in Modes :
              StartStep(r, persona, mode) /\ budget' = Configured(persona)
         /\ \/ /\ ~store.exists /\ store'.files = calm' /\ calm' \subseteq Files
               /\ store'.todos = NoTodos /\ todoStore' = todoStore
            \/ /\ store.exists /\ store'.files = store.files /\ calm' = calm
               /\ \/ store'.todos = store.todos /\ todoStore' = todoStore
                  \/ store'.todos = todoStore'
<1>0. IsState(store)
  BY DEF TypeOK
<1>1. ASSUME NEW mode \in Modes, NEW persona \in Personas, NEW files \in SUBSET Files,
             CreateRun(r, mode, persona, files)
      PROVE  /\ IsState(store') /\ store'.exists /\ store'.files = files
             /\ store'.todos = NoTodos
  BY <1>1 DEF CreateRun, NewRun, NoRun, IsState
<1>2. ASSUME NEW mode \in Modes, PostStep(r, mode)
      PROVE  /\ IsState(store') /\ store'.exists /\ store'.files = store.files
             /\ store'.todos = store.todos
  BY <1>0, <1>2 DEF PostStep, SaveContext, Found, IsState
<1>3. ASSUME NEW plan, ApprovePlan(r, plan)
      PROVE  /\ IsState(store') /\ store'.exists /\ store'.files = store.files
             /\ store'.todos = IF plan # NoTodos THEN plan ELSE store.todos
  <2>1. IsState(SaveContext("agent")) /\ SaveContext("agent").todos = store.todos
        /\ SaveContext("agent").exists = store.exists /\ SaveContext("agent").files = store.files
    BY <1>0 DEF SaveContext, IsState
  <2>2. store.exists
    BY <1>3 DEF ApprovePlan, Found
  <2>3. store' = [SaveContext("agent") EXCEPT !.plan = plan,
                                           !.todos = IF plan # NoTodos THEN plan ELSE @]
    BY <1>3 DEF ApprovePlan
  <2>4. QED
    BY <2>1, <2>2, <2>3 DEF IsState
<1>4. CASE \E mode \in Modes, persona \in Personas, files \in SUBSET Files :
              CreateRun(r, mode, persona, files)
  <2>1. PICK mode \in Modes, persona \in Personas, files \in SUBSET Files :
           CreateRun(r, mode, persona, files)
    BY <1>4
  <2>2. /\ IsState(store') /\ store'.exists /\ store'.files = files /\ store'.todos = NoTodos
    BY <1>1, <2>1
  <2>3. /\ ~store.exists /\ calm' = files /\ UNCHANGED <<todoStore, restarts>>
        /\ StartStep(r, persona, mode) /\ budget' = Configured(persona)
    BY <2>1 DEF CreateRun, StartStep, Found
  <2>4. QED
    BY <2>2, <2>3
<1>5. CASE \E mode \in Modes : PostStep(r, mode)
  BY <1>2, <1>5 DEF PostStep, StartStep, Found
<1>6. CASE \E plan \in Plans \cup {store.plan} : ApprovePlan(r, plan)
  BY <1>3, <1>6 DEF ApprovePlan, StartStep, Found
<1>7. QED
  BY <1>4, <1>5, <1>6 DEF Starts

(* The kinds of steps that the proofs below tell apart. *)
LEMMA Kinds ==
  ASSUME [Next]_vars
  PROVE  \/ \E r \in Requests : \/ Starts(r) \/ RejectPlan(r) \/ ToolStep(r) \/ Raise(r)
                                \/ Answered(r)
                                \/ \E answer \in Answers : CriticReruns(r, answer)
         \/ \E f \in Files : UploadAttachment(f)
         \/ Restart \/ UNCHANGED vars
  BY DEF Next, Client, Task, Starts, ToolStep, Answered

(* Rejecting a plan and an exception end one request, a restart all that   *)
(* are in flight.                                                          *)
LEMMA EndEffect ==
  ASSUME TypeOK, NEW r \in Requests, RejectPlan(r) \/ Raise(r)
  PROVE  /\ req' = [s \in Requests |-> req'[s]]
         /\ req'[r] = Ended /\ \A s \in Requests \ {r} : req'[s] = req[s]
  BY DEF RejectPlan, Raise, TypeOK

LEMMA UploadEffect ==
  ASSUME TypeOK, NEW f \in Files, UploadAttachment(f)
  PROVE  /\ IsState(store') /\ store.exists /\ store'.exists /\ store'.todos = store.todos
         /\ store'.files = store.files \cup {f} /\ UNCHANGED req
  BY DEF UploadAttachment, Found, TypeOK, IsState

LEMMA BudgetTyped ==
  ASSUME TypeOK
  PROVE  \A p : /\ \A s \in DOMAIN Configured(p) : Configured(p)[s] \in Nat
                /\ \A s \in DOMAIN Cleared(p) : Cleared(p)[s] \in Nat
                /\ \A s \in DOMAIN Counted(p) : Counted(p)[s] \in Nat
                /\ \A s \in DOMAIN NestedBudget : NestedBudget[s] \in Nat
  BY DEF TypeOK, Configured, Cleared, Restrict, Counted, NestedBudget

LEMMA NextTyped ==
  ASSUME TypeOK, [Next]_vars
  PROVE  TypeOK'
<1>0. /\ \A s \in Requests : IsRequest(req[s]) /\ IsState(req[s].state)
      /\ IsState(store) /\ lessons \in BOOLEAN /\ failed \in BOOLEAN
      /\ calm \subseteq Files /\ restarts \in Nat
  BY DEF TypeOK
<1>1. ASSUME NEW r \in Requests, Starts(r) PROVE TypeOK'
  <2>1. /\ IsState(store') /\ calm' \subseteq Files /\ restarts' \in Nat
        /\ \A s \in DOMAIN budget' : budget'[s] \in Nat
    BY <1>0, <1>1, StartKinds, BudgetTyped
  <2>2. /\ req' = [s \in Requests |-> req'[s]] /\ UNCHANGED <<lessons, failed>>
        /\ IsRequest(req'[r]) /\ IsState(req'[r].state)
        /\ \A s \in Requests \ {r} : Kept(s)
    BY <1>1, StartKinds, StartEffect
  <2>3. \A s \in Requests : IsRequest(req'[s]) /\ IsState(req'[s].state)
    BY <1>0, <2>2 DEF Kept
  <2>4. QED
    BY <1>0, <2>1, <2>2, <2>3 DEF TypeOK
<1>2. ASSUME NEW r \in Requests, RejectPlan(r) \/ Raise(r) PROVE TypeOK'
  <2>1. IsState(store')
    <3>1. CASE Raise(r)
      BY <1>0, <3>1 DEF Raise
    <3>2. CASE RejectPlan(r)
      <4>1. store' = [NoRun EXCEPT !.exists = TRUE, !.mode = store.mode, !.status = "closed"]
            /\ store.mode \in Modes
        BY <1>0, <3>2 DEF RejectPlan, IsState
      <4>2. QED
        BY <4>1, NoRunTyped DEF IsState
    <3>3. QED
      BY <1>2, <3>1, <3>2
  <2>2. \A s \in DOMAIN budget' : budget'[s] \in Nat
    BY <1>2, BudgetTyped DEF RejectPlan, Raise, TypeOK
  <2>3. \A s \in Requests : IsRequest(req'[s]) /\ IsState(req'[s].state)
    BY <1>0, <1>2, EndEffect, EndedRequest
  <2>4. req' = [s \in Requests |-> req'[s]]
    BY <1>2, EndEffect
  <2>5. QED
    BY <1>0, <1>2, <2>1, <2>2, <2>3, <2>4 DEF RejectPlan, Raise, TypeOK
<1>3. ASSUME NEW r \in Requests, ToolStep(r) PROVE TypeOK'
  <2>1. \A s \in DOMAIN budget' : budget'[s] \in Nat
    BY <1>3, BudgetTyped DEF ToolStep, StartTool, EndTool, TurnAway, EndTurn, DelegateCalls, TypeOK
  <2>2. \A s \in Requests : IsRequest(req'[s]) /\ IsState(req'[s].state)
    BY <1>0, <1>3, ToolEffect
  <2>3. QED
    BY <1>0, <1>3, <2>1, <2>2, ToolEffect DEF TypeOK
<1>4. ASSUME NEW r \in Requests, Answered(r) PROVE TypeOK'
  <2>1. \A s \in DOMAIN budget' : budget'[s] \in Nat
    BY <1>4, AnswerEffect, BudgetTyped
  <2>2. \A s \in Requests : IsRequest(req'[s]) /\ IsState(req'[s].state)
    BY <1>0, <1>4, AnswerEffect, EndedRequest
  <2>3. lessons' \in BOOLEAN /\ failed' \in BOOLEAN
    BY <1>0, <1>4 DEF Answered, PlanAnswered, WorkerAnswered, ConductorAnswered, Reflect
  <2>4. QED
    BY <1>0, <1>4, <2>1, <2>2, <2>3, AnswerEffect DEF TypeOK
<1>5. ASSUME NEW r \in Requests, NEW answer \in Answers, CriticReruns(r, answer) PROVE TypeOK'
  <2>1. \A s \in DOMAIN budget' : budget'[s] \in Nat
    BY <1>5, BudgetTyped DEF CriticReruns
  <2>2. \A s \in Requests : IsRequest(req'[s]) /\ IsState(req'[s].state)
    BY <1>0, <1>5, RerunEffect DEF Kept
  <2>3. /\ lessons' \in BOOLEAN /\ failed' \in BOOLEAN
        /\ UNCHANGED <<store, calm, restarts>>
    BY <1>5 DEF CriticReruns, Reflect
  <2>4. req' = [s \in Requests |-> req'[s]]
    BY <1>5, RerunEffect
  <2>5. QED
    BY <1>0, <2>1, <2>2, <2>3, <2>4 DEF TypeOK
<1>6. ASSUME NEW f \in Files, UploadAttachment(f) PROVE TypeOK'
  <2>1. calm' \subseteq Files
    BY <1>0, <1>6 DEF UploadAttachment
  <2>2. QED
    BY <1>6, <2>1, UploadEffect DEF UploadAttachment, TypeOK
<1>7. CASE Restart
  <2>1. \A s \in Requests : req'[s] = Ended \/ req'[s] = req[s]
    BY <1>7 DEF Restart
  <2>2. \A s \in Requests : IsRequest(req'[s]) /\ IsState(req'[s].state)
    BY <1>0, <2>1, EndedRequest
  <2>3. req' = [s \in Requests |-> req'[s]] /\ DOMAIN budget' = {}
    BY <1>7 DEF Restart
  <2>4. /\ UNCHANGED <<store, calm>> /\ restarts' \in Nat
        /\ lessons' \in BOOLEAN /\ failed' \in BOOLEAN
    <3>1. restarts' \in Nat
      BY <1>0, <1>7 DEF Restart
    <3>2. UNCHANGED <<store, calm>> /\ lessons' \in BOOLEAN /\ failed' \in BOOLEAN
      BY <1>7, Zenon DEF Restart
    <3>3. QED
      BY <3>1, <3>2
  <2>5. QED
    BY <1>0, <2>2, <2>3, <2>4 DEF TypeOK
<1>8. CASE UNCHANGED vars
  BY <1>8 DEF vars, TypeOK
<1>9. QED
  BY <1>1, <1>2, <1>3, <1>4, <1>5, <1>6, <1>7, <1>8, Kinds

LEMMA InitTyped == Init => TypeOK
<1> SUFFICES ASSUME Init PROVE TypeOK
  OBVIOUS
<1>1. /\ store = NoRun /\ \A r \in Requests : req[r] = NotSent
      /\ req = [r \in Requests |-> req[r]] /\ DOMAIN budget = {}
      /\ calm = {} /\ restarts = 0
  BY DEF Init
<1>2. lessons \in BOOLEAN /\ failed \in BOOLEAN
  BY Zenon DEF Init
<1>3. NotSent.state = NoRun
  BY DEF NotSent
<1>4. QED
  BY <1>1, <1>2, <1>3, NoRunTyped DEF TypeOK

(* The stored run state, the copies of it and the requests keep their      *)
(* shape.                                                                  *)
THEOREM RunsTyped == Spec => []TypeOK
<1>1. TypeOK /\ [Next]_vars => TypeOK'
  BY NextTyped
<1>2. QED
  BY <1>1, InitTyped, PTL DEF Spec

-----------------------------------------------------------------------------
(* Budgets. *)

(* The budget of a session that is configured, and of the other sessions. *)
LEMMA ConfiguredBudget ==
  ASSUME NEW p
  PROVE  /\ p \in DOMAIN Configured(p) /\ Configured(p)[p] = 0
         /\ \A q \in DOMAIN budget : q # p => q \in DOMAIN Configured(p) /\ Configured(p)[q] = budget[q]
  BY DEF Configured

LEMMA ClearedBudget ==
  ASSUME NEW p
  PROVE  \A q \in DOMAIN budget : q # p => q \in DOMAIN Cleared(p) /\ Cleared(p)[q] = budget[q]
  BY DEF Cleared, Restrict

(* AloneIsCounted and BudgetHolds of one request. *)
Counts(r) ==
  InFlight(r) /\ req[r].alone =>
      /\ req[r].persona \in DOMAIN budget
      /\ req[r].flight <= req[r].started /\ (req[r].pc = "thinking" => req[r].started = 0)
      /\ budget[req[r].persona] < MaxToolCalls
           => req[r].calls <= budget[req[r].persona] + req[r].flight
      /\ \A s \in Requests : InFlight(s) /\ req[s].persona = req[r].persona => s = r
      /\ req[r].calls <= MaxToolCalls + PerTurn(req[r].persona) - 1

LEMMA PerTurnTyped == \A p : PerTurn(p) \in Nat \ {0}
  BY RunsAssumption DEF PerTurn

(* A request that starts with a new budget, and takes the session over from *)
(* the others.                                                              *)
LEMMA TakeOver ==
  ASSUME TypeOK, \A s \in Requests : Counts(s), NEW r \in Requests, NEW p,
         req'[r].pc = "thinking", req'[r].persona = p, req'[r].calls = 0,
         req'[r].started = 0, req'[r].flight = 0, budget' = Configured(p),
         req'[r].alone => \A s \in Requests \ {r} : InFlight(s) => req[s].persona # p,
         \A s \in Requests \ {r} : Kept(s),
         \A s \in Requests \ {r} : InFlight(s) /\ req[s].persona = p => ~req'[s].alone
  PROVE  \A s \in Requests : Counts(s)'
<1> USE DEF InFlight
<1>1. p \in DOMAIN budget' /\ budget'[p] = 0 /\ MaxToolCalls \in Nat
  BY ConfiguredBudget, RunsAssumption
<1>2. Counts(r)'
  <2>1. PerTurn(p) \in Nat \ {0} /\ PerTurn(p)' = PerTurn(p)
    BY PerTurnTyped DEF PerTurn
  <2> HIDE DEF PerTurn
  <2>2. \A s \in Requests \ {r} : req'[r].alone /\ InFlight(s)' => req'[s].persona # p
    BY DEF Kept
  <2>3. QED
    BY <1>1, <2>1, <2>2 DEF Counts, PerTurn
<1>3. ASSUME NEW s \in Requests \ {r}, InFlight(s), req'[s].alone
      PROVE  Counts(s)'
  <2>1. /\ Counts(s) /\ req[s].alone /\ req[s].persona # p
        /\ req'[s].pc = req[s].pc /\ req'[s].persona = req[s].persona /\ req'[s].calls = req[s].calls
        /\ req'[s].started = req[s].started /\ req'[s].flight = req[s].flight
    BY <1>3 DEF Kept
  <2>2. req[s].persona \in DOMAIN budget' /\ budget'[req[s].persona] = budget[req[s].persona]
    BY <1>3, <2>1, ConfiguredBudget DEF Counts
  <2>3. \A q \in Requests : q # r => req'[q].pc = req[q].pc /\ req'[q].persona = req[q].persona
    BY DEF Kept
  <2>4. QED
    BY <1>3, <2>1, <2>2, <2>3 DEF Counts, PerTurn
<1>4. \A s \in Requests \ {r} : Counts(s)'
  BY <1>3 DEF Counts, Kept
<1>5. QED
  BY <1>2, <1>4

(* A request that ends and clears the budget of its session. *)
LEMMA GiveUp ==
  ASSUME TypeOK, \A s \in Requests : Counts(s), NEW r \in Requests,
         req'[r].pc = "done", \A s \in Requests \ {r} : req'[s] = req[s],
         budget' = budget \/ (InFlight(r) /\ budget' = Cleared(req[r].persona))
  PROVE  \A s \in Requests : Counts(s)'
<1> USE DEF InFlight
<1>1. Counts(r)'
  BY DEF Counts
<1>2. ASSUME NEW s \in Requests \ {r}, InFlight(s), req[s].alone
      PROVE  Counts(s)'
  <2>1. Counts(s) /\ req'[s] = req[s]
    OBVIOUS
  <2>2. req[s].persona \in DOMAIN budget' /\ budget'[req[s].persona] = budget[req[s].persona]
    BY <1>2, <2>1, ClearedBudget DEF Counts
  <2>3. \A q \in Requests : q = r \/ req'[q] = req[q]
    OBVIOUS
  <2>4. QED
    BY <1>2, <2>1, <2>2, <2>3 DEF Counts, PerTurn
<1>3. \A s \in Requests \ {r} : Counts(s)'
  BY <1>2 DEF Counts
<1>4. QED
  BY <1>1, <1>3

LEMMA ToolCounts ==
  ASSUME TypeOK, \A s \in Requests : Counts(s), NEW r \in Requests, ToolStep(r)
  PROVE  \A s \in Requests : Counts(s)'
<1>0. /\ IsRequest(req[r]) /\ \A s \in DOMAIN budget : budget[s] \in Nat
      /\ MaxToolCalls \in Nat /\ req = [s \in Requests |-> req[s]]
  BY RunsAssumption DEF TypeOK
<1>1. /\ \A s \in Requests : req'[s].persona = req[s].persona /\ req'[s].alone = req[s].alone
      /\ \A s \in Requests : InFlight(s) <=> InFlight(s)'
      /\ \A s \in Requests \ {r} : req'[s] = req[s]
      /\ InFlight(r)
  BY ToolEffect DEF InFlight
<1> DEFINE p == req[r].persona
<1>2. ASSUME NEW s \in Requests \ {r}, InFlight(s), req[s].alone PROVE Counts(s)'
  <2>1. Counts(s) /\ req'[s] = req[s] /\ req[s].persona \in DOMAIN budget /\ req[s].persona # p
    BY <1>1, <1>2 DEF Counts
  <2>2. p \in Personas
    BY <1>0 DEF IsRequest
  <2>3. req[s].persona \in DOMAIN budget' /\ budget'[req[s].persona] = budget[req[s].persona]
    <3>1. CASE StartTool(r) \/ EndTurn(r)
      BY <2>1, <3>1 DEF StartTool, EndTurn
    <3>2. CASE EndTool(r) \/ TurnAway(r)
      BY <2>1, <3>2 DEF EndTool, TurnAway, Counted
    <3>3. CASE DelegateCalls(r)
      <4>1. IsRequest(req[s])
        BY DEF TypeOK
      <4>2. req[s].persona # "child"
        BY <4>1 DEF IsRequest
      <4>3. QED
        BY <2>1, <3>3, <4>2, ConfiguredBudget DEF DelegateCalls, NestedBudget
    <3>4. QED
      BY <3>1, <3>2, <3>3 DEF ToolStep
  <2>4. QED
    BY <1>1, <1>2, <2>1, <2>3 DEF Counts, PerTurn
<1>3. ASSUME req[r].alone PROVE Counts(r)'
  <2> DEFINE most == PerTurn(p)
  <2>1. /\ Counts(r) /\ p \in DOMAIN budget /\ budget[p] \in Nat /\ req[r].calls \in Nat
        /\ req[r].started \in Nat /\ req[r].flight \in Nat /\ most \in Nat \ {0}
        /\ PerTurn(req'[r].persona) = most
    <3>1. most \in Nat \ {0} /\ PerTurn(req'[r].persona) = most
      BY <1>1, PerTurnTyped
    <3> HIDE DEF most
    <3>2. QED
      BY <1>0, <1>1, <1>3, <3>1 DEF Counts, IsRequest
  <2>2. /\ \A s \in Requests : InFlight(s)' /\ req'[s].persona = req'[r].persona => s = r
        /\ req[r].flight <= req[r].started
        /\ req[r].pc = "thinking" => req[r].started = 0
        /\ budget[p] < MaxToolCalls => req[r].calls <= budget[p] + req[r].flight
        /\ req[r].calls <= MaxToolCalls + most - 1
    BY <1>1, <1>3, <2>1 DEF Counts
  <2> HIDE DEF most
  <2>3. ASSUME p \in DOMAIN budget', budget'[p] \in Nat,
               req'[r].flight <= req'[r].started,
               req'[r].pc = "thinking" => req'[r].started = 0,
               budget'[p] < MaxToolCalls => req'[r].calls <= budget'[p] + req'[r].flight,
               req'[r].calls <= MaxToolCalls + most - 1
        PROVE  Counts(r)'
    BY <1>1, <2>1, <2>2, <2>3 DEF Counts
  <2>4. CASE StartTool(r)
    <3>1. /\ req'[r].pc = "tool" /\ req'[r].calls = req[r].calls + 1 /\ budget' = budget
          /\ req'[r].started = req[r].started + 1 /\ req'[r].flight = req[r].flight + 1
          /\ budget[p] < MaxToolCalls /\ req[r].started < most
      BY <1>0, <2>1, <2>4 DEF StartTool, MayCall, IsRequest, most
    <3>2. /\ req'[r].flight <= req'[r].started /\ req'[r].calls <= budget[p] + req'[r].flight
          /\ req'[r].calls <= MaxToolCalls + most - 1
      BY <1>0, <2>1, <2>2, <3>1
    <3>3. QED
      BY <2>1, <2>3, <3>1, <3>2
  <2>5. ASSUME budget' = Counted(p)
        PROVE  /\ p \in DOMAIN budget' /\ budget'[p] \in Nat
               /\ budget'[p] < MaxToolCalls => budget'[p] = budget[p] + 1 /\ budget[p] < MaxToolCalls
    BY <1>0, <2>1, <2>5 DEF Counted, MayCall
  <2>6. CASE EndTool(r)
    <3>1. /\ req'[r].pc = "tool" /\ req'[r].calls = req[r].calls
          /\ req'[r].started = req[r].started /\ req'[r].flight = req[r].flight - 1
          /\ budget' = Counted(p)
      BY <1>0, <2>1, <2>6 DEF EndTool, IsRequest
    <3>2. QED
      BY <1>0, <2>1, <2>2, <2>3, <2>5, <3>1
  <2>7. CASE TurnAway(r)
    <3>1. budget' = Counted(p) /\ req' = req
      BY <2>7 DEF TurnAway
    <3>2. QED
      BY <1>0, <2>1, <2>2, <2>3, <2>5, <3>1
  <2>8. CASE EndTurn(r)
    <3>1. /\ req'[r].pc = "thinking" /\ req'[r].calls = req[r].calls /\ req'[r].started = 0
          /\ req'[r].flight = req[r].flight /\ req[r].flight = 0 /\ budget' = budget
      BY <1>0, <2>1, <2>8 DEF EndTurn, IsRequest
    <3>2. QED
      BY <2>1, <2>2, <2>3, <3>1
  <2>9. CASE DelegateCalls(r)
    <3>1. /\ req'[r].pc = "tool" /\ req'[r].calls = req[r].calls
          /\ req'[r].started = req[r].started /\ req'[r].flight = req[r].flight
      BY <1>0, <2>9 DEF DelegateCalls, IsRequest
    <3>2. p # "child"
      BY <1>0 DEF IsRequest
    <3>3. p \in DOMAIN budget' /\ budget'[p] = budget[p]
      BY <2>1, <2>9, <3>2, ConfiguredBudget DEF DelegateCalls, NestedBudget
    <3>4. QED
      BY <2>1, <2>2, <2>3, <3>1, <3>3
  <2>10. QED
    BY <2>4, <2>6, <2>7, <2>8, <2>9 DEF ToolStep
<1>4. QED
  BY <1>1, <1>2, <1>3 DEF Counts

LEMMA AloneStep ==
  ASSUME TypeOK, AloneIsCounted, BudgetHolds, [Next]_vars
  PROVE  AloneIsCounted' /\ BudgetHolds'
<1>0. \A s \in Requests : Counts(s)
  BY DEF AloneIsCounted, BudgetHolds, Counts
<1> SUFFICES \A s \in Requests : Counts(s)'
  BY DEF AloneIsCounted, BudgetHolds, Counts
<1>1. ASSUME NEW r \in Requests, Starts(r) PROVE \A s \in Requests : Counts(s)'
  <2>1. PICK p \in Personas, mode \in Modes :
          StartStep(r, p, mode) /\ budget' = Configured(p) /\ IsState(store')
    BY <1>1, StartKinds
  <2>2. /\ req'[r].pc = "thinking" /\ req'[r].persona = p /\ req'[r].calls = 0
        /\ req'[r].started = 0 /\ req'[r].flight = 0
        /\ req'[r].alone => \A s \in Requests \ {r} : InFlight(s) => req[s].persona # p
        /\ \A s \in Requests \ {r} : Kept(s)
        /\ \A s \in Requests \ {r} : InFlight(s) /\ req[s].persona = p => ~req'[s].alone
    BY <2>1, StartEffect
  <2>3. QED
    BY <1>0, <2>1, <2>2, TakeOver
<1>2. ASSUME NEW r \in Requests, NEW answer \in Answers, CriticReruns(r, answer)
      PROVE  \A s \in Requests : Counts(s)'
  <2>1. /\ req'[r].pc = "thinking" /\ req'[r].persona = "conductor" /\ req'[r].calls = 0
        /\ req'[r].started = 0 /\ req'[r].flight = 0
        /\ req'[r].alone => \A s \in Requests \ {r} : InFlight(s) => req[s].persona # "conductor"
        /\ \A s \in Requests \ {r} : Kept(s)
        /\ \A s \in Requests \ {r} : InFlight(s) /\ req[s].persona = "conductor" => ~req'[s].alone
    BY <1>2, RerunEffect
  <2>2. budget' = Configured("conductor")
    BY <1>2 DEF CriticReruns
  <2>3. QED
    BY <1>0, <2>1, <2>2, TakeOver
<1>3. ASSUME NEW r \in Requests, RejectPlan(r) \/ Raise(r) PROVE \A s \in Requests : Counts(s)'
  <2>1. req'[r].pc = "done" /\ \A s \in Requests \ {r} : req'[s] = req[s]
    BY <1>3, EndEffect, EndedRequest
  <2>2. budget' = budget \/ (InFlight(r) /\ budget' = Cleared(req[r].persona))
    BY <1>3 DEF RejectPlan, Raise
  <2>3. QED
    BY <1>0, <2>1, <2>2, GiveUp
<1>4. ASSUME NEW r \in Requests, Answered(r) PROVE \A s \in Requests : Counts(s)'
  <2>1. /\ req'[r].pc = "done" /\ \A s \in Requests \ {r} : req'[s] = req[s]
        /\ InFlight(r) /\ budget' = Cleared(req[r].persona)
    BY <1>4, AnswerEffect, EndedRequest DEF InFlight
  <2>2. QED
    BY <1>0, <2>1, GiveUp
<1>5. CASE Restart
  <2>1. \A s \in Requests : req'[s] = IF InFlight(s) THEN Ended ELSE req[s]
    BY <1>5 DEF Restart
  <2>2. \A s \in Requests : ~InFlight(s)'
    BY <2>1, EndedRequest DEF InFlight
  <2>3. QED
    BY <2>2 DEF Counts
<1>6. CASE UNCHANGED <<req, budget>>
  BY <1>0, <1>6 DEF Counts, InFlight
<1>7. QED
  BY <1>0, <1>1, <1>2, <1>3, <1>4, <1>5, <1>6, ToolCounts, Kinds DEF vars, UploadAttachment

(* An LLM run of a session that no other request uses runs no more tools    *)
(* than its budget allows, but for the calls of a turn that pass the check  *)
(* together, whatever tools, delegations, reruns, failures and restarts     *)
(* come in between; with one tool per turn it never runs more.              *)
THEOREM BudgetsHold == Spec => []BudgetHolds
<1>1. Init => AloneIsCounted /\ BudgetHolds
  <2> SUFFICES ASSUME Init PROVE AloneIsCounted /\ BudgetHolds
    OBVIOUS
  <2>1. \A r \in Requests : req[r].pc = "new" /\ req[r].calls = 0
    BY DEF Init, NotSent
  <2>2. QED
    BY <2>1, RunsAssumption DEF AloneIsCounted, BudgetHolds, InFlight
<1>2. TypeOK /\ AloneIsCounted /\ BudgetHolds /\ [Next]_vars
        => TypeOK' /\ AloneIsCounted' /\ BudgetHolds'
  BY NextTyped, AloneStep
<1>3. QED
  BY <1>1, <1>2, InitTyped, PTL DEF Spec

-----------------------------------------------------------------------------
(* Lessons. *)

(* What fails is learned, and told to every LLM run that starts later. *)
LEMMA FailureStep ==
  ASSUME TypeOK, FailureIsLearned, FailureIsTold, [Next]_vars
  PROVE  FailureIsLearned' /\ FailureIsTold'
<1> DEFINE Told(s) == InFlight(s) /\ req[s].late => req[s].prompt.notes \cap {"lesson", "critic"} # {}
<1>0. \A s \in Requests : Told(s)
  BY DEF FailureIsTold
<1> SUFFICES FailureIsLearned' /\ \A s \in Requests : Told(s)'
  BY DEF FailureIsTold
<1> USE DEF InFlight
<1>1. ASSUME NEW r \in Requests, Starts(r) PROVE FailureIsLearned' /\ \A s \in Requests : Told(s)'
  <2>1. /\ req'[r].late = failed /\ (lessons => "lesson" \in req'[r].prompt.notes)
        /\ \A s \in Requests \ {r} : Kept(s)
        /\ UNCHANGED <<lessons, failed>>
    BY <1>1, StartKinds, StartEffect
  <2>2. Told(r)'
    BY <2>1 DEF FailureIsLearned
  <2>3. \A s \in Requests \ {r} : Told(s)'
    BY <1>0, <2>1 DEF Kept
  <2>4. QED
    BY <2>1, <2>2, <2>3 DEF FailureIsLearned
<1>2. ASSUME NEW r \in Requests, NEW answer \in Answers, CriticReruns(r, answer)
      PROVE  FailureIsLearned' /\ \A s \in Requests : Told(s)'
  <2>1. "critic" \in req'[r].prompt.notes /\ \A s \in Requests \ {r} : Kept(s)
    BY <1>2, RerunEffect
  <2>2. \A s \in Requests : Told(s)'
    BY <1>0, <2>1 DEF Kept
  <2>3. FailureIsLearned'
    BY <1>2 DEF CriticReruns, Reflect, Learned, FailureIsLearned
  <2>4. QED
    BY <2>2, <2>3
<1>3. ASSUME NEW r \in Requests, RejectPlan(r) \/ Raise(r)
      PROVE  FailureIsLearned' /\ \A s \in Requests : Told(s)'
  <2>1. \A s \in Requests : req'[s].pc = "done" \/ req'[s] = req[s]
    BY <1>3, EndEffect, EndedRequest
  <2>2. UNCHANGED <<lessons, failed>>
    BY <1>3 DEF RejectPlan, Raise
  <2>3. QED
    BY <1>0, <2>1, <2>2 DEF FailureIsLearned
<1>4. ASSUME NEW r \in Requests, Answered(r) PROVE FailureIsLearned' /\ \A s \in Requests : Told(s)'
  <2>1. \A s \in Requests : req'[s].pc = "done" \/ req'[s] = req[s]
    BY <1>4, AnswerEffect, EndedRequest
  <2>2. FailureIsLearned'
    BY <1>4 DEF Answered, PlanAnswered, WorkerAnswered, ConductorAnswered, Reflect, Learned,
                FailureIsLearned
  <2>3. QED
    BY <1>0, <2>1, <2>2
<1>5. ASSUME NEW r \in Requests, ToolStep(r) PROVE FailureIsLearned' /\ \A s \in Requests : Told(s)'
  <2>1. \A s \in Requests : /\ req'[s].prompt = req[s].prompt /\ req'[s].late = req[s].late
                            /\ InFlight(s)' => InFlight(s)
    BY <1>5, ToolEffect
  <2>2. QED
    BY <1>0, <1>5, <2>1, ToolEffect DEF FailureIsLearned
<1>6. CASE Restart
  <2>1. \A s \in Requests : req'[s] = IF InFlight(s) THEN Ended ELSE req[s]
    BY <1>6 DEF Restart
  <2>2. \A s \in Requests : ~InFlight(s)'
    BY <2>1, EndedRequest
  <2>3. FailureIsLearned'
    BY <1>6 DEF Restart, FailureIsLearned
  <2>4. QED
    BY <2>2, <2>3
<1>7. CASE UNCHANGED <<req, lessons, failed>>
  BY <1>0, <1>7 DEF FailureIsLearned
<1>8. QED
  BY <1>1, <1>2, <1>3, <1>4, <1>5, <1>6, <1>7, Kinds DEF vars, UploadAttachment

(* Once a trace of the run has failed, every LLM run of it that starts     *)
(* later has a note on the failure in its prompt, until the API restarts.  *)
THEOREM FailuresAreTold == Spec => []FailureIsTold
<1>1. Init => FailureIsLearned /\ FailureIsTold
  <2> SUFFICES ASSUME Init PROVE FailureIsLearned /\ FailureIsTold
    OBVIOUS
  <2>1. \A r \in Requests : req[r].pc = "new"
    BY DEF Init, NotSent
  <2>2. QED
    BY <2>1 DEF Init, FailureIsLearned, FailureIsTold, InFlight
<1>2. TypeOK /\ FailureIsLearned /\ FailureIsTold /\ [Next]_vars
        => TypeOK' /\ FailureIsLearned' /\ FailureIsTold'
  BY NextTyped, FailureStep
<1>3. QED
  BY <1>1, <1>2, InitTyped, PTL DEF Spec

-----------------------------------------------------------------------------
(* Attachments and todos: what the copies of the run state have of them. *)

Copies == CopiesExist /\ CopiesHaveFiles /\ CopiesAgree /\ AttachmentsKept /\ TodosAgree

(* The todo store and the stored run state agree. *)
Agreed == todoStore = store.todos \/ (restarts > 0 /\ todoStore = NoTodos)

LEMMA CopiesStep ==
  ASSUME TypeOK, Copies, [Next]_vars
  PROVE  Copies'
<1>0. /\ CopiesExist /\ CopiesHaveFiles /\ CopiesAgree /\ AttachmentsKept /\ TodosAgree
      /\ restarts \in Nat
  BY DEF Copies, TypeOK
<1> USE DEF InFlight
<1>1. ASSUME NEW r \in Requests, Starts(r) PROVE Copies'
  <2>1. /\ store'.exists /\ restarts' = restarts
        /\ req[r].pc = "new" /\ req'[r].pc = "thinking"
        /\ req'[r].state.exists /\ req'[r].state.files = store'.files
        /\ req'[r].state.todos = store'.todos
        /\ \A s \in Requests \ {r} : Kept(s)
        /\ (trouble' = trouble /\ \A s \in Requests \ {r} : ~InFlight(s))
             \/ trouble' = trouble \cup {"overlap"}
    BY <1>1, StartKinds, StartEffect
  <2>2. \A s \in Requests \ {r} : /\ InFlight(s)' <=> InFlight(s)
                                  /\ req'[s].state = req[s].state
    BY <2>1 DEF Kept
  <2>3. CopiesExist'
    BY <1>0, <2>1, <2>2 DEF CopiesExist
  <2>4. "reject" \in trouble' <=> "reject" \in trouble
    BY <2>1
  <2>5. AttachmentsKept' /\ CopiesHaveFiles'
    <3>1. CASE ~store.exists
      <4>1. store'.files = calm' /\ \A s \in Requests : ~InFlight(s)
        BY <1>0, <1>1, <3>1, StartKinds DEF CopiesExist
      <4>2. QED
        BY <2>1, <2>2, <4>1 DEF AttachmentsKept, CopiesHaveFiles
    <3>2. CASE store.exists
      <4>1. store'.files = store.files /\ calm' = calm
        BY <1>1, <3>2, StartKinds
      <4>2. QED
        BY <1>0, <2>1, <2>2, <2>4, <4>1 DEF AttachmentsKept, CopiesHaveFiles
    <3>3. QED
      BY <3>1, <3>2
  <2>6. CopiesAgree' /\ TodosAgree'
    <3>1. ~Quiet'
      BY <2>1 DEF Quiet
    <3>2. ASSUME trouble' = {}
          PROVE  /\ \A s \in Requests : InFlight(s)' => s = r
                 /\ Agreed'
      <4>1. trouble = {} /\ \A s \in Requests : ~InFlight(s)
        BY <2>1, <3>2
      <4>2. Agreed
        BY <1>0, <4>1 DEF TodosAgree, Quiet, Agreed
      <4>3. Agreed'
        BY <1>0, <1>1, <2>1, <4>2, StartKinds DEF CopiesAgree, Agreed
      <4>4. QED
        BY <2>2, <4>1, <4>3
    <3>3. QED
      BY <2>1, <3>1, <3>2 DEF CopiesAgree, TodosAgree, Agreed
  <2>7. QED
    BY <2>3, <2>5, <2>6 DEF Copies
<1>2. ASSUME NEW r \in Requests, NEW answer \in Answers, CriticReruns(r, answer) PROVE Copies'
  <2>1. /\ InFlight(r) /\ InFlight(r)'
        /\ req'[r].state.exists = req[r].state.exists
        /\ req'[r].state.files = req[r].state.files
        /\ req'[r].state.todos = todoStore'
        /\ \A s \in Requests \ {r} : Kept(s)
    BY <1>2, RerunEffect DEF ConductorAnswers
  <2>2. UNCHANGED <<store, calm, trouble, restarts>>
    BY <1>2 DEF CriticReruns
  <2>3. /\ \A s \in Requests : InFlight(s)' <=> InFlight(s)
        /\ \A s \in Requests \ {r} : req'[s].state = req[s].state
    BY <2>1 DEF Kept
  <2>4. CopiesExist' /\ CopiesHaveFiles' /\ AttachmentsKept'
    BY <1>0, <2>1, <2>2, <2>3 DEF CopiesExist, CopiesHaveFiles, AttachmentsKept
  <2>5. store.exists /\ ~Quiet'
    BY <1>0, <2>1 DEF CopiesExist, Quiet
  <2>6. CopiesAgree' /\ TodosAgree'
    BY <1>0, <2>1, <2>2, <2>3, <2>5 DEF CopiesAgree, TodosAgree
  <2>7. QED
    BY <2>4, <2>6 DEF Copies
<1>3. ASSUME NEW r \in Requests, RejectPlan(r) \/ Raise(r) PROVE Copies'
  <2>1. \A s \in Requests : req'[s].pc = "done" \/ req'[s] = req[s]
    BY <1>3, EndEffect, EndedRequest
  <2>2. trouble' # {} /\ ("reject" \in trouble => "reject" \in trouble')
    BY <1>3 DEF RejectPlan, Raise
  <2>3. store'.exists \/ (store' = store /\ Raise(r))
    BY <1>3 DEF RejectPlan, Raise, NoRun
  <2>4. "reject" \in trouble' \/ (store' = store /\ calm' = calm)
    BY <1>3 DEF RejectPlan, Raise
  <2>5. todoStore' = todoStore /\ restarts' = restarts /\ calm' = calm
    BY <1>3 DEF RejectPlan, Raise
  <2>6. CopiesExist'
    BY <1>0, <2>1, <2>3 DEF CopiesExist
  <2>7. CopiesHaveFiles' /\ AttachmentsKept'
    BY <1>0, <2>1, <2>2, <2>4, <2>5 DEF CopiesHaveFiles, AttachmentsKept
  <2>8. CopiesAgree' /\ TodosAgree'
    BY <1>0, <2>2, <2>3, <2>5 DEF CopiesAgree, TodosAgree
  <2>9. QED
    BY <2>6, <2>7, <2>8 DEF Copies
<1>4. ASSUME NEW r \in Requests, Answered(r) PROVE Copies'
  <2>1. /\ InFlight(r) /\ ~InFlight(r)' /\ \A s \in Requests \ {r} : req'[s] = req[s]
        /\ store'.exists = req[r].state.exists /\ store'.files = req[r].state.files
        /\ \/ store'.todos = todoStore'
           \/ store'.todos = req[r].state.todos /\ todoStore' = todoStore
        /\ UNCHANGED <<calm, trouble, restarts>>
    BY <1>4, AnswerEffect, EndedRequest
  <2>2. store'.exists
    BY <1>0, <2>1 DEF CopiesExist
  <2>3. CopiesExist' /\ CopiesHaveFiles' /\ AttachmentsKept'
    BY <1>0, <2>1, <2>2 DEF CopiesExist, CopiesHaveFiles, AttachmentsKept
  <2>4. ASSUME trouble = {} PROVE Quiet' /\ Agreed'
    BY <1>0, <2>1, <2>4 DEF CopiesAgree, Quiet, Agreed
  <2>5. CopiesAgree' /\ TodosAgree'
    BY <2>1, <2>2, <2>4 DEF CopiesAgree, TodosAgree, Agreed, Quiet
  <2>6. QED
    BY <2>3, <2>5 DEF Copies
<1>5. ASSUME NEW r \in Requests, ToolStep(r) PROVE Copies'
  <2>1. /\ \A s \in Requests : req'[s].state = req[s].state /\ (InFlight(s)' <=> InFlight(s))
        /\ UNCHANGED <<store, todoStore, calm, trouble, restarts>>
    BY <1>5, ToolEffect
  <2>2. QED
    BY <1>0, <2>1 DEF Copies, CopiesExist, CopiesHaveFiles, CopiesAgree, AttachmentsKept,
                      TodosAgree, Quiet
<1>6. ASSUME NEW f \in Files, UploadAttachment(f) PROVE Copies'
  <2>1. /\ store'.exists /\ store'.todos = store.todos /\ store'.files = store.files \cup {f}
        /\ UNCHANGED <<req, todoStore, trouble, restarts>>
    BY <1>6, UploadEffect DEF UploadAttachment
  <2>2. calm' = calm \/ (Quiet /\ calm' = calm \cup {f})
    BY <1>6 DEF UploadAttachment
  <2>3. CopiesExist' /\ CopiesHaveFiles' /\ AttachmentsKept'
    BY <1>0, <2>1, <2>2 DEF CopiesExist, CopiesHaveFiles, AttachmentsKept, Quiet
  <2>4. CopiesAgree' /\ TodosAgree'
    BY <1>0, <2>1 DEF CopiesAgree, TodosAgree, Quiet
  <2>5. QED
    BY <2>3, <2>4 DEF Copies
<1>7. CASE Restart
  <2>1. \A s \in Requests : req'[s] = IF InFlight(s) THEN Ended ELSE req[s]
    BY <1>7 DEF Restart
  <2>2. \A s \in Requests : ~InFlight(s)'
    BY <2>1, EndedRequest
  <2>3. /\ UNCHANGED <<store, calm, trouble>> /\ todoStore' = NoTodos /\ restarts' = restarts + 1
    BY <1>7 DEF Restart
  <2>4. restarts' > 0
    BY <1>0, <2>3
  <2>5. QED
    BY <1>0, <2>2, <2>3, <2>4 DEF Copies, CopiesExist, CopiesHaveFiles, CopiesAgree,
                                  AttachmentsKept, TodosAgree
<1>8. CASE UNCHANGED vars
  BY <1>0, <1>8 DEF vars, Copies, CopiesExist, CopiesHaveFiles, CopiesAgree, AttachmentsKept,
                    TodosAgree, Quiet
<1>9. QED
  BY <1>1, <1>2, <1>3, <1>4, <1>5, <1>6, <1>7, <1>8, Kinds

LEMMA InitCopies == Init => Copies
<1> SUFFICES ASSUME Init PROVE Copies
  OBVIOUS
<1>1. /\ \A r \in Requests : req[r].pc = "new"
      /\ store.todos = NoTodos /\ todoStore = NoTodos /\ calm = {}
  BY DEF Init, NotSent, NoRun
<1>2. QED
  BY <1>1 DEF Copies, CopiesExist, CopiesHaveFiles, CopiesAgree, AttachmentsKept, TodosAgree,
              InFlight

(* A file that was uploaded while no LLM was running stays attached until  *)
(* the plan is rejected, although every step writes back the whole state   *)
(* that it read before its LLM ran.                                        *)
THEOREM AttachmentsAreKept == Spec => []AttachmentsKept
<1>1. Copies => AttachmentsKept
  BY DEF Copies
<1>2. TypeOK /\ Copies /\ [Next]_vars => TypeOK' /\ Copies'
  BY NextTyped, CopiesStep
<1>3. QED
  BY <1>1, <1>2, InitTyped, InitCopies, PTL DEF Spec

(* Between requests that did not overlap, fail or reject a plan, the todo  *)
(* store has the todos of the stored state, or none since a restart.       *)
THEOREM TodosAlwaysAgree == Spec => []TodosAgree
<1>1. Copies => TodosAgree
  BY DEF Copies
<1>2. TypeOK /\ Copies /\ [Next]_vars => TypeOK' /\ Copies'
  BY NextTyped, CopiesStep
<1>3. QED
  BY <1>1, <1>2, InitTyped, InitCopies, PTL DEF Spec
==============================================================================
