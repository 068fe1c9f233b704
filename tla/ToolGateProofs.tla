--------------------------- MODULE ToolGateProofs ---------------------------
(***************************************************************************)
(* Proofs about ToolGate, for every number of concurrent calls, every set  *)
(* of tools and every limit: the rules of the turn hold, an approved call  *)
(* is not turned away, and the budget, the sliding window and the depth of *)
(* high-risk chains are bounded. The parts of the inductive invariant say  *)
(* what each counter stands for: the turn's counter is at least the number *)
(* of actions started, reasoning_done implies that a reasoning_step has    *)
(* returned, a chain's counter is the length of the row it bounds, what    *)
(* ran is counted by the budget or in flight, and a bucket is the tail of  *)
(* the tool's passes that the window still covers.                         *)
(***************************************************************************)
EXTENDS ToolGate, FiniteSetTheorems, TLAPS

Typed ==
    /\ setup \in AllSetups
    /\ count \in Nat /\ since \in Nat /\ acted \in Nat
    /\ reasoned \in BOOLEAN /\ thought \in BOOLEAN
    /\ chain \in [Places -> Nat] /\ row \in [Places -> Nat]

Counted == setup.discipline # "none" => since <= count /\ since <= 1

Thought ==
    setup.discipline = "sgr" =>
        (reasoned => thought) /\ (setup.required /\ acted > 0 => thought)

Chained == \A p \in Places : row[p] = chain[p] /\ chain[p] <= MaxChain

Inv == Typed /\ Counted /\ Thought /\ Chained

\* What the properties are about, and the steps that leave it alone.
turnState == <<setup, count, since, acted, reasoned, thought>>
chainState == <<chain, row>>

\* A step that changes neither keeps the invariant.
LEMMA Frame == ASSUME Inv, UNCHANGED <<turnState, chainState>> PROVE Inv'
  BY DEF Inv, Typed, Counted, Thought, Chained, turnState, chainState

\* The rule of the turn lets an action start only when none was started since the
\* counter's reset and, where SGR requires it, only after a reasoning step.
LEMMA RuleIsStrict ==
    ASSUME Typed, Counted, Thought, NEW tool
    PROVE  /\ Raised(tool) \in Nat
           /\ Raised(tool) >= count
           /\ setup.discipline # "none" /\ MayRun(tool) /\ IsAction(tool)
                 => since = 0 /\ Raised(tool) = 1
           /\ setup.discipline = "sgr" /\ setup.required /\ MayRun(tool) /\ IsAction(tool)
                 => thought
  <1>1. setup.discipline \in {"none", "one", "sgr"} /\ count \in Nat /\ since \in Nat
    BY DEF Typed, AllSetups
  <1>2. Raised(tool) \in Nat /\ Raised(tool) >= count
    BY <1>1 DEF Raised
  <1>3. ASSUME setup.discipline # "none", MayRun(tool), IsAction(tool)
        PROVE  since = 0 /\ Raised(tool) = 1
    BY <1>1, <1>3 DEF Counted, Raised, MayRun, IsAction
  <1>4. ASSUME setup.discipline = "sgr", setup.required, MayRun(tool), IsAction(tool) PROVE thought
    BY <1>4 DEF Thought, MayRun, Prepared, IsAction
  <1>. QED BY <1>2, <1>3, <1>4

\* A call that passes the limiter and the approval keeps the turn's rules.
LEMMA DispatchKeeps ==
    ASSUME Inv, NEW c \in Calls, Dispatch(c), UNCHANGED <<setup, reasoned, thought, chainState>>
    PROVE  Inv'
  <1>. DEFINE raised == Raised(Tool(c))
              starts == MayRun(Tool(c)) /\ IsAction(Tool(c))
  <1>1. /\ raised \in Nat /\ raised >= count
        /\ setup.discipline # "none" /\ starts => since = 0 /\ raised = 1
        /\ setup.discipline = "sgr" /\ setup.required /\ starts => thought
    BY RuleIsStrict DEF Inv
  <1>2. /\ count' = raised
        /\ \/ acted' = acted /\ since' = since
           \/ starts /\ acted' = acted + 1 /\ since' = since + 1
    BY DEF Dispatch
  <1>. HIDE DEF raised, starts
  <1>3. Typed'
    BY <1>1, <1>2 DEF Inv, Typed, chainState
  <1>4. Counted'
    BY <1>1, <1>2 DEF Inv, Typed, Counted
  <1>5. Thought'
    BY <1>1, <1>2 DEF Inv, Typed, Thought
  <1>6. Chained'
    BY DEF Inv, Chained, chainState
  <1>. QED BY <1>3, <1>4, <1>5, <1>6 DEF Inv

\* InvokeTool keeps the length of the row and its bound.
LEMMA InvokeKeeps ==
    ASSUME Inv, NEW p \in Places, NEW tool, InvokeTool(p, tool), UNCHANGED turnState
    PROVE  Inv'
  <1>0. MaxChain \in Nat \ {0}
    BY ToolGateAssumption
  <1>1. CASE ~CheckToolChain(p, tool)
    BY <1>1, Frame DEF InvokeTool, chainState
  <1>2. CASE CheckToolChain(p, tool) /\ IsHighRisk(tool)
    <2>1. /\ chain' = [chain EXCEPT ![p] = @ + 1]
          /\ row' = [row EXCEPT ![p] = @ + 1]
          /\ chain[p] < MaxChain
      BY <1>2 DEF InvokeTool, CheckToolChain
    <2>2. Typed' /\ Counted' /\ Thought'
      BY <2>1 DEF Inv, Typed, Counted, Thought, turnState
    <2>3. Chained'
      BY <2>1, <1>0 DEF Inv, Typed, Chained
    <2>. QED BY <2>2, <2>3 DEF Inv
  <1>3. CASE CheckToolChain(p, tool) /\ ~IsHighRisk(tool)
    <2>1. /\ chain' = [chain EXCEPT ![p] = 0]
          /\ row' = [row EXCEPT ![p] = 0]
      BY <1>3 DEF InvokeTool
    <2>2. Typed' /\ Counted' /\ Thought'
      BY <2>1 DEF Inv, Typed, Counted, Thought, turnState
    <2>3. Chained'
      BY <2>1, <1>0 DEF Inv, Typed, Chained
    <2>. QED BY <2>2, <2>3 DEF Inv
  <1>. QED BY <1>1, <1>2, <1>3

\* The initial states satisfy the invariant.
THEOREM InitInv == Init => Inv
  <1>. SUFFICES ASSUME Init PROVE Inv
    OBVIOUS
  <1>0. MaxChain \in Nat
    BY ToolGateAssumption
  <1>1. Typed
    BY ToolGateAssumption DEF Init, Typed
  <1>2. Counted /\ Thought
    BY DEF Init, Counted, Thought
  <1>3. Chained
    BY <1>0 DEF Init, Chained
  <1>. QED BY <1>1, <1>2, <1>3 DEF Inv

\* Every step keeps it.
THEOREM NextInv == Inv /\ [Next]_vars => Inv'
  <1>. SUFFICES ASSUME Inv, [Next]_vars PROVE Inv'
    OBVIOUS
  <1>1. CASE UNCHANGED vars
    BY <1>1, Frame DEF vars, control, limits, history, turnState, chainState
  <1>2. ASSUME NEW tools \in [Calls -> Tools \cup {NoTool}], ModelCall(tools) PROVE Inv'
    <2>1. /\ UNCHANGED <<setup, chain, row>>
          /\ count' = 0 /\ reasoned' = FALSE /\ acted' = 0 /\ since' = 0 /\ thought' = FALSE
      BY <1>2 DEF ModelCall, ResetTurn, limits
    <2>2. Typed'
      BY <2>1 DEF Inv, Typed
    <2>3. Counted' /\ Thought' /\ Chained'
      BY <2>1 DEF Inv, Counted, Thought, Chained
    <2>. QED BY <2>2, <2>3 DEF Inv
  <1>3. ASSUME NEW c \in Calls, Limit(c) PROVE Inv'
    <2>1. UNCHANGED <<setup, reasoned, thought, chainState>>
      BY <1>3 DEF Limit, chainState
    <2>2. CASE Dispatch(c)
      BY <2>1, <2>2, DispatchKeeps
    <2>3. CASE UNCHANGED <<count, acted, since>>
      BY <2>1, <2>3, Frame DEF turnState
    <2>. QED BY <1>3, <2>2, <2>3 DEF Limit
  <1>4. ASSUME NEW c \in Calls, NEW valid \in BOOLEAN, Return(c, valid) PROVE Inv'
    <2>1. /\ UNCHANGED <<setup, count, since, acted, chain, row>>
          /\ reasoned' = (reasoned \/ (Tool(c) = Reasoning /\ valid))
          /\ thought' = (thought \/ (Tool(c) = Reasoning /\ valid))
      BY <1>4 DEF Return
    <2>2. Typed' /\ Counted' /\ Chained'
      BY <2>1 DEF Inv, Typed, Counted, Chained
    <2>3. Thought'
      BY <2>1 DEF Inv, Typed, Thought
    <2>. QED BY <2>2, <2>3 DEF Inv
  <1>5. ASSUME NEW c \in Calls, LocalInvoke(c) PROVE Inv'
    BY <1>5, InvokeKeeps DEF LocalInvoke, turnState, Places
  <1>6. ASSUME NEW request \in wire, Serve(request) PROVE Inv'
    BY <1>6, InvokeKeeps DEF Serve, turnState, Places
  <1>7. CASE Aresume
    <2>1. /\ setup' = [setup EXCEPT !.gateway = FALSE] /\ UNCHANGED <<acted, thought, chain, row>>
          /\ count' = 0 /\ reasoned' = FALSE /\ since' = 0
      BY <1>7 DEF Aresume, NewMiddlewares
    <2>2. setup' \in AllSetups /\ setup'.discipline = setup.discipline
          /\ setup'.required = setup.required
      BY <2>1 DEF Inv, Typed, AllSetups
    <2>3. Typed'
      BY <2>1, <2>2 DEF Inv, Typed
    <2>4. Counted' /\ Thought' /\ Chained'
      BY <2>1, <2>2 DEF Inv, Counted, Thought, Chained
    <2>. QED BY <2>3, <2>4 DEF Inv
  <1>8. ASSUME NEW c \in Calls, (\E blocked \in BOOLEAN : Enter(c, blocked)) \/ LoseAnswer(c) \/ Fail(c) PROVE Inv'
    BY <1>8, Frame DEF Enter, LoseAnswer, Fail, limits, history, turnState, chainState
  <1>9. CASE Answer \/ EndTurn \/ Reject \/ Tick
    BY <1>9, Frame DEF Answer, EndTurn, Reject, Tick, control, limits, history, turnState, chainState
  <1>. QED BY <1>1, <1>2, <1>3, <1>4, <1>5, <1>6, <1>7, <1>8, <1>9 DEF Next, CallStep

\* One tool per turn (one action under SGR) between two answers or an approval.
THEOREM TurnRuleHolds == Spec => []ActionsPerTurn
  <1>1. Inv => ActionsPerTurn
    BY DEF Inv, Counted, ActionsPerTurn
  <1>. QED BY InitInv, NextInv, <1>1, PTL DEF Spec

\* Under SGR every action is preceded by a reasoning step of its turn, where the policy
\* requires one.
THEOREM ReasoningHolds == Spec => []ReasonedFirst
  <1>1. Inv => ReasonedFirst
    BY DEF Inv, Thought, ReasonedFirst
  <1>. QED BY InitInv, NextInv, <1>1, PTL DEF Spec

\* No process runs more high-risk tools in a row than the limit.
THEOREM ChainHolds == Spec => []ChainBound
  <1>1. Inv => ChainBound
    BY DEF Inv, Typed, Chained, ChainBound
  <1>. QED BY InitInv, NextInv, <1>1, PTL DEF Spec

(***************************************************************************)
(* The calls of a turn: which of them are under way and which are          *)
(* approved, and what the budget and the limiter have counted of them.     *)
(***************************************************************************)
CallsTyped ==
    /\ call \in [Calls -> [tool : Tools \cup {NoTool}, at : Ats, approved : BOOLEAN]]
    /\ \A c \in Calls : ~At(c, "idle") => Tool(c) \in Tools
    /\ \A request \in wire : request[1] \in Calls
    /\ used \in Nat \cup {Unbudgeted} /\ executed \in Nat
    /\ clock \in Nat /\ bucket \in [Tools -> Seq(Nat)] /\ passed \in [Tools -> Seq(Nat)]

\* No call is under way while the model answers or a person decides.
Settled ==
    /\ status \in {"model", "paused"} => \A c \in Calls : call[c].at \in {"idle", "done", "paused"}
    /\ status = "model" => \A c \in Calls : ~At(c, "paused")

\* One call of a turn may need an approval; when it is approved it is the last one left,
\* and finds the counter of the turn at 0.
Approved ==
    /\ \A c, d \in Calls : c # d /\ ~At(c, "idle") /\ ~At(d, "idle")
                              => ~NeedsApproval(Tool(c)) \/ ~NeedsApproval(Tool(d))
    /\ \A c \in Calls : At(c, "paused") \/ call[c].approved => ~At(c, "idle") /\ NeedsApproval(Tool(c))
    /\ \A c \in Calls : call[c].approved =>
          /\ ~At(c, "paused") /\ \A d \in Calls \ {c} : call[d].at \in {"idle", "done"}
          /\ call[c].at \in {"new", "checked"} => count = 0
    /\ setup.discipline # "sgr" => ~denied

Checked == {c \in Calls : At(c, "checked")}
InFlight == {c \in Calls : call[c].at \in {"running", "served", "fallback", "answered"}}
Budgeted == used # Unbudgeted

\* What ran is counted or in flight; once the budget is used up, what is left to run has
\* passed the check before.
Budget ==
    /\ Budgeted /\ ~Exhausted => executed <= used + Cardinality(InFlight)
    /\ Exhausted => executed + Cardinality(Checked) <= MaxToolCalls + Cardinality(Calls) - 1
    /\ ~Budgeted => executed <= MaxToolCalls + Cardinality(Calls) - 1

\* With one tool per turn nothing is started in a turn in which a call has been counted.
OneBudget ==
    setup.discipline = "one" =>
        /\ executed <= MaxToolCalls
        /\ Budgeted /\ InFlight # {} => count > 0
        /\ Budgeted /\ ~Exhausted => executed <= used + 1 /\ (InFlight = {} => executed <= used)
        /\ Exhausted /\ Checked # {} => count > 0

\* The kinds of step, as far as calls, budget and approvals are concerned.
Goes(c, at) ==
    /\ call'[c].at = at /\ call'[c].tool = call[c].tool /\ call'[c].approved = call[c].approved
    /\ \A d \in Calls \ {c} : call'[d] = call[d]
InTurn == status = "tools" /\ UNCHANGED <<status, setup>>

Rests ==
    /\ UNCHANGED <<call, setup, count, used, executed, denied>>
    /\ \/ status' = status
       \/ status' = "over"
       \/ /\ \A c \in Calls : call[c].at \in {"idle", "done", "paused"}
          /\ status' = "model" => \A c \in Calls : ~At(c, "paused")
Asks ==
    /\ status = "model" /\ status' = "tools" /\ count' = 0
    /\ UNCHANGED <<setup, used, executed, denied>>
    /\ \A c \in Calls : call'[c].at \in {"idle", "new"} /\ ~call'[c].approved
    /\ \A c, d \in Calls : c # d /\ call'[c].at # "idle" /\ call'[d].at # "idle"
                              => ~NeedsApproval(call'[c].tool) \/ ~NeedsApproval(call'[d].tool)
Enters(c) ==
    /\ InTurn /\ At(c, "new") /\ UNCHANGED <<count, used, executed, denied>>
    /\ Goes(c, "done") \/ (Goes(c, "checked") /\ ~Exhausted)
Starts(c) ==
    /\ InTurn /\ At(c, "checked") /\ MayRun(Tool(c)) /\ Goes(c, "running")
    /\ count' = Raised(Tool(c)) /\ executed' = IF Budgeted THEN executed + 1 ELSE executed
    /\ UNCHANGED <<used, denied>>
TurnedAway(c) ==
    /\ InTurn /\ At(c, "checked") /\ ~MayRun(Tool(c)) /\ Goes(c, "done")
    /\ count' = Raised(Tool(c)) /\ used' = Recorded /\ denied' = (denied \/ call[c].approved)
    /\ UNCHANGED executed
Stopped(c) ==
    /\ InTurn /\ At(c, "checked") /\ UNCHANGED <<count, used, executed, denied>>
    /\ Goes(c, "done") \/ (Goes(c, "paused") /\ NeedsApproval(Tool(c)) /\ ~call[c].approved)
Flies(c) ==
    /\ c \in InFlight /\ UNCHANGED <<status, setup, count, used, executed, denied>>
    /\ \E at \in {"served", "fallback", "answered"} : Goes(c, at)
Returns(c) ==
    /\ InTurn /\ c \in InFlight /\ Goes(c, "done") /\ used' = Recorded
    /\ UNCHANGED <<count, executed, denied>>
Resumes ==
    /\ status = "paused" /\ status' = "tools" /\ count' = 0 /\ used' = Unbudgeted
    /\ UNCHANGED <<executed, denied>>
    /\ setup'.discipline = setup.discipline /\ setup'.threshold = setup.threshold
    /\ \A c \in Calls :
          /\ call'[c].tool = call[c].tool
          /\ ~At(c, "paused") => call'[c] = call[c]
          /\ At(c, "paused") => call'[c].at = "new" /\ call'[c].approved
Moves ==
    \/ Rests \/ Asks \/ Resumes
    \/ \E c \in Calls : \/ Enters(c) \/ Starts(c) \/ TurnedAway(c) \/ Stopped(c)
                        \/ Flies(c) \/ Returns(c)

TypedCalls == [Calls -> [tool : Tools \cup {NoTool}, at : Ats, approved : BOOLEAN]]

LEMMA PutEffect ==
    ASSUME CallsTyped, NEW c \in Calls, NEW at \in Ats, call' = Put(c, at)
    PROVE  call' \in TypedCalls /\ Goes(c, at)
  BY DEF CallsTyped, Put, Goes, TypedCalls

\* The window is what is left of the bucket without its first elements.
Expired(tool) ==
    {i \in DOMAIN bucket[tool] : IF setup.limiter = "memory" THEN clock - bucket[tool][i] > Window
                                 ELSE bucket[tool][i] <= clock - Window}

LEMMA WindowIsSuffix ==
    ASSUME CallsTyped, NEW tool \in Tools
    PROVE  /\ Cardinality(Expired(tool)) \in 0..Len(bucket[tool])
           /\ InWindow(tool) = SubSeq(bucket[tool], Cardinality(Expired(tool)) + 1, Len(bucket[tool]))
           /\ InWindow(tool) \in Seq(Nat)
  <1>. DEFINE times == bucket[tool]
              n == Cardinality(Expired(tool))
  <1>1. times \in Seq(Nat) /\ Len(times) \in Nat /\ DOMAIN times = 1..Len(times)
    BY DEF CallsTyped
  <1>2. Expired(tool) \in SUBSET (1..Len(times))
    BY <1>1 DEF Expired
  <1>3. IsFiniteSet(1..Len(times)) /\ Cardinality(1..Len(times)) = Len(times)
    BY <1>1, FS_Interval
  <1>4. n \in Nat /\ n <= Len(times)
    BY <1>2, <1>3, FS_Subset, FS_CardinalityType
  <1>5. InWindow(tool) = SubSeq(times, n + 1, Len(times))
    BY DEF InWindow, Expired
  <1>. HIDE DEF times, n
  <1>6. n \in 0..Len(times) /\ SubSeq(times, n + 1, Len(times)) \in Seq(Nat)
    BY <1>1, <1>4
  <1>. QED BY <1>5, <1>6 DEF times, n

LEMMA LimitedTyped ==
    ASSUME CallsTyped, NEW tool \in Tools
    PROVE  Limited(tool).bucket \in Seq(Nat)
  <1>. DEFINE kept == InWindow(tool)
  <1>1. kept \in Seq(Nat) /\ Append(kept, clock) \in Seq(Nat)
    BY WindowIsSuffix DEF CallsTyped
  <1>2. Limited(tool).bucket \in {kept, Append(kept, clock)}
    BY DEF Limited
  <1>. QED BY <1>1, <1>2

\* What the limiter and the approval make of a call that has passed the budget.
LEMMA LimitMoves ==
    ASSUME CallsTyped, NEW c \in Calls, Limit(c)
    PROVE  CallsTyped' /\ (Starts(c) \/ TurnedAway(c) \/ Stopped(c))
  <1>. DEFINE limited == Limited(Tool(c))
              go == limited.allow /\ (NeedsApproval(Tool(c)) => setup.stage # "dev" /\ call[c].approved)
  <1>1. /\ status = "tools" /\ At(c, "checked") /\ UNCHANGED <<status, setup, clock>>
        /\ bucket' = [bucket EXCEPT ![Tool(c)] = limited.bucket]
        /\ passed' = passed \/ passed' = [passed EXCEPT ![Tool(c)] = Append(@, clock)]
    BY DEF Limit
  <1>2. Tool(c) \in Tools
    BY <1>1 DEF CallsTyped, At
  <1>3. bucket' \in [Tools -> Seq(Nat)]
    BY <1>1, <1>2, LimitedTyped DEF CallsTyped
  <1>4. passed' \in [Tools -> Seq(Nat)]
    <2>. DEFINE longer == Append(passed[Tool(c)], clock)
    <2>1. passed \in [Tools -> Seq(Nat)] /\ longer \in Seq(Nat)
      BY <1>2 DEF CallsTyped
    <2>2. passed' = passed \/ passed' = [passed EXCEPT ![Tool(c)] = longer]
      BY <1>1, <1>2, <2>1
    <2>. HIDE DEF longer
    <2>. QED BY <1>2, <2>1, <2>2
  <1>5. CASE go /\ MayRun(Tool(c))
    <2>1. /\ call' = Put(c, "running") /\ count' = Raised(Tool(c)) /\ UNCHANGED <<used, denied>>
          /\ wire' \in {wire, wire \cup {<<c, turn, Tool(c)>>}}
          /\ executed' = IF Budgeted THEN executed + 1 ELSE executed
      BY <1>5 DEF Limit, Dispatch, Budgeted
    <2>2. call' \in TypedCalls /\ Goes(c, "running")
      BY <2>1, PutEffect DEF Ats
    <2>3. Starts(c)
      BY <1>1, <1>5, <2>1, <2>2 DEF Starts, InTurn
    <2>4. executed' \in Nat
      BY <2>1 DEF CallsTyped
    <2>5. \A request \in wire' : request[1] \in Calls
      BY <2>1 DEF CallsTyped
    <2>6. \A d \in Calls : call'[d].at # "idle" => call'[d].tool \in Tools
      BY <1>2, <2>2 DEF CallsTyped, Goes, At, Tool
    <2>7. CallsTyped'
      BY <1>1, <1>3, <1>4, <2>1, <2>2, <2>4, <2>5, <2>6 DEF CallsTyped, TypedCalls, At, Tool
    <2>. QED BY <2>3, <2>7
  <1>6. CASE go /\ ~MayRun(Tool(c))
    <2>1. /\ call' = Put(c, "done") /\ count' = Raised(Tool(c)) /\ used' = Recorded
          /\ denied' = (denied \/ call[c].approved) /\ UNCHANGED <<wire, executed>>
      BY <1>6 DEF Limit, Dispatch
    <2>2. call' \in TypedCalls /\ Goes(c, "done")
      BY <2>1, PutEffect DEF Ats
    <2>3. TurnedAway(c)
      BY <1>1, <1>6, <2>1, <2>2 DEF TurnedAway, InTurn
    <2>4. used' \in Nat \cup {Unbudgeted}
      BY <2>1 DEF CallsTyped, Recorded
    <2>5. CallsTyped'
      BY <1>1, <1>2, <1>3, <1>4, <2>1, <2>2, <2>4 DEF CallsTyped, TypedCalls, Goes, At, Tool
    <2>. QED BY <2>3, <2>5
  <1>7. CASE ~go
    <2>1. /\ call' = Put(c, IF limited.allow /\ setup.stage # "dev" THEN "paused" ELSE "done")
          /\ UNCHANGED <<count, wire, executed, used, denied>>
      BY <1>7 DEF Limit
    <2>2. \/ call' = Put(c, "done")
          \/ call' = Put(c, "paused") /\ NeedsApproval(Tool(c)) /\ ~call[c].approved
      BY <1>7, <2>1
    <2>3. /\ call' \in TypedCalls
          /\ Goes(c, "done") \/ (Goes(c, "paused") /\ NeedsApproval(Tool(c)) /\ ~call[c].approved)
      BY <2>2, PutEffect DEF Ats
    <2>4. Stopped(c)
      BY <1>1, <2>1, <2>3 DEF Stopped, InTurn
    <2>5. CallsTyped'
      BY <1>1, <1>2, <1>3, <1>4, <2>1, <2>3 DEF CallsTyped, TypedCalls, Goes, At, Tool
    <2>. QED BY <2>4, <2>5
  <1>. QED BY <1>5, <1>6, <1>7

\* The limiter's state and the clock are left alone, or only the clock moves.
LEMMA CallMoves ==
    ASSUME CallsTyped, NEW c \in Calls, CallStep(c)
    PROVE  CallsTyped' /\ Moves
  <1>1. CASE Limit(c)
    BY <1>1, LimitMoves DEF Moves
  <1>2. ASSUME NEW blocked \in BOOLEAN, Enter(c, blocked) PROVE CallsTyped' /\ Moves
    <2>1. /\ status = "tools" /\ At(c, "new") /\ UNCHANGED <<status, setup, count, clock>>
          /\ UNCHANGED <<used, bucket, wire, executed, passed, denied>>
          /\ call' = Put(c, "done") \/ (call' = Put(c, "checked") /\ ~Exhausted)
      BY <1>2 DEF Enter, limits, history
    <2>2. /\ call' \in TypedCalls
          /\ Goes(c, "done") \/ (Goes(c, "checked") /\ ~Exhausted)
      BY <2>1, PutEffect DEF Ats
    <2>3. Enters(c)
      BY <2>1, <2>2 DEF Enters, InTurn
    <2>4. CallsTyped'
      BY <2>1, <2>2 DEF CallsTyped, TypedCalls, Goes, At, Tool
    <2>. QED BY <2>3, <2>4 DEF Moves
  <1>3. CASE LoseAnswer(c) \/ LocalInvoke(c)
    <2>1. /\ c \in InFlight /\ UNCHANGED <<status, setup, count, clock>>
          /\ UNCHANGED <<used, bucket, wire, executed, passed, denied>>
          /\ call' = Put(c, "fallback") \/ call' = Put(c, "answered")
      BY <1>3 DEF LoseAnswer, LocalInvoke, limits, history, InFlight, At
    <2>2. /\ call' \in TypedCalls
          /\ Goes(c, "fallback") \/ Goes(c, "answered")
      BY <2>1, PutEffect DEF Ats
    <2>3. Flies(c)
      BY <2>1, <2>2 DEF Flies
    <2>4. CallsTyped'
      BY <2>1, <2>2 DEF CallsTyped, TypedCalls, Goes, At, Tool, InFlight
    <2>. QED BY <2>3, <2>4 DEF Moves
  <1>4. ASSUME NEW valid \in BOOLEAN, Return(c, valid) PROVE CallsTyped' /\ Moves
    <2>1. /\ status = "tools" /\ c \in InFlight /\ UNCHANGED <<status, setup, count, clock>>
          /\ UNCHANGED <<bucket, wire, executed, passed, denied>>
          /\ call' = Put(c, "done") /\ used' = Recorded
      BY <1>4 DEF Return, InFlight, At
    <2>2. call' \in TypedCalls /\ Goes(c, "done")
      BY <2>1, PutEffect DEF Ats
    <2>3. Returns(c)
      BY <2>1, <2>2 DEF Returns, InTurn
    <2>4. used' \in Nat \cup {Unbudgeted}
      BY <2>1 DEF CallsTyped, Recorded
    <2>5. CallsTyped'
      BY <2>1, <2>2, <2>4 DEF CallsTyped, TypedCalls, Goes, At, Tool, InFlight
    <2>. QED BY <2>3, <2>5 DEF Moves
  <1>5. CASE Fail(c)
    <2>1. status' = "over" /\ UNCHANGED <<setup, call, count, used, bucket, wire, clock, executed, passed, denied>>
      BY <1>5 DEF Fail, limits, history
    <2>. QED BY <2>1 DEF Moves, Rests, CallsTyped, At, Tool
  <1>. QED BY <1>1, <1>2, <1>3, <1>4, <1>5 DEF CallStep

LEMMA NextMoves ==
    ASSUME Typed, CallsTyped, [Next]_vars
    PROVE  CallsTyped' /\ Moves
  <1>1. ASSUME NEW tools \in [Calls -> Tools \cup {NoTool}], ModelCall(tools) PROVE CallsTyped' /\ Moves
    <2>1. /\ status = "model" /\ status' = "tools" /\ count' = 0
          /\ UNCHANGED <<setup, used, bucket, wire, clock, executed, passed, denied>>
          /\ call' = [c \in Calls |-> [tool |-> tools[c], approved |-> FALSE,
                                       at |-> IF tools[c] = NoTool THEN "idle" ELSE "new"]]
          /\ \A c, d \in Calls : c # d /\ NoTool \notin {tools[c], tools[d]}
                                    => ~NeedsApproval(tools[c]) \/ ~NeedsApproval(tools[d])
      BY <1>1 DEF ModelCall, ResetTurn, limits
    <2>2. \A c \in Calls : /\ call'[c].tool = tools[c] /\ call'[c].approved = FALSE
                           /\ call'[c].at = IF tools[c] = NoTool THEN "idle" ELSE "new"
      BY <2>1
    <2>3. call' \in TypedCalls
      BY <2>1 DEF TypedCalls, Ats
    <2>4. CallsTyped'
      BY <2>1, <2>2, <2>3 DEF CallsTyped, TypedCalls, At, Tool
    <2>5. Asks
      BY <2>1, <2>2 DEF Asks
    <2>. QED BY <2>4, <2>5 DEF Moves
  <1>2. CASE Answer \/ Reject \/ EndTurn \/ Tick \/ UNCHANGED vars
    <2>1. UNCHANGED <<setup, call, count, used, bucket, wire, executed, passed, denied>> /\ clock' \in Nat
      BY <1>2 DEF Answer, Reject, EndTurn, Tick, vars, control, limits, history, CallsTyped
    <2>2. Rests
      <3>1. CASE EndTurn
        BY <2>1, <3>1 DEF Rests, EndTurn
      <3>2. CASE ~EndTurn
        BY <1>2, <2>1, <3>2 DEF Rests, Answer, Reject, Tick, vars, control
      <3>. QED BY <3>1, <3>2
    <2>3. CallsTyped'
      BY <2>1 DEF CallsTyped, At, Tool
    <2>. QED BY <2>2, <2>3 DEF Moves
  <1>3. ASSUME NEW request \in wire, Serve(request) PROVE CallsTyped' /\ Moves
    <2>1. /\ UNCHANGED <<status, setup, count, used, bucket, clock, executed, passed, denied>>
          /\ wire' = wire \ {request} /\ request[1] \in Calls
          /\ call' = call \/ (At(request[1], "running") /\ call' = Put(request[1], "served"))
      BY <1>3 DEF Serve, CallsTyped
    <2>2. CASE call' = call
      BY <2>1, <2>2 DEF CallsTyped, At, Tool, Moves, Rests
    <2>3. CASE At(request[1], "running") /\ call' = Put(request[1], "served")
      <3>1. call' \in TypedCalls /\ Goes(request[1], "served") /\ request[1] \in InFlight
        BY <2>1, <2>3, PutEffect DEF Ats, InFlight, At
      <3>2. Flies(request[1])
        BY <2>1, <3>1 DEF Flies
      <3>3. CallsTyped'
        BY <2>1, <2>3, <3>1 DEF CallsTyped, TypedCalls, Goes, At, Tool
      <3>. QED BY <2>1, <3>2, <3>3 DEF Moves
    <2>. QED BY <2>1, <2>2, <2>3
  <1>4. CASE Aresume
    <2>1. /\ status = "paused" /\ status' = "tools" /\ count' = 0 /\ used' = Unbudgeted
          /\ UNCHANGED <<wire, clock, executed, denied>>
          /\ setup' = [setup EXCEPT !.gateway = FALSE]
          /\ call' = [c \in Calls |-> IF At(c, "paused") THEN [call[c] EXCEPT !.at = "new", !.approved = TRUE]
                                      ELSE call[c]]
          /\ bucket' \in {bucket, [t \in Tools |-> << >>]} /\ passed' \in {passed, [t \in Tools |-> << >>]}
      BY <1>4 DEF Aresume, NewMiddlewares
    <2>2. setup'.discipline = setup.discipline /\ setup'.threshold = setup.threshold
      BY <2>1 DEF Typed, AllSetups
    <2>3. \A c \in Calls :
             /\ call'[c] \in [tool : Tools \cup {NoTool}, at : Ats, approved : BOOLEAN]
             /\ call'[c].tool = call[c].tool
             /\ ~At(c, "paused") => call'[c] = call[c]
             /\ At(c, "paused") => call'[c].at = "new" /\ call'[c].approved
      BY <2>1 DEF CallsTyped, Ats
    <2>4. call' \in TypedCalls
      BY <2>1, <2>3 DEF TypedCalls
    <2>5. Resumes
      BY <2>1, <2>2, <2>3 DEF Resumes
    <2>6. bucket' \in [Tools -> Seq(Nat)] /\ passed' \in [Tools -> Seq(Nat)]
      <3>1. [t \in Tools |-> << >>] \in [Tools -> Seq(Nat)]
        OBVIOUS
      <3>. QED BY <2>1, <3>1 DEF CallsTyped
    <2>7. \A c \in Calls : call'[c].at # "idle" => call'[c].tool \in Tools
      BY <2>3 DEF CallsTyped, At, Tool
    <2>8. CallsTyped'
      BY <2>1, <2>4, <2>6, <2>7 DEF CallsTyped, TypedCalls, At, Tool
    <2>. QED BY <2>5, <2>8 DEF Moves
  <1>. QED BY <1>1, <1>2, <1>3, <1>4, CallMoves DEF Next

LEMMA SettledStep ==
    ASSUME CallsTyped, Settled, Moves
    PROVE  Settled'
  <1>1. CASE Rests
    BY <1>1 DEF Rests, Settled, At
  <1>2. CASE \E c \in Calls : Flies(c)
    BY <1>2 DEF Flies, InFlight, Settled
  <1>3. CASE status' = "tools"
    BY <1>3 DEF Settled
  <1>. QED BY <1>1, <1>2, <1>3 DEF Moves, Asks, Resumes, Enters, Starts, TurnedAway, Stopped, Returns, InTurn

\* An approved call is not turned away: it runs alone, and the counter is at 0.
LEMMA ApprovedStep ==
    ASSUME Typed, CallsTyped, Settled, Approved, Moves
    PROVE  Approved'
  <1>. USE DEF At, Tool
  <1>1. CASE Rests
    BY <1>1 DEF Rests, Approved, NeedsApproval
  <1>2. CASE Asks
    BY <1>2 DEF Asks, Approved, NeedsApproval
  <1>3. CASE Resumes
    <2>1. /\ \A c \in Calls : call[c].at \in {"idle", "done", "paused"}
          /\ count' = 0 /\ denied' = denied /\ setup'.discipline = setup.discipline
          /\ \A tool : NeedsApproval(tool)' <=> NeedsApproval(tool)
      BY <1>3 DEF Resumes, Settled, NeedsApproval
    <2>2. \A c \in Calls :
             /\ call'[c].tool = call[c].tool
             /\ call[c].at # "paused" => call'[c] = call[c]
             /\ call[c].at = "paused" => call'[c].at = "new" /\ call'[c].approved
      BY <1>3 DEF Resumes
    <2>. QED BY <2>1, <2>2 DEF Approved
  <1>4. ASSUME NEW c \in Calls, Enters(c) PROVE Approved'
    BY <1>4 DEF Enters, InTurn, Goes, Approved, NeedsApproval
  <1>5. ASSUME NEW c \in Calls, Starts(c) PROVE Approved'
    BY <1>5 DEF Starts, InTurn, Goes, Approved, NeedsApproval
  <1>6. ASSUME NEW c \in Calls, TurnedAway(c) PROVE Approved'
    <2>1. setup.discipline # "sgr" => ~call[c].approved
      BY <1>6 DEF Typed, AllSetups, TurnedAway, MayRun, Approved
    <2>2. setup.discipline # "sgr" => ~denied'
      BY <1>6, <2>1 DEF TurnedAway, Approved
    <2>3. UNCHANGED setup /\ call[c].at = "checked" /\ Goes(c, "done")
      BY <1>6 DEF TurnedAway, InTurn
    <2>4. \A d \in Calls \ {c} : call[d].at = "idle" \/ call[d].at = "done" \/ ~call[c].approved
      BY DEF Approved
    <2>. QED BY <2>2, <2>3, <2>4 DEF Goes, Approved, NeedsApproval
  <1>7. ASSUME NEW c \in Calls, Stopped(c) PROVE Approved'
    BY <1>7 DEF Stopped, InTurn, Goes, Approved, NeedsApproval
  <1>8. ASSUME NEW c \in Calls, Flies(c) PROVE Approved'
    BY <1>8 DEF Flies, InFlight, Goes, Approved, NeedsApproval
  <1>9. ASSUME NEW c \in Calls, Returns(c) PROVE Approved'
    BY <1>9 DEF Returns, InTurn, InFlight, Goes, Approved, NeedsApproval
  <1>. QED BY <1>1, <1>2, <1>3, <1>4, <1>5, <1>6, <1>7, <1>8, <1>9 DEF Moves

\* The call that a person approved is never turned away by the rules of its turn.
THEOREM ApprovalsAreHonoured == Spec => []ApprovedRuns
  <1>1. Init => CallsTyped /\ Settled /\ Approved
    <2>. SUFFICES ASSUME Init PROVE CallsTyped /\ Settled /\ Approved
      OBVIOUS
    <2>1. \A c \in Calls : call[c] = [tool |-> NoTool, at |-> "idle", approved |-> FALSE]
      BY DEF Init
    <2>2. CallsTyped
      <3>1. [t \in Tools |-> << >>] \in [Tools -> Seq(Nat)]
        OBVIOUS
      <3>. QED BY <3>1 DEF Init, CallsTyped, Ats, At
    <2>. QED BY <2>1, <2>2 DEF Init, Settled, Approved, At
  <1>2. Inv /\ CallsTyped /\ Settled /\ Approved /\ [Next]_vars
          => Inv' /\ CallsTyped' /\ Settled' /\ Approved'
    BY NextInv, NextMoves, SettledStep, ApprovedStep DEF Inv
  <1>3. Approved => ApprovedRuns
    BY DEF Approved, ApprovedRuns
  <1>. QED BY InitInv, <1>1, <1>2, <1>3, PTL DEF Spec

\* How the sets that the budget is about change with a call.
LEMMA SetsAfter ==
    ASSUME CallsTyped, NEW c \in Calls, NEW at, Goes(c, at)
    PROVE  /\ at = "checked" => Checked' = Checked \cup {c}
           /\ at # "checked" => Checked' = Checked \ {c}
           /\ at \in {"running", "served", "fallback", "answered"} => InFlight' = InFlight \cup {c}
           /\ at \notin {"running", "served", "fallback", "answered"} => InFlight' = InFlight \ {c}
  BY DEF Goes, Checked, InFlight, At

LEMMA SetsFinite ==
    /\ IsFiniteSet(Checked) /\ Cardinality(Checked) \in Nat
    /\ IsFiniteSet(InFlight) /\ Cardinality(InFlight) \in Nat
    /\ Cardinality(Calls) \in Nat
    /\ Cardinality(InFlight) + Cardinality(Checked) <= Cardinality(Calls)
    /\ MaxToolCalls \in Nat /\ MaxToolCalls > 0
  <1>0. IsFiniteSet(Calls) /\ MaxToolCalls \in Nat /\ MaxToolCalls > 0
    BY ToolGateAssumption
  <1>1. Checked \in SUBSET Calls /\ InFlight \in SUBSET Calls /\ Checked \cap InFlight = {}
        /\ InFlight \cup Checked \in SUBSET Calls /\ InFlight \cap Checked = {}
    BY DEF Checked, InFlight, At
  <1>2. IsFiniteSet(Checked) /\ IsFiniteSet(InFlight) /\ IsFiniteSet(InFlight \cup Checked)
    BY <1>0, <1>1, FS_Subset
  <1>3. Cardinality(InFlight \cup Checked) = Cardinality(InFlight) + Cardinality(Checked) - 0
    BY <1>1, <1>2, FS_Union, FS_EmptySet
  <1>4. Cardinality(InFlight \cup Checked) <= Cardinality(Calls)
    BY <1>0, <1>1, FS_Subset
  <1>5. Cardinality(Checked) \in Nat /\ Cardinality(InFlight) \in Nat /\ Cardinality(Calls) \in Nat
    BY <1>0, <1>2, FS_CardinalityType
  <1>. QED BY <1>0, <1>2, <1>3, <1>4, <1>5

\* What the budget counts.
LEMMA RecordedEffect ==
    ASSUME CallsTyped, used' = Recorded
    PROVE  /\ Budgeted' <=> Budgeted
           /\ Exhausted => used' = used /\ Exhausted'
           /\ Budgeted /\ ~Exhausted => used' = used + 1
           /\ Budgeted /\ ~Exhausted /\ Exhausted' => used' = MaxToolCalls
  BY SetsFinite DEF CallsTyped, Recorded, Budgeted, Exhausted, Unbudgeted

LEMMA BudgetStep ==
    ASSUME CallsTyped, Settled, Budget, Moves, CallsTyped'
    PROVE  Budget'
  <1>0. /\ used \in Nat \cup {Unbudgeted} /\ executed \in Nat
        /\ used' \in Nat \cup {Unbudgeted} /\ executed' \in Nat
    BY DEF CallsTyped
  <1>e. executed \in Nat /\ executed' \in Nat
    BY <1>0
  <1>. USE DEF Unbudgeted
  <1>. DEFINE flying == Cardinality(InFlight)
              checked == Cardinality(Checked)
              calls == Cardinality(Calls)
  <1>1. /\ flying \in Nat /\ checked \in Nat /\ calls \in Nat /\ flying + checked <= calls
        /\ MaxToolCalls \in Nat /\ MaxToolCalls > 0
    BY SetsFinite
  <1>2. /\ Budgeted /\ ~Exhausted => executed <= used + flying
        /\ Exhausted => executed + checked <= MaxToolCalls + calls - 1
        /\ ~Budgeted => executed <= MaxToolCalls + calls - 1
        /\ Exhausted <=> (Budgeted /\ used >= MaxToolCalls)
        /\ Exhausted' <=> (Budgeted' /\ used' >= MaxToolCalls)
    BY DEF Budget, Exhausted, Budgeted
  <1>3. executed <= MaxToolCalls + calls - 1
    BY <1>0, <1>1, <1>2 DEF Budgeted, Unbudgeted
  <1>f. PICK flying2 \in Nat, checked2 \in Nat : flying2 = flying' /\ checked2 = checked'
    <2>1. InFlight' \in SUBSET Calls /\ Checked' \in SUBSET Calls /\ IsFiniteSet(Calls)
      BY ToolGateAssumption DEF InFlight, Checked
    <2>2. IsFiniteSet(InFlight') /\ IsFiniteSet(Checked')
      BY <2>1, FS_Subset
    <2>. QED BY <2>2, FS_CardinalityType
  <1>. DEFINE Goal == /\ Budgeted' /\ ~Exhausted' => executed' <= used' + flying2
                      /\ Exhausted' => executed' + checked2 <= MaxToolCalls + calls - 1
                      /\ ~Budgeted' => executed' <= MaxToolCalls + calls - 1
  <1>. SUFFICES Goal
    BY <1>f DEF Budget
  <1>. HIDE DEF flying, checked, calls
  <1>4. CASE UNCHANGED <<used, executed>> /\ flying2 = flying /\ checked2 <= checked
    <2>1. (Budgeted' <=> Budgeted) /\ (Exhausted' <=> Exhausted)
      BY <1>2, <1>4 DEF Budgeted
    <2>2. Budgeted /\ ~Exhausted => executed' <= used' + flying2
      BY <1>2, <1>4
    <2>3. Exhausted => executed' + checked2 <= MaxToolCalls + calls - 1
      BY <1>e, <1>1, <1>2, <1>4
    <2>. QED BY <1>3, <1>4, <2>1, <2>2, <2>3
  <1>5. CASE Rests
    BY <1>f, <1>1, <1>4, <1>5 DEF Rests, flying, checked, InFlight, Checked, At
  <1>6. CASE Asks
    <2>1. InFlight = {} /\ InFlight' = {} /\ Checked' = {}
      BY <1>6 DEF Asks, Settled, InFlight, Checked, At
    <2>2. flying2 = flying /\ checked2 = 0 /\ UNCHANGED <<used, executed>>
      BY <1>f, <1>6, <2>1, FS_EmptySet DEF Asks, flying, checked
    <2>. QED BY <1>1, <1>4, <2>2
  <1>7. CASE Resumes
    BY <1>3, <1>7 DEF Resumes, Budgeted, Exhausted
  <1>8. ASSUME NEW c \in Calls, Enters(c) PROVE Goal
    <2>1. c \notin InFlight /\ c \notin Checked /\ UNCHANGED <<used, executed>>
      BY <1>8 DEF Enters, InFlight, Checked, At
    <2>2. InFlight' = InFlight \ {c}
      BY <1>8, SetsAfter DEF Enters
    <2>3. flying2 = flying
      BY <1>f, <2>1, <2>2 DEF flying
    <2>4. CASE Exhausted
      <3>1. Checked' = Checked \ {c}
        BY <1>8, <2>4, SetsAfter DEF Enters
      <3>2. checked2 = checked
        BY <1>f, <2>1, <3>1 DEF checked
      <3>. QED BY <1>1, <1>4, <2>1, <2>3, <3>2
    <2>5. CASE ~Exhausted
      BY <1>2, <2>1, <2>3, <2>5 DEF Budgeted, Exhausted
    <2>. QED BY <2>4, <2>5
  <1>9. ASSUME NEW c \in Calls, Starts(c) PROVE Goal
    <2>1. /\ c \notin InFlight /\ c \in Checked /\ used' = used
          /\ executed' = IF Budgeted THEN executed + 1 ELSE executed
      BY <1>9 DEF Starts, InFlight, Checked, At
    <2>2. InFlight' = InFlight \cup {c} /\ Checked' = Checked \ {c}
      BY <1>9, SetsAfter DEF Starts
    <2>3. flying2 = flying + 1 /\ checked2 = checked - 1
      BY <1>f, <2>1, <2>2, SetsFinite, FS_AddElement, FS_RemoveElement DEF flying, checked
    <2>. QED BY <1>0, <1>1, <1>2, <2>1, <2>3 DEF Budgeted, Exhausted, Unbudgeted
  <1>10. ASSUME NEW c \in Calls, Stopped(c) PROVE Goal
    <2>1. /\ c \notin InFlight /\ c \in Checked /\ UNCHANGED <<used, executed>>
      BY <1>10 DEF Stopped, InFlight, Checked, At
    <2>2. InFlight' = InFlight \ {c} /\ Checked' = Checked \ {c}
      BY <1>10, SetsAfter DEF Stopped
    <2>3. flying2 = flying /\ checked2 = checked - 1
      <3>1. InFlight' = InFlight
        BY <2>1, <2>2
      <3>2. Cardinality(Checked \ {c}) = Cardinality(Checked) - 1 /\ IsFiniteSet(Checked \ {c})
        BY <2>1, SetsFinite, FS_RemoveElement
      <3>. QED BY <1>f, <2>2, <3>1, <3>2, FS_CardinalityType DEF flying, checked
    <2>. QED BY <1>1, <1>4, <2>1, <2>3
  <1>11. ASSUME NEW c \in Calls, Flies(c) PROVE Goal
    <2>1. c \in InFlight /\ c \notin Checked /\ UNCHANGED <<used, executed>>
      BY <1>11 DEF Flies, InFlight, Checked, At
    <2>2. InFlight' = InFlight \cup {c} /\ Checked' = Checked \ {c}
      BY <1>11, SetsAfter DEF Flies
    <2>3. flying2 = flying /\ checked2 = checked
      <3>1. InFlight' = InFlight /\ Checked' = Checked
        BY <2>1, <2>2
      <3>. QED BY <1>f, <3>1 DEF flying, checked
    <2>. QED BY <1>1, <1>4, <2>1, <2>3
  <1>12. ASSUME NEW c \in Calls, TurnedAway(c) \/ Returns(c) PROVE Goal
    <2>1. /\ used' = Recorded /\ executed' = executed /\ Goes(c, "done")
          /\ c \in Checked \/ c \in InFlight
      BY <1>12 DEF TurnedAway, Returns, InFlight, Checked, At
    <2>2. InFlight' = InFlight \ {c} /\ Checked' = Checked \ {c} /\ ~(c \in Checked /\ c \in InFlight)
      <3>1. InFlight' = InFlight \ {c} /\ Checked' = Checked \ {c}
        BY <2>1, SetsAfter
      <3>2. ~(c \in Checked /\ c \in InFlight)
        BY DEF InFlight, Checked, At
      <3>. QED BY <3>1, <3>2
    <2>3. /\ flying2 = IF c \in InFlight THEN flying - 1 ELSE flying
          /\ checked2 = IF c \in Checked THEN checked - 1 ELSE checked
      BY <1>f, <2>2, SetsFinite, FS_RemoveElement DEF flying, checked
    <2>4. /\ Budgeted' <=> Budgeted
          /\ Exhausted => used' = used /\ Exhausted'
          /\ Budgeted /\ ~Exhausted => used' = used + 1
          /\ Budgeted /\ ~Exhausted /\ Exhausted' => used' = MaxToolCalls
      BY <2>1, RecordedEffect
    <2>5. flying <= flying2 + 1 /\ checked2 <= checked
      BY <1>1, <2>3
    <2>6. CASE Exhausted
      <3>1. executed' + checked2 <= MaxToolCalls + calls - 1
        BY <1>e, <1>1, <1>2, <2>1, <2>5, <2>6
      <3>. QED BY <1>2, <2>4, <2>6, <3>1
    <2>7. CASE ~Budgeted
      BY <1>2, <2>1, <2>4, <2>7 DEF Exhausted, Budgeted
    <2>8. CASE Budgeted /\ ~Exhausted
      <3>1. used \in Nat /\ used' = used + 1 /\ executed <= used + flying
        BY <1>0, <1>2, <2>4, <2>8 DEF Budgeted
      <3>2. executed' <= used' + flying2
        BY <1>e, <1>1, <2>1, <2>5, <3>1
      <3>3. ASSUME Exhausted' PROVE executed' + checked2 <= MaxToolCalls + calls - 1
        <4>1. used = MaxToolCalls - 1
          BY <1>1, <2>4, <2>8, <3>1, <3>3
        <4>. QED BY <1>e, <1>1, <2>1, <2>5, <3>1, <4>1
      <3>. QED BY <2>4, <2>8, <3>2, <3>3
    <2>. QED BY <2>6, <2>7, <2>8 DEF Exhausted, Budgeted
  <1>. QED BY <1>5, <1>6, <1>7, <1>8, <1>9, <1>10, <1>11, <1>12 DEF Moves

\* With one tool per turn: a counted or running call closes the turn for the others.
LEMMA OneBudgetStep ==
    ASSUME Typed, CallsTyped, Settled, OneBudget, Moves, setup.discipline = "one"
    PROVE  OneBudget'
  <1>. DEFINE none == InFlight = {}
              none2 == InFlight' = {}
              open == Checked = {}
              open2 == Checked' = {}
              Max == MaxToolCalls
  <1>1. /\ executed \in Nat /\ count \in Nat /\ Max \in Nat /\ Max > 0
        /\ Budgeted => used \in Nat
        /\ Exhausted <=> (Budgeted /\ used >= Max)
        /\ Exhausted' <=> (Budgeted' /\ used' >= Max)
    BY ToolGateAssumption DEF Typed, CallsTyped, Budgeted, Exhausted
  <1>2. /\ executed <= Max
        /\ Budgeted /\ ~none => count > 0
        /\ Budgeted /\ ~Exhausted => executed <= used + 1 /\ (none => executed <= used)
        /\ Exhausted /\ ~open => count > 0
    BY DEF OneBudget
  <1>. DEFINE Goal == /\ executed' <= Max
                      /\ Budgeted' /\ ~none2 => count' > 0
                      /\ Budgeted' /\ ~Exhausted' => executed' <= used' + 1 /\ (none2 => executed' <= used')
                      /\ Exhausted' /\ ~open2 => count' > 0
  <1>. SUFFICES Goal
    BY DEF OneBudget
  <1>. HIDE DEF none, none2, open, open2, Max
  <1>3. CASE UNCHANGED <<used, executed, count>> /\ (none2 <=> none) /\ (Exhausted /\ ~open2 => ~open)
    <2>1. (Budgeted' <=> Budgeted) /\ (Exhausted' <=> Exhausted)
      BY <1>1, <1>3 DEF Budgeted
    <2>. QED BY <1>2, <1>3, <2>1
  <1>4. CASE Rests
    BY <1>3, <1>4 DEF Rests, none, none2, open, open2, InFlight, Checked, At
  <1>5. CASE Asks
    <2>1. none /\ none2 /\ open2
      BY <1>5 DEF Asks, Settled, InFlight, Checked, At, none, none2, open2
    <2>2. UNCHANGED <<used, executed>>
      BY <1>5 DEF Asks
    <2>3. (Budgeted' <=> Budgeted) /\ (Exhausted' <=> Exhausted)
      BY <1>1, <2>2 DEF Budgeted
    <2>. QED BY <1>2, <2>1, <2>2, <2>3
  <1>6. CASE Resumes
    BY <1>1, <1>2, <1>6 DEF Resumes, Budgeted
  <1>7. ASSUME NEW c \in Calls, Enters(c) PROVE Goal
    <2>1. c \notin InFlight /\ UNCHANGED <<used, executed, count>>
      BY <1>7 DEF Enters, InFlight, At
    <2>2. InFlight' = InFlight \ {c} /\ (Exhausted => Checked' = Checked \ {c})
      BY <1>7, SetsAfter DEF Enters
    <2>3. (none2 <=> none) /\ (Exhausted /\ ~open2 => ~open)
      BY <2>1, <2>2 DEF none, none2, open, open2
    <2>. QED BY <1>3, <2>1, <2>3
  <1>8. ASSUME NEW c \in Calls, Starts(c) PROVE Goal
    <2>1. /\ count = 0 /\ count' = count + 1 /\ used' = used /\ c \in Checked
          /\ executed' = IF Budgeted THEN executed + 1 ELSE executed
      BY <1>8 DEF Starts, MayRun, Raised, Checked
    <2>2. ~open
      BY <2>1 DEF open
    <2>3. (Budgeted' <=> Budgeted) /\ (Exhausted' <=> Exhausted)
      BY <1>1, <2>1 DEF Budgeted
    <2>4. ~none2
      BY <1>8, SetsAfter DEF Starts, none2
    <2>5. CASE Budgeted
      <3>1. executed <= used /\ ~Exhausted /\ used \in Nat
        BY <1>1, <1>2, <2>1, <2>2, <2>5
      <3>2. executed + 1 <= used + 1 /\ executed + 1 <= Max /\ count + 1 > 0
        BY <1>1, <2>1, <2>5, <3>1
      <3>. QED BY <2>1, <2>3, <2>4, <2>5, <3>1, <3>2
    <2>6. CASE ~Budgeted
      BY <1>1, <1>2, <2>1, <2>3, <2>6
    <2>. QED BY <2>5, <2>6
  <1>9. ASSUME NEW c \in Calls, TurnedAway(c) PROVE Goal
    <2>1. /\ count' = count + 1 /\ used' = Recorded /\ executed' = executed
          /\ Goes(c, "done") /\ c \notin InFlight
      BY <1>9 DEF TurnedAway, Raised, InFlight, At
    <2>2. none2 <=> none
      BY <2>1, SetsAfter DEF none, none2
    <2>3. /\ Budgeted' <=> Budgeted
          /\ Exhausted => Exhausted'
          /\ Budgeted /\ ~Exhausted => used' = used + 1
      BY <2>1, RecordedEffect
    <2>4. count' > 0
      BY <1>1, <2>1
    <2>5. Budgeted /\ ~Exhausted => executed <= used' + 1 /\ (none => executed <= used')
      BY <1>1, <1>2, <2>3
    <2>. QED BY <1>2, <2>1, <2>2, <2>3, <2>4, <2>5
  <1>10. ASSUME NEW c \in Calls, Stopped(c) PROVE Goal
    <2>1. c \notin InFlight /\ UNCHANGED <<used, executed, count>>
      BY <1>10 DEF Stopped, InFlight, At
    <2>2. InFlight' = InFlight \ {c} /\ Checked' = Checked \ {c}
      BY <1>10, SetsAfter DEF Stopped
    <2>3. (none2 <=> none) /\ (~open2 => ~open)
      BY <2>1, <2>2 DEF none, none2, open, open2
    <2>. QED BY <1>3, <2>1, <2>3
  <1>11. ASSUME NEW c \in Calls, Flies(c) PROVE Goal
    <2>1. c \in InFlight /\ UNCHANGED <<used, executed, count>>
      BY <1>11 DEF Flies
    <2>2. InFlight' = InFlight \cup {c} /\ Checked' = Checked \ {c}
      BY <1>11, SetsAfter DEF Flies
    <2>3. (none2 <=> none) /\ (~open2 => ~open)
      BY <2>1, <2>2 DEF none, none2, open, open2
    <2>. QED BY <1>3, <2>1, <2>3
  <1>12. ASSUME NEW c \in Calls, Returns(c) PROVE Goal
    <2>1. count' = count /\ used' = Recorded /\ executed' = executed /\ c \in InFlight
      BY <1>12 DEF Returns
    <2>2. Budgeted => count > 0
      BY <1>2, <2>1 DEF none
    <2>3. /\ Budgeted' <=> Budgeted
          /\ Exhausted => Exhausted'
          /\ Budgeted /\ ~Exhausted => used' = used + 1
      BY <2>1, RecordedEffect
    <2>4. Budgeted /\ ~Exhausted => executed <= used' + 1 /\ executed <= used'
      BY <1>1, <1>2, <2>3
    <2>5. Exhausted' => Budgeted'
      BY <1>1
    <2>. QED BY <1>2, <2>1, <2>2, <2>3, <2>4, <2>5
  <1>. QED BY <1>4, <1>5, <1>6, <1>7, <1>8, <1>9, <1>10, <1>11, <1>12 DEF Moves

(***************************************************************************)
(* The sliding window in memory: b is the bucket, p the passes so far.     *)
(***************************************************************************)
IsWindow(b, p, now) ==
    /\ Len(b) <= Len(p)
    /\ \A i \in 1..Len(b) : b[i] = p[(Len(p) - Len(b)) + i]
    /\ \A i \in 1..(Len(p) - Len(b)) : now - p[i] > Window
    /\ \A i, k \in 1..Len(p) : i <= k => p[i] <= p[k]
    /\ \A i \in 1..Len(p) : p[i] <= now
    /\ \A i, k \in 1..Len(p) : k = i + MaxPerWindow => p[k] - p[i] > Window

LEMMA WindowConstants == MaxPerWindow \in Nat /\ MaxPerWindow > 0 /\ Window \in Nat
  BY ToolGateAssumption

\* Time passes: what has left the window stays out of it.
LEMMA WindowAges ==
    ASSUME NEW b \in Seq(Nat), NEW p \in Seq(Nat), NEW now \in Nat, NEW then \in Nat,
           now <= then, IsWindow(b, p, now)
    PROVE  IsWindow(b, p, then)
  <1>1. \A i \in 1..Len(p) : p[i] \in Nat
    OBVIOUS
  <1>. QED BY <1>1, WindowConstants, SMTT(30) DEF IsWindow

\* The calls counted as expired are the first of the bucket.
LEMMA ExpiredFirst ==
    ASSUME NEW b \in Seq(Nat), NEW now \in Nat, \A i, k \in 1..Len(b) : i <= k => b[i] <= b[k],
           NEW j \in 1..Cardinality({i \in DOMAIN b : now - b[i] > Window}), j <= Len(b)
    PROVE  now - b[j] > Window
  <1>. DEFINE expired == {i \in DOMAIN b : now - b[i] > Window}
  <1>1. Len(b) \in Nat /\ DOMAIN b = 1..Len(b) /\ j \in 1..Len(b) /\ \A i \in 1..Len(b) : b[i] \in Nat
    OBVIOUS
  <1>2. expired \in SUBSET (1..Len(b))
    BY <1>1
  <1>3. IsFiniteSet(1..Len(b)) /\ IsFiniteSet(1..(j - 1)) /\ Cardinality(1..(j - 1)) = j - 1
    <2>1. j - 1 \in Nat /\ 1 \in Int /\ Len(b) \in Int /\ j - 1 \in Int
      BY <1>1
    <2>2. IsFiniteSet(1..Len(b))
      BY <2>1, FS_Interval
    <2>3. IsFiniteSet(1..(j - 1)) /\ Cardinality(1..(j - 1)) = IF 1 > j - 1 THEN 0 ELSE (j - 1) - 1 + 1
      BY <2>1, FS_Interval
    <2>. QED BY <2>1, <2>2, <2>3
  <1>4. Cardinality(expired) \in Nat
    BY <1>2, <1>3, FS_Subset, FS_CardinalityType
  <1>5. j <= Cardinality(expired)
    BY <1>4
  <1>6. SUFFICES ASSUME ~(now - b[j] > Window) PROVE FALSE
    OBVIOUS
  <1>7. expired \in SUBSET (1..(j - 1))
    BY <1>1, <1>6, WindowConstants
  <1>. HIDE DEF expired
  <1>8. Cardinality(expired) <= j - 1
    BY <1>3, <1>7, FS_Subset
  <1>. QED BY <1>1, <1>4, <1>5, <1>8

\* Dropping the first n calls of the bucket, all expired.
LEMMA WindowShrinks ==
    ASSUME NEW b \in Seq(Nat), NEW p \in Seq(Nat), NEW now \in Nat, IsWindow(b, p, now),
           NEW n \in 0..Len(b), \A j \in 1..n : now - b[j] > Window
    PROVE  LET kept == SubSeq(b, n + 1, Len(b))
           IN  kept \in Seq(Nat) /\ Len(kept) = Len(b) - n /\ IsWindow(kept, p, now)
  <1>. DEFINE kept == SubSeq(b, n + 1, Len(b))
              gone == Len(p) - Len(b)
  <1>1. /\ Len(b) \in Nat /\ Len(p) \in Nat /\ n \in Nat /\ n <= Len(b) /\ Len(b) <= Len(p)
        /\ gone \in Nat
    BY DEF IsWindow
  <1>2. kept \in Seq(Nat) /\ Len(kept) = Len(b) - n /\ \A i \in 1..(Len(b) - n) : kept[i] = b[n + i]
    BY <1>1
  <1>. HIDE DEF kept
  <1>3. \A i \in 1..Len(kept) : kept[i] = p[(Len(p) - Len(kept)) + i]
    <2>1. SUFFICES ASSUME NEW i \in 1..(Len(b) - n) PROVE kept[i] = p[(Len(p) - (Len(b) - n)) + i]
      BY <1>2
    <2>2. n + i \in 1..Len(b) /\ gone + (n + i) = (Len(p) - (Len(b) - n)) + i
      BY <1>1
    <2>3. b[n + i] = p[gone + (n + i)]
      BY <2>2 DEF IsWindow
    <2>. QED BY <1>2, <2>2, <2>3
  <1>4. \A i \in 1..(Len(p) - Len(kept)) : now - p[i] > Window
    <2>1. SUFFICES ASSUME NEW i \in 1..(gone + n) PROVE now - p[i] > Window
      BY <1>1, <1>2
    <2>2. CASE i <= gone
      BY <1>1, <2>2 DEF IsWindow
    <2>3. CASE i > gone
      <3>1. i - gone \in 1..n /\ i - gone \in 1..Len(b) /\ gone + (i - gone) = i
        BY <1>1, <2>3
      <3>2. b[i - gone] = p[gone + (i - gone)]
        BY <3>1 DEF IsWindow
      <3>. QED BY <3>1, <3>2
    <2>. QED BY <1>1, <2>2, <2>3
  <1>5. Len(kept) <= Len(p)
    BY <1>1, <1>2
  <1>6. IsWindow(kept, p, now)
    BY <1>3, <1>4, <1>5 DEF IsWindow
  <1>. QED BY <1>2, <1>6 DEF kept

\* One more pass, when the window has room for it.
LEMMA WindowGrows ==
    ASSUME NEW b \in Seq(Nat), NEW p \in Seq(Nat), NEW now \in Nat, IsWindow(b, p, now),
           Len(b) < MaxPerWindow
    PROVE  IsWindow(Append(b, now), Append(p, now), now)
  <1>. DEFINE b2 == Append(b, now)
              p2 == Append(p, now)
  <1>a. PICK m \in Nat : m = Len(b)
    OBVIOUS
  <1>b. PICK n \in Nat : n = Len(p)
    OBVIOUS
  <1>c. PICK w \in Nat : w = MaxPerWindow /\ w > 0
    BY WindowConstants
  <1>1. /\ m <= n /\ m < w
        /\ Len(b2) = m + 1 /\ Len(p2) = n + 1
        /\ b2[m + 1] = now /\ p2[n + 1] = now
        /\ \A i \in 1..m : b2[i] = b[i]
        /\ \A i \in 1..n : p2[i] = p[i] /\ p[i] \in Nat
    BY <1>a, <1>b, <1>c DEF IsWindow
  <1>. HIDE DEF b2, p2
  <1>old. /\ \A i \in 1..m : b[i] = p[(n - m) + i]
          /\ \A i \in 1..(n - m) : now - p[i] > Window
          /\ \A i, k \in 1..n : i <= k => p[i] <= p[k]
          /\ \A i \in 1..n : p[i] <= now
          /\ \A i, k \in 1..n : k = i + w => p[k] - p[i] > Window
    BY <1>a, <1>b, <1>c DEF IsWindow
  <1>i. \A i \in 1..(n + 1) : i = n + 1 \/ i \in 1..n
    OBVIOUS
  <1>2. \A i \in 1..(m + 1) : b2[i] = p2[(n - m) + i]
    <2>. SUFFICES ASSUME NEW i \in 1..(m + 1) PROVE b2[i] = p2[(n - m) + i]
      OBVIOUS
    <2>1. CASE i = m + 1
      <3>1. (n - m) + i = n + 1
        BY <2>1
      <3>. QED BY <1>1, <2>1, <3>1
    <2>2. CASE i \in 1..m
      <3>1. (n - m) + i \in 1..n
        BY <1>1, <2>2
      <3>2. b2[i] = b[i] /\ b[i] = p[(n - m) + i] /\ p2[(n - m) + i] = p[(n - m) + i]
        BY <1>1, <1>old, <2>2, <3>1
      <3>. QED BY <3>2
    <2>3. i = m + 1 \/ i \in 1..m
      OBVIOUS
    <2>. QED BY <2>1, <2>2, <2>3
  <1>3. \A i \in 1..(n - m) : now - p2[i] > Window
    <2>. SUFFICES ASSUME NEW i \in 1..(n - m) PROVE now - p2[i] > Window
      OBVIOUS
    <2>1. i \in 1..n
      BY <1>1
    <2>2. p2[i] = p[i] /\ now - p[i] > Window
      BY <1>1, <1>old, <2>1
    <2>. QED BY <2>2
  <1>4. \A i \in 1..(n + 1) : p2[i] <= now
    <2>. SUFFICES ASSUME NEW i \in 1..(n + 1) PROVE p2[i] <= now
      OBVIOUS
    <2>1. CASE i = n + 1
      BY <1>1, <2>1
    <2>2. CASE i \in 1..n
      BY <1>1, <1>old, <2>2
    <2>. QED BY <1>i, <2>1, <2>2
  <1>5. \A i, k \in 1..(n + 1) : i <= k => p2[i] <= p2[k]
    <2>. SUFFICES ASSUME NEW i \in 1..(n + 1), NEW k \in 1..(n + 1), i <= k PROVE p2[i] <= p2[k]
      OBVIOUS
    <2>1. CASE k = n + 1
      BY <1>1, <1>4, <2>1
    <2>2. CASE k \in 1..n
      <3>1. i \in 1..n
        BY <2>2
      <3>2. p2[i] = p[i] /\ p2[k] = p[k] /\ p[i] <= p[k]
        BY <1>1, <1>old, <2>2, <3>1
      <3>. QED BY <3>2
    <2>. QED BY <1>i, <2>1, <2>2
  <1>6. \A i, k \in 1..(n + 1) : k = i + w => p2[k] - p2[i] > Window
    <2>. SUFFICES ASSUME NEW i \in 1..(n + 1), NEW k \in 1..(n + 1), k = i + w
                  PROVE  p2[k] - p2[i] > Window
      OBVIOUS
    <2>1. CASE k = n + 1
      <3>1. i \in 1..(n - m)
        BY <1>1, <2>1
      <3>2. p2[k] = now /\ now - p2[i] > Window
        BY <1>1, <1>3, <2>1, <3>1
      <3>. QED BY <3>2
    <2>2. CASE k \in 1..n
      <3>1. i \in 1..n
        BY <2>2
      <3>2. p2[i] = p[i] /\ p2[k] = p[k] /\ p[k] - p[i] > Window
        BY <1>1, <1>old, <2>2, <3>1
      <3>. QED BY <3>2
    <2>. QED BY <1>i, <2>1, <2>2
  <1>7. Len(b2) <= Len(p2) /\ Len(p2) - Len(b2) = n - m
    BY <1>1
  <1>8. IsWindow(b2, p2, now)
    BY <1>1, <1>c, <1>2, <1>3, <1>4, <1>5, <1>6, <1>7 DEF IsWindow
  <1>. QED BY <1>8 DEF b2, p2

\* The limiter in memory: every bucket is the window of the tool's passes.
Rate == setup.limiter = "memory" => \A tool \in Tools : IsWindow(bucket[tool], passed[tool], clock)

\* One call of the limiter in memory.
LEMMA LimiterKeeps ==
    ASSUME CallsTyped, setup.limiter = "memory", NEW tool \in Tools,
           IsWindow(bucket[tool], passed[tool], clock)
    PROVE  IsWindow(Limited(tool).bucket,
                    IF Limited(tool).allow THEN Append(passed[tool], clock) ELSE passed[tool], clock)
  <1>. DEFINE b == bucket[tool]
              p == passed[tool]
              n == Cardinality(Expired(tool))
              kept == SubSeq(b, n + 1, Len(b))
  <1>1. b \in Seq(Nat) /\ p \in Seq(Nat) /\ clock \in Nat
    BY DEF CallsTyped
  <1>2. n \in 0..Len(b) /\ InWindow(tool) = kept
    BY WindowIsSuffix
  <1>3. Expired(tool) = {i \in DOMAIN b : clock - b[i] > Window}
    BY DEF Expired
  <1>4. \A i, k \in 1..Len(b) : i <= k => b[i] <= b[k]
    <2>. SUFFICES ASSUME NEW i \in 1..Len(b), NEW k \in 1..Len(b), i <= k PROVE b[i] <= b[k]
      OBVIOUS
    <2>1. PICK m \in Nat : m = Len(b)
      BY <1>1
    <2>2. PICK l \in Nat : l = Len(p)
      BY <1>1
    <2>3. m <= l
      BY <2>1, <2>2 DEF IsWindow
    <2>4. (l - m) + i \in 1..l /\ (l - m) + k \in 1..l /\ (l - m) + i <= (l - m) + k
      BY <2>1, <2>3
    <2>5. b[i] = p[(l - m) + i] /\ b[k] = p[(l - m) + k]
      BY <2>1, <2>2 DEF IsWindow
    <2>6. p[(l - m) + i] <= p[(l - m) + k]
      BY <2>2, <2>4 DEF IsWindow
    <2>. QED BY <2>5, <2>6
  <1>5. \A j \in 1..n : clock - b[j] > Window
    <2>. SUFFICES ASSUME NEW j \in 1..n PROVE clock - b[j] > Window
      OBVIOUS
    <2>1. j <= Len(b)
      BY <1>1, <1>2
    <2>2. j \in 1..Cardinality({i \in DOMAIN b : clock - b[i] > Window})
      BY <1>3
    <2>. HIDE DEF b
    <2>. QED BY <1>1, <1>4, <2>1, <2>2, ExpiredFirst
  <1>6. IsWindow(b, p, clock)
    OBVIOUS
  <1>. HIDE DEF n, b, p
  <1>7. kept \in Seq(Nat) /\ IsWindow(kept, p, clock)
    BY <1>1, <1>2, <1>5, <1>6, WindowShrinks
  <1>8. /\ Limited(tool).allow <=> Len(kept) < MaxPerWindow
        /\ Limited(tool).bucket = IF Len(kept) < MaxPerWindow THEN Append(kept, clock) ELSE kept
    BY <1>2 DEF Limited
  <1>. HIDE DEF kept
  <1>9. Len(kept) < MaxPerWindow => IsWindow(Append(kept, clock), Append(p, clock), clock)
    BY <1>1, <1>7, WindowGrows
  <1>. QED BY <1>7, <1>8, <1>9 DEF p

LEMMA RateStep ==
    ASSUME CallsTyped, CallsTyped', Rate, [Next]_vars
    PROVE  Rate'
  <1>1. ASSUME UNCHANGED <<setup, bucket, passed, clock>> PROVE Rate'
    BY <1>1 DEF Rate
  <1>2. ASSUME NEW c \in Calls, Limit(c) PROVE Rate'
    <2>. DEFINE t == Tool(c)
                limited == Limited(t)
    <2>1. t \in Tools
      BY <1>2 DEF Limit, CallsTyped, At
    <2>2. /\ UNCHANGED <<setup, clock>>
          /\ bucket' = [bucket EXCEPT ![t] = limited.bucket]
          /\ passed' = IF limited.allow THEN [passed EXCEPT ![t] = Append(passed[t], clock)] ELSE passed
      BY <1>2 DEF Limit
    <2>3. bucket \in [Tools -> Seq(Nat)] /\ passed \in [Tools -> Seq(Nat)]
      BY DEF CallsTyped
    <2>. SUFFICES ASSUME setup.limiter = "memory", NEW tool \in Tools
                  PROVE  IsWindow(bucket'[tool], passed'[tool], clock)
      BY <2>2 DEF Rate
    <2>4. IsWindow(bucket[tool], passed[tool], clock)
      BY DEF Rate
    <2>5. CASE tool = t
      <3>1. IsWindow(Limited(tool).bucket,
                     IF Limited(tool).allow THEN Append(passed[tool], clock) ELSE passed[tool], clock)
        BY <2>4, LimiterKeeps
      <3>2. bucket'[tool] = limited.bucket
        BY <2>2, <2>3, <2>5
      <3>3. passed'[tool] = IF limited.allow THEN Append(passed[tool], clock) ELSE passed[tool]
        BY <2>2, <2>3, <2>5
      <3>. QED BY <2>5, <3>1, <3>2, <3>3
    <2>6. CASE tool # t
      <3>1. bucket'[tool] = bucket[tool] /\ passed'[tool] = passed[tool]
        BY <2>2, <2>3, <2>6
      <3>. QED BY <2>4, <3>1
    <2>. QED BY <2>5, <2>6
  <1>3. ASSUME Aresume PROVE Rate'
    <2>1. setup' = [setup EXCEPT !.gateway = FALSE]
      BY <1>3 DEF Aresume
    <2>2. setup'.limiter = setup.limiter
      BY <2>1
    <2>3. setup.limiter = "memory" => /\ bucket' = [t \in Tools |-> << >>]
                                      /\ passed' = [t \in Tools |-> << >>]
      BY <1>3 DEF Aresume
    <2>4. \A now : IsWindow(<< >>, << >>, now)
      BY DEF IsWindow
    <2>. QED BY <2>2, <2>3, <2>4 DEF Rate
  <1>4. ASSUME Tick PROVE Rate'
    <2>1. clock \in Nat /\ clock' \in Nat /\ clock <= clock'
      BY <1>4 DEF Tick, CallsTyped
    <2>2. UNCHANGED <<setup, bucket, passed>>
      BY <1>4 DEF Tick, control, limits, history
    <2>3. \A tool \in Tools : bucket[tool] \in Seq(Nat) /\ passed[tool] \in Seq(Nat)
      BY DEF CallsTyped
    <2>4. ASSUME NEW tool \in Tools, IsWindow(bucket[tool], passed[tool], clock)
          PROVE  IsWindow(bucket[tool], passed[tool], clock')
      BY <2>1, <2>3, <2>4, WindowAges
    <2>. QED BY <2>2, <2>4 DEF Rate
  <1>5. ASSUME NEW c \in Calls, CallStep(c) PROVE Rate'
    <2>1. ASSUME NEW blocked \in BOOLEAN, Enter(c, blocked) PROVE Rate'
      BY <1>1, <2>1 DEF Enter, limits, history
    <2>2. ASSUME NEW valid \in BOOLEAN, Return(c, valid) PROVE Rate'
      BY <1>1, <2>2 DEF Return
    <2>3. CASE LoseAnswer(c) \/ Fail(c)
      BY <1>1, <2>3 DEF LoseAnswer, Fail, limits, history
    <2>4. CASE LocalInvoke(c)
      BY <1>1, <2>4 DEF LocalInvoke
    <2>. QED BY <1>2, <1>5, <2>1, <2>2, <2>3, <2>4 DEF CallStep
  <1>6. ASSUME NEW tools \in [Calls -> Tools \cup {NoTool}], ModelCall(tools) PROVE Rate'
    BY <1>1, <1>6 DEF ModelCall, limits
  <1>7. CASE Answer \/ EndTurn \/ Reject
    BY <1>1, <1>7 DEF Answer, EndTurn, Reject, limits, history
  <1>8. ASSUME NEW request \in wire, Serve(request) PROVE Rate'
    BY <1>1, <1>8 DEF Serve
  <1>9. CASE UNCHANGED vars
    BY <1>1, <1>9 DEF vars, control, limits, history
  <1>. QED BY <1>3, <1>4, <1>5, <1>6, <1>7, <1>8, <1>9 DEF Next

\* Without one tool per turn OneBudget says nothing, and a session keeps its discipline.
LEMMA OneBudgetAlways ==
    ASSUME Typed, CallsTyped, Settled, OneBudget, Moves
    PROVE  OneBudget'
  <1>1. setup'.discipline = setup.discipline
    BY DEF Moves, Rests, Asks, Resumes, Enters, Starts, TurnedAway, Stopped, Flies, Returns, InTurn
  <1>2. CASE setup.discipline = "one"
    BY <1>2, OneBudgetStep
  <1>3. CASE setup.discipline # "one"
    BY <1>1, <1>3 DEF OneBudget
  <1>. QED BY <1>2, <1>3

\* The three limits hold however the calls of a turn interleave, whatever the gateway
\* loses and however often a person approves: no session runs more tools than its budget
\* and the calls under way allow, none with one tool per turn beyond the budget, no tool
\* passes the limiter in memory more than MaxPerWindow times in a window, and neither
\* process runs more than MaxChain high-risk tools in a row.
THEOREM LimitsAreHeld == Spec => []LimitsHold
  <1>. DEFINE All == Inv /\ CallsTyped /\ Settled /\ Budget /\ OneBudget /\ Rate
  <1>1. Init => CallsTyped /\ Settled /\ Budget /\ OneBudget /\ Rate
    <2>. SUFFICES ASSUME Init PROVE CallsTyped /\ Settled /\ Budget /\ OneBudget /\ Rate
      OBVIOUS
    <2>1. \A c \in Calls : call[c] = [tool |-> NoTool, at |-> "idle", approved |-> FALSE]
      BY DEF Init
    <2>2. CallsTyped
      <3>1. [t \in Tools |-> << >>] \in [Tools -> Seq(Nat)]
        OBVIOUS
      <3>. QED BY <3>1 DEF Init, CallsTyped, Ats, At
    <2>3. Settled
      BY <2>1 DEF Init, Settled, At
    <2>4. Checked = {} /\ InFlight = {}
      BY <2>1 DEF Checked, InFlight, At
    <2>5. used = 0 /\ executed = 0 /\ Budgeted /\ ~Exhausted
      BY ToolGateAssumption DEF Init, Budgeted, Exhausted, Unbudgeted
    <2>6. Budget
      BY <2>5, SetsFinite DEF Budget
    <2>7. OneBudget
      BY <2>4, <2>5, SetsFinite DEF OneBudget
    <2>8. \A now : IsWindow(<< >>, << >>, now)
      BY DEF IsWindow
    <2>9. Rate
      BY <2>8 DEF Init, Rate
    <2>. QED BY <2>2, <2>3, <2>6, <2>7, <2>9
  <1>2. All /\ [Next]_vars => All'
    <2>. SUFFICES ASSUME All, [Next]_vars PROVE All'
      OBVIOUS
    <2>1. Inv' /\ CallsTyped' /\ Moves
      BY NextInv, NextMoves DEF Inv
    <2>2. Settled'
      BY <2>1, SettledStep
    <2>3. Budget'
      BY <2>1, BudgetStep
    <2>4. OneBudget'
      BY <2>1, OneBudgetAlways DEF Inv
    <2>5. Rate'
      BY <2>1, RateStep
    <2>. QED BY <2>1, <2>2, <2>3, <2>4, <2>5
  <1>3. All => LimitsHold
    <2>. SUFFICES ASSUME All PROVE LimitsHold
      OBVIOUS
    <2>1. ToolBudget
      <3>1. executed <= MaxToolCalls + Cardinality(Calls) - 1
        <4>. DEFINE flying == Cardinality(InFlight)
                    checked == Cardinality(Checked)
                    calls == Cardinality(Calls)
        <4>1. /\ flying \in Nat /\ checked \in Nat /\ calls \in Nat /\ flying + checked <= calls
              /\ MaxToolCalls \in Nat /\ MaxToolCalls > 0
          BY SetsFinite
        <4>2. executed \in Nat
          BY DEF CallsTyped
        <4>3. /\ Budgeted /\ ~Exhausted => executed <= used + flying
              /\ Exhausted => executed + checked <= MaxToolCalls + calls - 1
              /\ ~Budgeted => executed <= MaxToolCalls + calls - 1
          BY DEF Budget
        <4>s. SUFFICES executed <= MaxToolCalls + calls - 1
          OBVIOUS
        <4>. HIDE DEF flying, checked, calls
        <4>4. CASE Exhausted
          BY <4>1, <4>2, <4>3, <4>4
        <4>5. CASE ~Budgeted
          BY <4>3, <4>5
        <4>6. CASE Budgeted /\ ~Exhausted
          <5>1. PICK u \in Nat : u = used
            BY <4>6 DEF CallsTyped, Budgeted
          <5>2. u < MaxToolCalls
            BY <4>1, <4>6, <5>1 DEF Budgeted, Exhausted
          <5>3. executed <= u + flying
            BY <4>3, <4>6, <5>1
          <5>. QED BY <4>1, <4>2, <5>2, <5>3
        <4>. QED BY <4>4, <4>5, <4>6
      <3>. QED BY <3>1 DEF ToolBudget, OneBudget
    <2>2. RateHolds
      <3>. SUFFICES ASSUME setup.limiter = "memory", NEW tool \in Tools,
                           NEW first \in DOMAIN passed[tool], NEW last \in DOMAIN passed[tool],
                           last = first + MaxPerWindow
                    PROVE  passed[tool][last] - passed[tool][first] > Window
        BY DEF RateHolds
      <3>1. first \in 1..Len(passed[tool]) /\ last \in 1..Len(passed[tool])
        BY DEF CallsTyped
      <3>. QED BY <3>1 DEF Rate, IsWindow
    <2>3. ChainBound
      BY DEF Inv, Typed, Chained, ChainBound
    <2>. QED BY <2>1, <2>2, <2>3 DEF LimitsHold
  <1>. HIDE DEF All
  <1>4. Init => All
    BY <1>1, InitInv DEF All
  <1>. QED BY <1>2, <1>3, <1>4, PTL DEF Spec
=============================================================================
