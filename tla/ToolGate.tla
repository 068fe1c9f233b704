------------------------------ MODULE ToolGate ------------------------------
(***************************************************************************)
(* The tool calls of one agent session: what stands between the answer of  *)
(* the model and a tool.                                                   *)
(*   Scope -> Security (budget, rate limit, L1 approval) -> SGR or one     *)
(*   tool per turn -> the tool itself, or InvokeTool behind the gateway.   *)
(* The calls of one turn run concurrently. A call gives way where the code *)
(* awaits: in the Redis limiter, at the interrupt of an approval and while *)
(* its tool runs. A resumed session is a new agent: new middlewares, no    *)
(* budget, and tools of the registry instead of the gateway's.             *)
(***************************************************************************)
EXTENDS Policy, Integers, Sequences

CONSTANTS Calls,          \* the places of a turn's tool calls
          Allowed,        \* the tools of the agent definition
          Reasoning,      \* reasoning_step
          ToolPolicy,     \* the policy of the profile
          Setups,         \* the configurations explored
          MaxToolCalls,   \* max_tool_calls of the job
          MaxPerWindow,   \* MAX_TOOL_CALLS_PER_MINUTE
          Window,         \* window_seconds
          MaxChain,       \* MAX_HIGH_RISK_TOOL_CHAIN_DEPTH
          MaxTurns,       \* bound: turns of the model
          MaxClock,       \* bound: seconds
          MaxResumes,     \* bound: approvals
          NoTool          \* a place the model leaves empty

\* discipline: one tool per turn, schema-guided reasoning, or neither; required:
\* require_before_action; limiter: where the windows are kept; gateway: USE_TOOL_GATEWAY; threshold: the
\* risk up to which tools run without approval; stage: STAGE.
AllSetups == [discipline : {"none", "one", "sgr"}, required : BOOLEAN, limiter : {"memory", "redis"},
              gateway : BOOLEAN, threshold : LOW..CRITICAL, stage : {"dev", "prod"}]

ASSUME ToolGateAssumption ==
    /\ Allowed \subseteq Tools /\ Reasoning \in Tools /\ NoTool \notin Tools
    /\ Setups \subseteq AllSetups
    /\ \A t \in Tools : ClassifyToolRisk(t, ToolPolicy) \in LOW..CRITICAL
    /\ {MaxToolCalls, MaxPerWindow, MaxChain} \subseteq Nat \ {0} /\ IsFiniteSet(Calls)
    /\ {Window, MaxTurns, MaxClock, MaxResumes} \subseteq Nat

VARIABLES setup,      \* the configuration
          status,     \* "model", "tools", "paused", "over"
          turn,       \* turns so far
          call,       \* call -> [tool, at, approved]
          count,      \* _tool_calls_this_turn, or action_tools_this_turn
          reasoned,   \* reasoning_done
          used,       \* tool_calls of the session's budget, or Unbudgeted
          bucket,     \* tool -> the times in its window
          chain,      \* place -> consecutive_high_risk
          wire,       \* requests on their way to the gateway: <<call, turn, tool>>
          clock,      \* seconds
          resumes,    \* approvals so far
          acted,      \* history: action tools started since the model was asked
          since,      \* history: the same, since the model or a resume
          thought,    \* history: reasoning_step has returned since the model was asked
          executed,   \* history: tools run under the budget
          passed,     \* history: tool -> times at which this limiter let it pass
          row,        \* history: place -> high-risk tools it ran since a lower one
          denied      \* history: an approved call was turned away by the turn's rules

control == <<setup, status, turn, call, count, reasoned, resumes>>
limits == <<used, bucket, chain, wire>>
history == <<acted, since, thought, executed, passed, row, denied>>
vars == <<control, limits, clock, history>>

Unbudgeted == -1
Places == {"gateway", "worker"}
Ats == {"idle", "new", "checked", "paused", "running", "served", "fallback", "answered", "done"}

Tool(c) == call[c].tool
At(c, at) == call[c].at = at
Put(c, at) == [call EXCEPT ![c].at = at]
IsAction(tool) == setup.discipline = "one" \/ tool # Reasoning

(***************************************************************************)
(* The turn.                                                               *)
(***************************************************************************)
NeedsApproval(tool) == ClassifyToolRisk(tool, ToolPolicy) > setup.threshold

\* Mutant: reasoning_done is not reset.
ResetTurnKeepsReasoning == count' = 0 /\ UNCHANGED reasoned

ResetTurn == count' = 0 /\ reasoned' = FALSE

\* The model answers with tool calls; awrap_model_call has reset the turn. Bound:
\* of the calls of one turn at most one needs an approval.
ModelCall(tools) ==
    /\ status = "model" /\ turn < MaxTurns
    /\ tools # [c \in Calls |-> NoTool]
    /\ \A c, d \in Calls : c # d /\ NoTool \notin {tools[c], tools[d]}
                              => ~NeedsApproval(tools[c]) \/ ~NeedsApproval(tools[d])
    /\ turn' = turn + 1 /\ status' = "tools"
    /\ call' = [c \in Calls |-> [tool |-> tools[c], approved |-> FALSE,
                                 at |-> IF tools[c] = NoTool THEN "idle" ELSE "new"]]
    /\ ResetTurn
    /\ acted' = 0 /\ since' = 0 /\ thought' = FALSE
    /\ UNCHANGED <<setup, resumes, limits, clock, executed, passed, row, denied>>

\* The model answers without a call.
Answer ==
    /\ status = "model" /\ status' = "over"
    /\ UNCHANGED <<setup, turn, call, count, reasoned, resumes, limits, clock, history>>

\* Every call of the turn has its answer, or waits for an approval.
EndTurn ==
    /\ status = "tools"
    /\ \A c \in Calls : call[c].at \in {"idle", "done", "paused"}
    /\ status' = IF \E c \in Calls : At(c, "paused") THEN "paused" ELSE "model"
    /\ UNCHANGED <<setup, turn, call, count, reasoned, resumes, limits, clock, history>>

(***************************************************************************)
(* SecurityMiddleware.                                                     *)
(***************************************************************************)
Exhausted == used # Unbudgeted /\ used >= MaxToolCalls

\* Without Redis nothing awaits between the budget and the limiter.
MayStep(c) == setup.limiter = "memory" => \A d \in Calls \ {c} : ~At(d, "checked")

\* ScopePolicy: a tool of the agent, and no argument that names a blocked path.
CheckToolCall(tool, blocked) == tool \in Allowed /\ ~blocked

\* ScopeMiddleware, then the budget. An approved call comes with the arguments that
\* were let through before.
Enter(c, blocked) ==
    /\ status = "tools" /\ At(c, "new") /\ MayStep(c)
    /\ call[c].approved => ~blocked
    /\ call' = Put(c, IF CheckToolCall(Tool(c), blocked) /\ ~Exhausted THEN "checked" ELSE "done")
    /\ UNCHANGED <<setup, status, turn, count, reasoned, resumes, limits, clock, history>>

\* The sliding windows, the oldest calls first. In memory every call that passes counts
\* and the oldest go when they are older than the window. In Redis the member is the
\* second, so that the calls of one second count once, and a call counts before it is
\* refused.
InWindow(tool) ==
    LET times == bucket[tool]
        expired == {i \in DOMAIN times : IF setup.limiter = "memory" THEN clock - times[i] > Window
                                         ELSE times[i] <= clock - Window}
    IN  SubSeq(times, Cardinality(expired) + 1, Len(times))

Limited(tool) ==
    LET kept == InWindow(tool)
        member == \E i \in DOMAIN kept : kept[i] = clock
    IN  IF setup.limiter = "memory"
        THEN [allow  |-> Len(kept) < MaxPerWindow,
              bucket |-> IF Len(kept) < MaxPerWindow THEN Append(kept, clock) ELSE kept]
        ELSE LET added == IF member THEN kept ELSE Append(kept, clock)
             IN  [allow |-> Len(added) <= MaxPerWindow, bucket |-> added]

\* The gate of SGR: a reasoning_step has returned, or none is required.
Prepared == setup.required => reasoned

\* Mutant: the comparison that follows the increment is made before it.
MayRunEarly(tool) ==
    \/ setup.discipline = "none"
    \/ setup.discipline = "one" /\ count <= 1
    \/ setup.discipline = "sgr" /\ (tool = Reasoning \/ (Prepared /\ count = 0))

\* OneToolPerTurnMiddleware, or the gate of SGR and SgrOneToolMiddleware behind it.
MayRun(tool) ==
    \/ setup.discipline = "none"
    \/ setup.discipline = "one" /\ count = 0
    \/ setup.discipline = "sgr" /\ (tool = Reasoning \/ (Prepared /\ count = 0))

\* One tool per turn counts the calls it turns away too, SGR the actions it lets through.
Raised(tool) ==
    IF setup.discipline = "one" \/ (setup.discipline = "sgr" /\ tool # Reasoning /\ MayRun(tool))
    THEN count + 1 ELSE count

\* record_tool_call: what the budget has after one more call.
Recorded == IF used = Unbudgeted \/ Exhausted THEN used ELSE used + 1

\* The call goes on to the inner middlewares. What they turn away is answered at
\* once and counted like a tool that ran.
Dispatch(c) ==
    /\ count' = Raised(Tool(c))
    /\ IF MayRun(Tool(c))
       THEN /\ call' = Put(c, "running")
            /\ wire' = IF setup.gateway THEN wire \cup {<<c, turn, Tool(c)>>} ELSE wire
            /\ acted' = IF IsAction(Tool(c)) THEN acted + 1 ELSE acted
            /\ since' = IF IsAction(Tool(c)) THEN since + 1 ELSE since
            /\ executed' = IF used = Unbudgeted THEN executed ELSE executed + 1
            /\ UNCHANGED <<used, denied>>
       ELSE /\ call' = Put(c, "done")
            /\ used' = Recorded
            /\ denied' = (denied \/ call[c].approved)
            /\ UNCHANGED <<wire, acted, since, executed>>

\* The rate limit, then _await_hitl_if_needed. An interrupt leaves the call paused;
\* in dev it is refused.
Limit(c) ==
    /\ status = "tools" /\ At(c, "checked")
    /\ LET limited == Limited(Tool(c))
       IN  /\ bucket' = [bucket EXCEPT ![Tool(c)] = limited.bucket]
           /\ passed' = IF limited.allow THEN [passed EXCEPT ![Tool(c)] = Append(@, clock)] ELSE passed
           /\ IF limited.allow /\ (NeedsApproval(Tool(c)) => setup.stage # "dev" /\ call[c].approved)
              THEN Dispatch(c)
              ELSE /\ call' = Put(c, IF limited.allow /\ setup.stage # "dev" THEN "paused" ELSE "done")
                   /\ UNCHANGED <<count, wire, acted, since, executed, used, denied>>
    /\ UNCHANGED <<setup, status, turn, reasoned, resumes, chain, clock, thought, row>>

(***************************************************************************)
(* The tool. Behind the gateway InvokeTool runs it, in the gateway's       *)
(* process or, when the request fails for whatever reason, once more in    *)
(* the worker's. A request that was given up may still be served.          *)
(***************************************************************************)
IsHighRisk(tool) == ClassifyToolRisk(tool, DefaultPolicy) >= HIGH

\* Mutant: the depth is checked after the tool has been counted.
CheckToolChainLate(place, tool) == ~IsHighRisk(tool) \/ chain[place] <= MaxChain

CheckToolChain(place, tool) == ~IsHighRisk(tool) \/ chain[place] < MaxChain

\* InvokeTool.execute: the chain's depth, the backend, the audit record.
InvokeTool(place, tool) ==
    IF CheckToolChain(place, tool)
    THEN /\ chain' = [chain EXCEPT ![place] = IF IsHighRisk(tool) THEN @ + 1 ELSE 0]
         /\ row' = [row EXCEPT ![place] = IF IsHighRisk(tool) THEN @ + 1 ELSE 0]
    ELSE UNCHANGED <<chain, row>>

Serve(request) ==
    /\ request \in wire /\ status # "over"
    /\ wire' = wire \ {request}
    /\ InvokeTool("gateway", request[3])
    /\ call' = IF request[2] = turn /\ At(request[1], "running") THEN Put(request[1], "served") ELSE call
    /\ UNCHANGED <<setup, status, turn, count, reasoned, resumes, used, bucket, clock,
                   acted, since, thought, executed, passed, denied>>

\* The request fails: not delivered, refused, timed out, or its answer lost.
LoseAnswer(c) ==
    /\ (setup.gateway /\ At(c, "running")) \/ At(c, "served")
    /\ status = "tools" /\ call' = Put(c, "fallback")
    /\ UNCHANGED <<setup, status, turn, count, reasoned, resumes, limits, clock, history>>

\* The calls of a turn may be here in several threads. check_tool_chain is one action:
\* from the read of the depth to its write nothing is called at which the interpreter
\* could pass its lock on.
LocalInvoke(c) ==
    /\ status = "tools" /\ At(c, "fallback")
    /\ InvokeTool("worker", Tool(c))
    /\ call' = Put(c, "answered")
    /\ UNCHANGED <<setup, status, turn, count, reasoned, resumes, used, bucket, wire, clock,
                   acted, since, thought, executed, passed, denied>>

\* The tool's answer on its way out: SGR notes the reasoning, whose arguments may be
\* invalid, and the budget counts the call. A budget used up meanwhile makes it an error.
Return(c, valid) ==
    /\ status = "tools"
    /\ At(c, "served") \/ At(c, "answered") \/ (At(c, "running") /\ ~setup.gateway)
    /\ call' = Put(c, "done")
    /\ used' = Recorded
    /\ reasoned' = (reasoned \/ (Tool(c) = Reasoning /\ valid))
    /\ thought' = (thought \/ (Tool(c) = Reasoning /\ valid))
    /\ UNCHANGED <<setup, status, turn, count, resumes, bucket, chain, wire, clock,
                   acted, since, executed, passed, row, denied>>

\* A tool of the registry that raises ends the session.
Fail(c) ==
    /\ status = "tools" /\ At(c, "running") /\ ~setup.gateway
    /\ status' = "over"
    /\ UNCHANGED <<setup, turn, call, count, reasoned, resumes, limits, clock, history>>

(***************************************************************************)
(* Approval: the worker's run has ended and its budget is cleared; aresume *)
(* builds the agent anew and runs the paused call again from the start.    *)
(***************************************************************************)
\* Mutant: the middlewares of the paused session are used again.
NewMiddlewaresKept == UNCHANGED <<count, reasoned>>

\* _build_middleware: the counters of the turn start anew.
NewMiddlewares == count' = 0 /\ reasoned' = FALSE

Aresume ==
    /\ status = "paused" /\ resumes < MaxResumes
    /\ status' = "tools" /\ resumes' = resumes + 1
    /\ call' = [c \in Calls |-> IF At(c, "paused") THEN [call[c] EXCEPT !.at = "new", !.approved = TRUE]
                                ELSE call[c]]
    /\ setup' = [setup EXCEPT !.gateway = FALSE]
    /\ used' = Unbudgeted
    /\ NewMiddlewares /\ since' = 0
    /\ bucket' = IF setup.limiter = "memory" THEN [t \in Tools |-> << >>] ELSE bucket
    /\ passed' = IF setup.limiter = "memory" THEN [t \in Tools |-> << >>] ELSE passed
    /\ UNCHANGED <<turn, chain, wire, clock, acted, thought, executed, row, denied>>

\* ResumeHitlJob with decision "reject": the job has failed.
Reject ==
    /\ status = "paused" /\ status' = "over"
    /\ UNCHANGED <<setup, turn, call, count, reasoned, resumes, limits, clock, history>>

Tick ==
    /\ clock < MaxClock /\ clock' = clock + 1
    /\ UNCHANGED <<control, limits, history>>

Init ==
    /\ setup \in Setups
    /\ status = "model" /\ turn = 0
    /\ call = [c \in Calls |-> [tool |-> NoTool, at |-> "idle", approved |-> FALSE]]
    /\ count = 0 /\ reasoned = FALSE /\ resumes = 0
    /\ used = 0 /\ bucket = [t \in Tools |-> << >>]
    /\ chain = [p \in Places |-> 0] /\ wire = {} /\ clock = 0
    /\ acted = 0 /\ since = 0 /\ thought = FALSE /\ executed = 0
    /\ passed = [t \in Tools |-> << >>] /\ row = [p \in Places |-> 0] /\ denied = FALSE

CallStep(c) ==
    \/ \E blocked \in BOOLEAN : Enter(c, blocked)
    \/ Limit(c)
    \/ LoseAnswer(c)
    \/ LocalInvoke(c)
    \/ \E valid \in BOOLEAN : Return(c, valid)
    \/ Fail(c)

Next ==
    \/ \E tools \in [Calls -> Tools \cup {NoTool}] : ModelCall(tools)
    \/ Answer
    \/ EndTurn
    \/ \E c \in Calls : CallStep(c)
    \/ \E request \in wire : Serve(request)
    \/ Aresume
    \/ Reject
    \/ Tick

Spec == Init /\ [][Next]_vars

(***************************************************************************)
(* Properties.                                                             *)
(***************************************************************************)
\* One tool per turn, or one action under SGR: of the calls that run concurrently
\* between two answers of the model or an approval, one action is started.
ActionsPerTurn == setup.discipline # "none" => since <= 1

\* Under SGR with require_before_action no action is started in a turn before a
\* reasoning_step of that turn has returned, whatever the order of its concurrent calls.
ReasonedFirst == setup.discipline = "sgr" /\ setup.required /\ acted > 0 => thought

\* A job's tools are checked before they run and counted after: the budget is exceeded
\* by no more than the calls that run at the same time, and with one tool per turn never.
ToolBudget ==
    /\ executed <= MaxToolCalls + Cardinality(Calls) - 1
    /\ setup.discipline = "one" => executed <= MaxToolCalls

\* The limiter in memory lets a tool pass no more than MaxPerWindow times in any window:
\* of MaxPerWindow + 1 passes in a row the last is more than a window after the first.
RateHolds ==
    setup.limiter = "memory" =>
        \A tool \in Tools : \A first, last \in DOMAIN passed[tool] :
            last = first + MaxPerWindow => passed[tool][last] - passed[tool][first] > Window

\* Neither the gateway nor the worker runs more than MaxChain high-risk tools in a row.
ChainBound == \A p \in Places : row[p] <= MaxChain

\* The three limits, however the calls of a turn interleave and whatever the gateway
\* loses.
LimitsHold == ToolBudget /\ RateHolds /\ ChainBound

\* A tool call that a person approved is not turned away afterwards by the rules of the
\* turn it belongs to (without SGR, whose reasoning is forgotten at the approval).
ApprovedRuns == setup.discipline # "sgr" => ~denied
=============================================================================
