----------------------------- MODULE MCToolGate -----------------------------
EXTENDS ToolGate

MCTools == {"reasoning_step", "rag_query", "run_active_scan"}
MCRisk == [t \in MCTools |-> IF t = "run_active_scan" THEN HIGH ELSE LOW]
MCNone == [read_only |-> {}, plan_blocked |-> {}, mutating |-> {}]
MCPolicy == [allow |-> << >>, risk |-> MCRisk, modes |-> MCNone, scalars |-> << >>]
MCPrefixed == {"run_active_scan"}
MCCalls == {1, 2}
\* Approvals without the gateway; the gateway with high-risk tools that need none; dev.
MCSetups ==
    [discipline : {"none", "one", "sgr"}, required : {TRUE}, limiter : {"memory", "redis"},
     gateway : {FALSE}, threshold : {LOW}, stage : {"prod"}]
    \cup [discipline : {"none", "one"}, required : {TRUE}, limiter : {"memory"}, gateway : {TRUE},
          threshold : {LOW, HIGH}, stage : {"prod"}]
    \cup [discipline : {"sgr"}, required : BOOLEAN, limiter : {"redis"}, gateway : {TRUE},
          threshold : {HIGH}, stage : {"prod"}]
    \cup [discipline : {"one"}, required : {TRUE}, limiter : {"redis"}, gateway : {FALSE},
          threshold : {LOW}, stage : {"dev"}]
=============================================================================
