----------------------------- MODULE MCAgentBus -----------------------------
(* Model values for the TLC runs of AgentBus. *)
EXTENDS AgentBus

SomeNames == {"soc", "redteam"}
SomeAgents == {"soc", "redteam"}
TrustLevels == [a \in SomeAgents |-> IF a = "redteam" THEN PRIVILEGED ELSE 1]
AllRecipients == [a \in SomeAgents |-> SomeNames \ {a}]
ToRedteam == {<<"soc", "redteam">>}

(* redteam does not fail in the run: one breaker at work is enough. *)
SocFails == [a \in SomeAgents |-> IF a = "soc" THEN 4 ELSE 0]
=============================================================================
