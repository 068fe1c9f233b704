----------------------------- MODULE MCPlanning -----------------------------
(* Model values for the TLC runs of Planning. *)
EXTENDS Planning

SomePersonas == {"soc", "network", "compliance"}
Pair == <<"network", "soc">>
Trio == <<"network", "soc", "compliance">>
Again == <<"soc", "network", "soc", "compliance">>
SomeAnswers == {<<"unknown">>, Pair, Trio, Again}
ShortFallback == <<"soc">>

Setup(inProcess, useKafka, asyncPlanner, arriving, answers, maxSamples, maxFaults) ==
  [inProcess |-> inProcess, useKafka |-> useKafka, asyncPlanner |-> asyncPlanner,
   arriving |-> arriving, answers |-> answers, maxSamples |-> maxSamples, maxFaults |-> maxFaults]

(* In memory, with two events, or with a longer plan and changing trust, or  *)
(* planning inside the request or the router daemon with Kafka in front.     *)
InMemory ==
  {Setup(TRUE, FALSE, TRUE, Events, {<<"unknown">>, Pair}, 0, 1),
   Setup(TRUE, FALSE, TRUE, {"e1"}, SomeAnswers, 1, 1),
   Setup(TRUE, TRUE, FALSE, Events, {<<"unknown">>, Pair}, 0, 0)}

(* Postgres, with one event and jobs that may be delivered twice, with the  *)
(* router daemon in front, and with two events.                             *)
Postgres ==
  {Setup(FALSE, FALSE, TRUE, {"e1"}, {<<"unknown">>, Pair, Trio}, 0, 1),
   Setup(FALSE, FALSE, TRUE, {"e1"}, {Again}, 0, 0),
   Setup(FALSE, TRUE, TRUE, {"e1"}, {Pair}, 0, 0),
   Setup(FALSE, FALSE, TRUE, Events, {<<"unknown">>}, 0, 0)}

Supported == InMemory \cup Postgres
=============================================================================
