---------------------------- MODULE MCStatusFeed ----------------------------
(* Model values for the TLC runs of StatusFeed. *)
EXTENDS StatusFeed

TwoWriters == {"api", "coordinator"}
=============================================================================
