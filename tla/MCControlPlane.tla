--------------------------- MODULE MCControlPlane ---------------------------
(* Values for the TLC run of ControlPlane. *)
EXTENDS ControlPlane

TwoFindings == {"f1", "f2"}
SomeTraffic == Messages \ {[finding |-> "f2", channel |-> "critic"]}
=============================================================================
