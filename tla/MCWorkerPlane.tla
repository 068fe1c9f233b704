---------------------------- MODULE MCWorkerPlane ----------------------------
(* Model values for the TLC runs of WorkerPlane. *)
EXTENDS WorkerPlane, TLC

OnePersona == <<"soc">>
TwoPersonas == <<"soc", "network">>
ThreePersonas == <<"soc", "network", "threat_intel">>
WorkerSymmetry == Permutations(Workers) \cup Permutations(Requests)
NoneDangerous == {}
FirstDangerous == {1}
SecondDangerous == {2}
=============================================================================
