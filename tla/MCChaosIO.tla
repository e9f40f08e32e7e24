------------------------------ MODULE MCChaosIO ------------------------------
(***************************************************************************)
(* ChaosIO and its clients for TLC: callers and descriptors are            *)
(* interchangeable model values.                                           *)
(***************************************************************************)
EXTENDS FileScenarios, TLC

Interchange == Permutations(Callers) \cup Permutations(Fds)
=============================================================================
