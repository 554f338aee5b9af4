------------------------------- MODULE MCCanary -------------------------------
(* Small instances of RelayCanary for TLC. *)
EXTENDS RelayCanary, TLC

MCSymmetry == Permutations(Names) \cup Permutations(Runs)
=============================================================================
