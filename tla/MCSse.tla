-------------------------------- MODULE MCSse --------------------------------
(* Small instances of RelaySse for TLC. *)
EXTENDS RelaySse, TLC

MCSymmetry == Permutations(Posts)
=============================================================================
