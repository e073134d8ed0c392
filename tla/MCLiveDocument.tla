--------------------------- MODULE MCLiveDocument ---------------------------
(* Instances of LiveDocument for TLC. *)
EXTENDS LiveDocument, TLC

Symmetry == Permutations(Users)
=============================================================================
