---------------------------- MODULE MCMagicLinks ----------------------------
(* MagicLinks for TLC. *)
EXTENDS MagicLinks, TLC

Symmetry == Permutations(Requests)
=============================================================================
