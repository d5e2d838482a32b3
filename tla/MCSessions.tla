----------------------------- MODULE MCSessions -----------------------------
(* Sessions for TLC: the request slots are interchangeable. *)
EXTENDS Sessions, TLC

Symmetry == Permutations(Requests)
=============================================================================
