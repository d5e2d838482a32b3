---------------------------- MODULE MCRomUploads ----------------------------
(* RomUploads for TLC: files and uploads are interchangeable. *)
EXTENDS RomUploads, TLC

Symmetry == Permutations(Uploads) \cup Permutations(Files)
=============================================================================
