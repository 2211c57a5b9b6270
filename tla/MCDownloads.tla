----------------------------- MODULE MCDownloads -----------------------------
(* Downloads with chunks that are interchangeable.                         *)
EXTENDS Downloads, TLC

MCSymmetry == Permutations(Hashes)
=============================================================================
