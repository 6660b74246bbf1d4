-------------------------- MODULE MCFileEmbedding ---------------------------
EXTENDS FileEmbedding, TLC

(* Contents are interchangeable, and so are the calls.                     *)
FileSymmetry == Permutations(Contents) \cup Permutations(Calls) \cup Permutations(Paths)
=============================================================================
