-------------------------- MODULE MCModalityIndex ---------------------------
EXTENDS ModalityIndex, TLC

(* Runs are interchangeable.                                               *)
RunSymmetry == Permutations(Runs)
=============================================================================
