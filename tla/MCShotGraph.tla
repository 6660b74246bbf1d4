---------------------------- MODULE MCShotGraph -----------------------------
(* Three runs are interchangeable: two may overlap before a third is alone.*)
EXTENDS ShotGraph, TLC

RunSymmetry == Permutations(Runs)
=============================================================================
