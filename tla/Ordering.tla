------------------------------ MODULE Ordering ------------------------------
(***************************************************************************)
(* Sorting by an order that is given as a set of pairs, as the services do *)
(* with a key.                                                             *)
(***************************************************************************)
EXTENDS Naturals, FiniteSets

(* The place of s among the members of S.                                  *)
Place(S, R, s) == Cardinality({t \in S : <<t, s>> \in R}) + 1

(* The first members of S, at most top, in the order R.                    *)
Sorted(S, R, top) ==
    [k \in 1..(IF top < Cardinality(S) THEN top ELSE Cardinality(S)) |->
        CHOOSE s \in S : Place(S, R, s) = k]
=============================================================================
