---------------------------- MODULE MCRetrieval -----------------------------
EXTENDS Retrieval, TLC

(* Two shots of the first medium, and one of the second.                   *)
MCShots == {<<1, 1>>, <<1, 2>>, <<2, 1>>}

MCOrders == {[transcript |-> <<1, 1>> :> 1 @@ <<2, 1>> :> 2 @@ <<1, 2>> :> 3,
              ocr |-> <<2, 1>> :> 1 @@ <<1, 2>> :> 2 @@ <<1, 1>> :> 3]}

MCReciprocal == [k \in 1..3 |-> (61 * 62 * 63) \div (60 + k)]

Asked(scope, modalities, top, keyed) ==
    [scope |-> scope, modalities |-> modalities, top |-> top, keyed |-> keyed]

MCRequests ==
    {Asked({1}, <<"transcript", "ocr">>, 1, TRUE),
     Asked({1, 2}, <<"transcript", "ocr">>, 3, TRUE),
     Asked({2}, <<"visual", "transcript">>, 1, FALSE)}

(* The first medium is ingested once more.                                 *)
MCGenerations == [v \in Media |-> IF v = 1 THEN 2 ELSE 1]

CallSymmetry == Permutations(Calls)
=============================================================================
