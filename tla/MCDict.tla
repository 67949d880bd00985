------------------------------- MODULE MCDict -------------------------------
(***************************************************************************)
(* Six keys in five classes: two of them are equal, a third shares their   *)
(* bucket, and together they can use all of two or four buckets.           *)
(***************************************************************************)
EXTENDS Dict, TLC

CONSTANTS one, oneF, two, three, four, five, c1, c2, c3, c4, c5, v1, v2

MCKey     == {one, oneF, two, three, four, five}
MCValue   == {v1, v2}
MCClass   == {c1, c2, c3, c4, c5}
MCClassOf == one :> c1 @@ oneF :> c1 @@ two :> c2 @@ three :> c3 @@ four :> c4 @@ five :> c5
MCHashOf  == c1 :> 1 @@ c2 :> 2 @@ c3 :> 3 @@ c4 :> 4 @@ c5 :> 5

MCSymmetry == Permutations(MCValue)
=============================================================================
