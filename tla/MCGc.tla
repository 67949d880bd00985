-------------------------------- MODULE MCGc --------------------------------
(***************************************************************************)
(* Instances of Gc with a few vecs and low thresholds.                     *)
(***************************************************************************)
EXTENDS Gc, TLC

CONSTANTS o1, o2, o3

MCObj       == {o1, o2, o3}
MCThreshold == 0 :> 1 @@ 1 :> 0 @@ 2 :> 0
MCSymmetry  == Permutations(MCObj)
=============================================================================
