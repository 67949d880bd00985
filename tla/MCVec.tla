------------------------------- MODULE MCVec -------------------------------
(* One pointer beside NULL, and positions on both sides of the legal ones. *)
EXTENDS Vec

CONSTANTS d1

MCData  == {d1}
MCIndex == -1..MAX_VEC_SIZE + 1
=============================================================================
