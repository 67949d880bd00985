------------------------------- MODULE MCPool -------------------------------
(***************************************************************************)
(* Small instances of Pool: a small pool that a child thread asks for      *)
(* first and larger ones, pages of three records or of two cells.          *)
(***************************************************************************)
EXTENDS Pool, TLC

CONSTANTS small, large, p1, p2, p3, p4, h, x, c1, c2, c3, m1

MCPools     == {small, large}
MCSmallPool == {small}
MCPage      == {p1, p2, p3, p4}
MCPoolOf    == p1 :> small @@ p2 :> small @@ p3 :> large @@ p4 :> large
MCType      == {h, x}
MCCell      == {c1, c2, c3}
MCCellsOf   == h :> {c1, c2, c3} @@ x :> {c1, c2}
MCBig       == {m1}

MCSymmetry == Permutations({p1, p2}) \cup Permutations({p3, p4})
                \cup Permutations({c1, c2})
=============================================================================
