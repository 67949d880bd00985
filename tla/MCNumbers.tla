------------------------------ MODULE MCNumbers ------------------------------
(* Model values of Numbers: types of 2 to 8 bits, and the values at their edges. *)
EXTENDS Numbers, TLC

\* char, short, int and long with the order of the real widths.
MCBits == (8 :> 2) @@ (16 :> 3) @@ (32 :> 4) @@ (64 :> 8)

\* A float holds a short and not an int, a double holds an int and not a long.
MCMantissa == [float |-> 3, double |-> 6]

\* Both ends and the middle of an integer type.
Edges(t) ==
  {MinOf(t), MaxOf(t)} \cup (IF TypeOf[t].signed THEN {-1, 0, 1} ELSE {0, Size(t) \div 2})

\* Floating values that have other types' ends, and no type's.
Halves(t) ==
  {n \in {-128, -8, -1, 0, 1, 6, 7, 64, 66, 256} : IsValue(t, n)}

MCLiteral ==
  UNION {{Object(t, n) : n \in IF FLOATING_TYPE(t) THEN Halves(t) ELSE Edges(t)} : t \in Type}

=============================================================================
