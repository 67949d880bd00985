------------------------------ MODULE MCThreads ------------------------------
(* Model values of Threads: main, two children and two ids. *)
EXTENDS Threads

CONSTANTS m, a, b, i, j, d

MCThread == {m, a, b}
MCId == {i, j}
MCData == {d}

=============================================================================
