----------------------------- MODULE MCProgram -----------------------------
(* Model values of Program: two processes and four texts. *)
EXTENDS Program

CONSTANTS p1, p2, t1, t2, bad, fielded

MCProc == {p1, p2}
MCText == {t1, t2, bad, fielded}
MCBad == {bad}
MCFielded == {fielded}

=============================================================================
