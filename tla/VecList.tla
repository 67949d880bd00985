------------------------------ MODULE VecList ------------------------------
(***************************************************************************)
(* What src/vec.h promises: a list of data, positions counted from 0, of   *)
(* at most MAX_VEC_SIZE elements.                                          *)
(***************************************************************************)
EXTENDS Integers, Sequences

CONSTANTS
  Data,
  MAX_VEC_SIZE,
  Index,      \* positions asked for, legal or not
  NULL

VARIABLES
  list,
  call,       \* the last call and its arguments
  result      \* what the last call returned

At(p) == IF p \in 0..Len(list) - 1 THEN list[p + 1] ELSE NULL

Init ==
  /\ \E n \in 0..MAX_VEC_SIZE : list = [i \in 1..n |-> NULL]
  /\ call = <<"new">>
  /\ result = NULL

Pos(p) ==
  /\ call' = <<"pos", p>>
  /\ result' = At(p)
  /\ UNCHANGED list

Set(p, d) ==
  /\ call' = <<"set", p, d>>
  /\ result' = At(p)
  /\ list' = [i \in 1..Len(list) |-> IF i = p + 1 THEN d ELSE list[i]]

Insert(p, d) ==
  /\ call' = <<"insert", p, d>>
  /\ IF p \in 0..Len(list) /\ Len(list) < MAX_VEC_SIZE
       THEN /\ result' = 1
            /\ list' = [i \in 1..Len(list) + 1 |->
                          IF i <= p THEN list[i] ELSE IF i = p + 1 THEN d ELSE list[i - 1]]
       ELSE result' = 0 /\ UNCHANGED list

Remove(p) ==
  /\ call' = <<"remove", p>>
  /\ IF p \in 0..Len(list) - 1
       THEN /\ result' = 1
            /\ list' = [i \in 1..Len(list) - 1 |-> IF i <= p THEN list[i] ELSE list[i + 1]]
       ELSE result' = 0 /\ UNCHANGED list

\* The first position of d, or -1.
Find(d) ==
  /\ call' = <<"find", d>>
  /\ \/ /\ result' \in 0..Len(list) - 1
        /\ list[result' + 1] = d
        /\ \A i \in 1..result' : list[i] # d
     \/ result' = -1 /\ \A i \in 1..Len(list) : list[i] # d
  /\ UNCHANGED list

Next ==
  \/ \E p \in Index : Pos(p) \/ Remove(p)
  \/ \E d \in Data : Find(d) \/ \E p \in Index : Set(p, d) \/ Insert(p, d)

Spec == Init /\ [][Next]_<<list, call, result>>
=============================================================================
