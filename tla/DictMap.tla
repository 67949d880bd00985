------------------------------ MODULE DictMap ------------------------------
(***************************************************************************)
(* What src/dict.h promises: a map from keys to values.  Keys are objects, *)
(* and two objects can be equal (1 and 1.0): the map keeps the one it was  *)
(* first given, so that the owner of the references can let go of it.      *)
(***************************************************************************)
CONSTANTS
  Key, Value,
  Class,      \* what equal keys have in common
  ClassOf,
  NULL

VARIABLES
  map,        \* class -> the key object and its value
  call,       \* the last call and its arguments
  result      \* what the last call returned

SetReturns(k, v) ==
  IF ClassOf[k] \in DOMAIN map THEN map[ClassOf[k]].second ELSE v

Init == map = [c \in {} |-> NULL] /\ call = <<"new">> /\ result = NULL

Set(k, v) ==
  /\ call' = <<"set", k, v>>
  /\ map' = [c \in DOMAIN map \cup {ClassOf[k]} |->
               IF c # ClassOf[k] THEN map[c]
               ELSE [first  |-> IF c \in DOMAIN map THEN map[c].first ELSE k,
                     second |-> v]]
  /\ result' = SetReturns(k, v)

Get(k) ==
  /\ call' = <<"get", k>>
  /\ result' = IF ClassOf[k] \in DOMAIN map THEN map[ClassOf[k]].second ELSE NULL
  /\ UNCHANGED map

Remove(k) ==
  /\ call' = <<"remove", k>>
  /\ IF ClassOf[k] \in DOMAIN map
       THEN /\ result' = map[ClassOf[k]]
            /\ map' = [c \in DOMAIN map \ {ClassOf[k]} |-> map[c]]
       ELSE result' = NULL /\ UNCHANGED map

Next ==
  \E k \in Key : \/ \E v \in Value : Set(k, v)
                 \/ Get(k)
                 \/ Remove(k)

Spec == Init /\ [][Next]_<<map, call, result>>
=============================================================================
