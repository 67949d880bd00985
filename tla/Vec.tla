-------------------------------- MODULE Vec --------------------------------
(***************************************************************************)
(* The vec of src/vec.c: an array that is doubled when it is full and      *)
(* halved when less than a quarter of it is used.  The operand stack, the  *)
(* opcodes and constants of a code and the elements of a vec object are    *)
(* vecs.  vec_free ends the life of the vec and vec_concat makes a new     *)
(* one; they are not actions, nor is running out of memory, which ends the *)
(* program.                                                                *)
(***************************************************************************)
EXTENDS Integers, Sequences

CONSTANTS
  Data,             \* pointers
  VEC_REQ_SIZE,
  MAX_VEC_SIZE,
  Index,            \* positions asked for, legal or not
  NULL,
  UNKNOWN           \* whatever is in memory

ASSUME VecAssumption ==
  /\ VEC_REQ_SIZE \in Nat \ {0}
  /\ MAX_VEC_SIZE \in Nat /\ VEC_REQ_SIZE <= MAX_VEC_SIZE
  /\ -1..MAX_VEC_SIZE \subseteq Index /\ Index \subseteq Int
  /\ NULL \notin Data /\ UNKNOWN \notin Data \cup {NULL}

VARIABLES
  vec,        \* the vec_t
  call,       \* the last call and its arguments
  result      \* what the last call returned

vars == <<vec, call, result>>

-----------------------------------------------------------------------------
(* vec.c *)

vec_new(n) ==
  LET req == IF n < VEC_REQ_SIZE THEN VEC_REQ_SIZE ELSE n
  IN  [size |-> n, allocated |-> req, v |-> [i \in 0..req - 1 |-> NULL]]

TooBig(req) == req > MAX_VEC_SIZE

\* Mutant: halved when half of the array is free.
new_req_eager(x, req) ==
  IF req > x.allocated /\ x.allocated < MAX_VEC_SIZE
    THEN IF 2 * x.allocated > MAX_VEC_SIZE THEN MAX_VEC_SIZE ELSE 2 * x.allocated
  ELSE IF req <= x.allocated \div 2
    THEN IF x.allocated \div 2 < VEC_REQ_SIZE THEN VEC_REQ_SIZE ELSE x.allocated \div 2
  ELSE x.allocated

NewReq(x, req) ==
  IF req > x.allocated /\ x.allocated < MAX_VEC_SIZE
    THEN IF 2 * x.allocated > MAX_VEC_SIZE THEN MAX_VEC_SIZE ELSE 2 * x.allocated
  ELSE IF req < x.allocated \div 4
    THEN IF x.allocated \div 2 < VEC_REQ_SIZE THEN VEC_REQ_SIZE ELSE x.allocated \div 2
  ELSE x.allocated

\* Mutant: allocated keeps its value.
resize_unrecorded(x, req) ==
  LET n == NewReq(x, req)
  IN  IF n = x.allocated THEN x
      ELSE [size |-> x.size, allocated |-> x.allocated,
            v |-> [i \in 0..n - 1 |-> IF i < x.size THEN x.v[i] ELSE UNKNOWN]]

\* pool_alloc leaves the new array as it is, memcpy fills x.size entries.
vec_check_and_resize(x, req) ==
  LET n == NewReq(x, req)
  IN  IF n = x.allocated THEN x
      ELSE [size |-> x.size, allocated |-> n,
            v |-> [i \in 0..n - 1 |-> IF i < x.size THEN x.v[i] ELSE UNKNOWN]]

\* vec_insert, once its checks are passed.
Inserted(x, pos, d) ==
  LET y == vec_check_and_resize(x, x.size + 1)
  IN  [size |-> x.size + 1, allocated |-> y.allocated,
       v |-> [i \in DOMAIN y.v |->
                IF i = pos THEN d
                ELSE IF pos < i /\ i <= x.size THEN y.v[i - 1]
                ELSE y.v[i]]]

\* The loop of vec_remove goes on to v[size], which a full array does not have.
Shifted(x, pos) ==
  [x EXCEPT !.v = [i \in DOMAIN x.v |->
                     IF pos <= i /\ i < x.size
                       THEN IF i + 1 \in DOMAIN x.v THEN x.v[i + 1] ELSE UNKNOWN
                       ELSE x.v[i]]]

\* Mutant: the array is resized, and copied, before the elements are moved.
removed_after_resize(x, pos) ==
  LET y == vec_check_and_resize([x EXCEPT !.size = @ - 1], x.size - 1)
  IN  Shifted(y, pos)

\* vec_remove, once its checks are passed.
Removed(x, pos) ==
  [vec_check_and_resize(Shifted(x, pos), x.size - 1) EXCEPT !.size = x.size - 1]

-----------------------------------------------------------------------------
(* Actions. *)

Init ==
  /\ \E n \in 0..MAX_VEC_SIZE : vec = vec_new(n)
  /\ call = <<"new">>
  /\ result = NULL

Positions == 0..vec.size - 1

vec_pos(pos) ==
  /\ call' = <<"pos", pos>>
  /\ result' = IF pos \in Positions THEN vec.v[pos] ELSE NULL
  /\ UNCHANGED vec

vec_set(pos, d) ==
  /\ call' = <<"set", pos, d>>
  /\ IF pos \in Positions
       THEN /\ result' = vec.v[pos]
            /\ vec' = [vec EXCEPT !.v[pos] = d]
       ELSE result' = NULL /\ UNCHANGED vec

vec_insert(pos, d) ==
  /\ call' = <<"insert", pos, d>>
  /\ IF pos \in 0..vec.size /\ ~TooBig(vec.size + 1)
       THEN result' = 1 /\ vec' = Inserted(vec, pos, d)
       ELSE result' = 0 /\ UNCHANGED vec

\* Its rollback is for a request above MAX_VEC_SIZE, which one element less never is.
vec_remove(pos) ==
  /\ call' = <<"remove", pos>>
  /\ IF pos \in Positions /\ ~TooBig(vec.size - 1)
       THEN result' = 1 /\ vec' = Removed(vec, pos)
       ELSE result' = 0 /\ UNCHANGED vec

vec_push_back(d)  == vec_insert(vec.size, d)
vec_pop_back      == vec_remove(vec.size - 1)
vec_push_front(d) == vec_insert(0, d)
vec_pop_front     == vec_remove(0)

\* vec_first and vec_last answer NULL for an empty vec, as vec_pos does.
vec_first == vec_pos(0)
vec_last  == vec_pos(vec.size - 1)

\* With no function given, pointers are compared.
vec_find(d) ==
  /\ call' = <<"find", d>>
  /\ \/ /\ result' \in Positions
        /\ vec.v[result'] = d
        /\ \A i \in 0..result' - 1 : vec.v[i] # d
     \/ result' = -1 /\ \A i \in Positions : vec.v[i] # d
  /\ UNCHANGED vec

ListOf(x) == [i \in 1..x.size |-> x.v[i - 1]]

Next ==
  \/ \E pos \in Index : vec_pos(pos) \/ vec_remove(pos)
  \/ vec_first \/ vec_last \/ vec_pop_back \/ vec_pop_front
  \/ \E d \in Data : \/ \E pos \in Index : vec_set(pos, d) \/ vec_insert(pos, d)
                     \/ vec_push_back(d)
                     \/ vec_push_front(d)
                     \/ vec_find(d)

Spec == Init /\ [][Next]_vars

-----------------------------------------------------------------------------
(* Properties. *)

\* Type invariant: the array has the entries that allocated says.
TypeOK ==
  /\ vec.size \in Nat /\ vec.allocated \in Nat
  /\ vec.v \in [0..vec.allocated - 1 -> Data \cup {NULL, UNKNOWN}]
  /\ result \in Data \cup Int \cup {NULL}

\* The elements are inside the array, which is never larger than MAX_VEC_SIZE nor
\* smaller than its first size, and no element is left unwritten by a copy to a
\* new array or by the read beyond the end in vec_remove.
Fits ==
  /\ vec.size <= vec.allocated
  /\ vec.allocated \in VEC_REQ_SIZE..MAX_VEC_SIZE
  /\ \A i \in Positions : vec.v[i] # UNKNOWN

\* Copies are paid for by many calls: an array that has just been doubled is not
\* halved by the next vec_remove, and one just halved not doubled by the next
\* vec_insert, so a stack that goes up and down at a limit is not copied each time.
NoThrash ==
  [][/\ vec'.allocated > vec.allocated => NewReq(vec', vec'.size - 1) >= vec'.allocated
     /\ vec'.allocated < vec.allocated => NewReq(vec', vec'.size + 1) <= vec'.allocated]_vars

List == INSTANCE VecList WITH list <- ListOf(vec)

\* The array is a list: every call, with the arguments it was given, returns and
\* leaves what it would of a list, through every doubling and halving.
ImplementsList == List!Spec
=============================================================================
