------------------------------ MODULE VecProofs ------------------------------
(***************************************************************************)
(* The properties of Vec, for all sizes, limits and data.                  *)
(***************************************************************************)
EXTENDS Vec, SequenceTheorems, TLAPS

Memory == Data \cup {NULL, UNKNOWN}

\* An array of a elements, s of them in use.
Good(x) ==
  /\ x.size \in Nat /\ x.allocated \in VEC_REQ_SIZE..MAX_VEC_SIZE
  /\ x.size <= x.allocated
  /\ x = [size |-> x.size, allocated |-> x.allocated, v |-> x.v]
  /\ x.v \in [0..x.allocated - 1 -> Memory]
  /\ \A i \in 0..x.size - 1 : x.v[i] # UNKNOWN

\* The inductive invariant.
Inv == Good(vec) /\ result \in Data \cup Int \cup {NULL}

-----------------------------------------------------------------------------
(* Sizes. *)

\* The new size is legal and has room for what was there and what is asked for.
LEMMA NewReqRoom ==
  ASSUME NEW x, x.size \in Nat, x.allocated \in VEC_REQ_SIZE..MAX_VEC_SIZE,
         x.size <= x.allocated,
         NEW req \in {x.size - 1, x.size + 1}, req \in 0..MAX_VEC_SIZE
  PROVE  /\ NewReq(x, req) \in VEC_REQ_SIZE..MAX_VEC_SIZE
         /\ x.size <= NewReq(x, req)
         /\ req <= NewReq(x, req)
<1>1. x.allocated \in Nat /\ VEC_REQ_SIZE \in Nat \ {0} /\ MAX_VEC_SIZE \in Nat
      /\ VEC_REQ_SIZE <= MAX_VEC_SIZE /\ VEC_REQ_SIZE <= x.allocated /\ x.allocated <= MAX_VEC_SIZE
  BY VecAssumption
<1>2. CASE req > x.allocated /\ x.allocated < MAX_VEC_SIZE
  BY <1>1, <1>2 DEF NewReq
<1>3. CASE ~(req > x.allocated /\ x.allocated < MAX_VEC_SIZE) /\ req < x.allocated \div 4
  BY <1>1, <1>3 DEF NewReq
<1>4. CASE ~(req > x.allocated /\ x.allocated < MAX_VEC_SIZE) /\ ~(req < x.allocated \div 4)
  BY <1>1, <1>4 DEF NewReq
<1> QED
  BY <1>2, <1>3, <1>4

\* The copy has the elements of the array and room for what is asked for.
LEMMA Resized ==
  ASSUME NEW x, Good(x), NEW req \in {x.size - 1, x.size + 1}, req \in 0..MAX_VEC_SIZE
  PROVE  LET y == vec_check_and_resize(x, req)
         IN  /\ Good(y)
             /\ y.size = x.size
             /\ y.allocated = NewReq(x, req)
             /\ req <= y.allocated
             /\ \A i \in 0..x.size - 1 : y.v[i] = x.v[i]
<1> DEFINE n == NewReq(x, req)
<1>1. /\ n \in VEC_REQ_SIZE..MAX_VEC_SIZE
      /\ x.size <= n
      /\ req <= n
  BY NewReqRoom DEF Good
<1>2. CASE n = x.allocated
  BY <1>1, <1>2 DEF vec_check_and_resize
<1>3. CASE n # x.allocated
  <2> DEFINE w == [i \in 0..n - 1 |-> IF i < x.size THEN x.v[i] ELSE UNKNOWN]
  <2>1. vec_check_and_resize(x, req) = [size |-> x.size, allocated |-> n, v |-> w]
    BY <1>3 DEF vec_check_and_resize
  <2>2. n \in Nat /\ x.size \in Nat /\ x.allocated \in Nat
    BY <1>1, VecAssumption DEF Good
  <2>3. \A i \in 0..x.size - 1 : i \in 0..n - 1 /\ i \in 0..x.allocated - 1 /\ w[i] = x.v[i]
    BY <1>1, <2>2 DEF Good
  <2>4. w \in [0..n - 1 -> Memory]
    BY <2>2 DEF Good, Memory
  <2> HIDE DEF w, n
  <2> QED
    BY <1>1, <2>1, <2>2, <2>3, <2>4 DEF Good, n
<1> QED
  BY <1>2, <1>3

\* vec_insert leaves a good array, whose elements are those of the list.
LEMMA InsertedGood ==
  ASSUME NEW x, Good(x), NEW pos \in 0..x.size, NEW d \in Data, x.size + 1 <= MAX_VEC_SIZE
  PROVE  LET z == Inserted(x, pos, d)
         IN  /\ Good(z)
             /\ z.size = x.size + 1
             /\ z.allocated = NewReq(x, x.size + 1)
             /\ \A i \in 0..x.size :
                  z.v[i] = IF i = pos THEN d ELSE IF pos < i THEN x.v[i - 1] ELSE x.v[i]
<1> DEFINE y == vec_check_and_resize(x, x.size + 1)
           w == [i \in DOMAIN y.v |-> IF i = pos THEN d
                                      ELSE IF pos < i /\ i <= x.size THEN y.v[i - 1]
                                      ELSE y.v[i]]
<1>1. x.size \in Nat /\ pos \in Nat /\ pos <= x.size /\ MAX_VEC_SIZE \in Nat /\ VEC_REQ_SIZE \in Nat
  BY VecAssumption DEF Good
<1>2. /\ Good(y)
      /\ y.size = x.size
      /\ y.allocated = NewReq(x, x.size + 1)
      /\ x.size + 1 <= y.allocated
      /\ \A i \in 0..x.size - 1 : y.v[i] = x.v[i]
  BY <1>1, Resized
<1>3. Inserted(x, pos, d) = [size |-> x.size + 1, allocated |-> y.allocated, v |-> w]
  BY DEF Inserted
<1> HIDE DEF y
<1>4. y.allocated \in Nat /\ DOMAIN y.v = 0..y.allocated - 1
  BY <1>1, <1>2 DEF Good
<1>5. w \in [0..y.allocated - 1 -> Memory]
  <2>1. d \in Memory
    BY DEF Memory
  <2>2. \A i \in 0..y.allocated - 1 : pos < i => i - 1 \in 0..y.allocated - 1
    BY <1>1, <1>4
  <2>3. \A i \in 0..y.allocated - 1 : y.v[i] \in Memory
    BY <1>2 DEF Good
  <2> QED
    BY <1>4, <2>1, <2>2, <2>3
<1>6. \A i \in 0..x.size :
        /\ w[i] = IF i = pos THEN d ELSE IF pos < i THEN x.v[i - 1] ELSE x.v[i]
        /\ w[i] # UNKNOWN
  <2> TAKE i \in 0..x.size
  <2>1. i \in DOMAIN y.v /\ i <= x.size
    BY <1>1, <1>2, <1>4
  <2>2. CASE i = pos
    BY <2>1, <2>2, VecAssumption
  <2>3. CASE pos < i
    <3>1. i - 1 \in 0..x.size - 1
      BY <1>1, <2>3
    <3> QED
      BY <1>1, <1>2, <2>1, <2>3, <3>1 DEF Good
  <2>4. CASE i < pos
    <3>1. i \in 0..x.size - 1
      BY <1>1, <2>4
    <3> QED
      BY <1>1, <1>2, <2>1, <2>4, <3>1 DEF Good
  <2> QED
    BY <1>1, <2>2, <2>3, <2>4
<1> HIDE DEF w
<1>7. \A i \in 0..(x.size + 1) - 1 : w[i] # UNKNOWN
  BY <1>1, <1>6
<1>8. Good([size |-> x.size + 1, allocated |-> y.allocated, v |-> w])
  BY <1>1, <1>2, <1>5, <1>7 DEF Good
<1> QED
  BY <1>2, <1>3, <1>6, <1>8

\* vec_remove leaves a good array, whose elements are those of the list.
LEMMA RemovedGood ==
  ASSUME NEW x, Good(x), NEW pos \in 0..x.size - 1
  PROVE  LET z == Removed(x, pos)
         IN  /\ Good(z)
             /\ z.size = x.size - 1
             /\ z.allocated = NewReq(Shifted(x, pos), x.size - 1)
             /\ NewReq(Shifted(x, pos), x.size - 1) = NewReq(x, x.size - 1)
             /\ \A i \in 0..x.size - 2 : z.v[i] = IF pos <= i THEN x.v[i + 1] ELSE x.v[i]
<1> DEFINE s == Shifted(x, pos)
           n == NewReq(s, x.size - 1)
           w == [i \in DOMAIN x.v |->
                   IF pos <= i /\ i < x.size
                     THEN IF i + 1 \in DOMAIN x.v THEN x.v[i + 1] ELSE UNKNOWN
                     ELSE x.v[i]]
           u == [i \in 0..n - 1 |-> IF i < x.size THEN w[i] ELSE UNKNOWN]
           y == vec_check_and_resize(s, x.size - 1)
<1>1. /\ x.size \in Nat /\ pos \in Nat /\ pos < x.size /\ MAX_VEC_SIZE \in Nat /\ VEC_REQ_SIZE \in Nat
      /\ x.allocated \in Nat /\ DOMAIN x.v = 0..x.allocated - 1 /\ x.size <= x.allocated
      /\ x.allocated <= MAX_VEC_SIZE
  BY VecAssumption DEF Good
<1>2. s = [size |-> x.size, allocated |-> x.allocated, v |-> w]
  <2>1. x = [size |-> x.size, allocated |-> x.allocated, v |-> x.v]
    BY DEF Good
  <2>2. s = [x EXCEPT !.v = w]
    BY DEF Shifted
  <2> HIDE DEF s, w
  <2> QED
    BY <2>1, <2>2
<1>3. n = NewReq(x, x.size - 1)
  BY <1>2 DEF NewReq
<1>4. w \in [0..x.allocated - 1 -> Memory]
  <2>1. \A i \in 0..x.allocated - 1 : x.v[i] \in Memory
    BY DEF Good
  <2> QED
    BY <1>1, <2>1 DEF Memory
<1>5. \A i \in 0..x.size - 2 :
        /\ w[i] = IF pos <= i THEN x.v[i + 1] ELSE x.v[i]
        /\ w[i] # UNKNOWN
  <2> TAKE i \in 0..x.size - 2
  <2>1. i \in DOMAIN x.v /\ i + 1 \in DOMAIN x.v /\ i < x.size
        /\ i \in 0..x.size - 1 /\ i + 1 \in 0..x.size - 1
    BY <1>1
  <2> QED
    BY <2>1 DEF Good
<1>6. /\ n \in VEC_REQ_SIZE..MAX_VEC_SIZE
      /\ x.size <= n
  BY <1>1, <1>3, NewReqRoom DEF Good
<1> HIDE DEF s, w, n
<1>7. y = [size |-> x.size, allocated |-> n, v |-> IF n = x.allocated THEN w ELSE u]
  BY <1>2, Zenon DEF vec_check_and_resize, n
<1>8. Removed(x, pos) = [size |-> x.size - 1, allocated |-> n,
                         v |-> IF n = x.allocated THEN w ELSE u]
  <2>1. Removed(x, pos) = [y EXCEPT !.size = x.size - 1]
    BY DEF Removed, s
  <2> HIDE DEF y, u
  <2> QED
    BY <1>7, <2>1
<1>9. u \in [0..n - 1 -> Memory]
  <2>1. \A i \in 0..n - 1 : i < x.size => i \in 0..x.allocated - 1
    BY <1>1, <1>6
  <2> QED
    BY <1>4, <2>1 DEF Memory
<1>10. \A i \in 0..x.size - 2 : u[i] = w[i]
  BY <1>1, <1>6
<1> HIDE DEF u
<1>11. CASE n = x.allocated
  <2>1. Good([size |-> x.size - 1, allocated |-> n, v |-> w])
    BY <1>1, <1>4, <1>5, <1>6, <1>11 DEF Good
  <2> QED
    BY <1>3, <1>5, <1>8, <1>11, <2>1 DEF n, s
<1>12. CASE n # x.allocated
  <2>1. x.size - 1 \in Nat /\ x.size - 1 <= n
    <3>1. n \in Nat
      BY <1>1, <1>6
    <3> QED
      BY <1>1, <1>6, <3>1
  <2>2. (x.size - 1) - 1 = x.size - 2
    BY <1>1
  <2>3. \A i \in 0..(x.size - 1) - 1 : u[i] # UNKNOWN
    BY <1>5, <1>10, <2>2
  <2>4. Good([size |-> x.size - 1, allocated |-> n, v |-> u])
    BY <1>6, <1>9, <2>1, <2>3 DEF Good
  <2> QED
    BY <1>3, <1>5, <1>8, <1>10, <1>12, <2>4 DEF n, s
<1> QED
  BY <1>11, <1>12

-----------------------------------------------------------------------------
(* The invariant. *)

\* The two calls that change the array.
LEMMA InsertStep ==
  ASSUME Inv, NEW pos \in Int, NEW d \in Data, vec_insert(pos, d)
  PROVE  \/ vec' = vec /\ result' = 0 /\ ~(pos \in 0..vec.size /\ vec.size + 1 <= MAX_VEC_SIZE)
         \/ /\ pos \in 0..vec.size /\ vec.size + 1 <= MAX_VEC_SIZE
            /\ vec' = Inserted(vec, pos, d) /\ result' = 1
<1>1. vec.size \in Nat /\ MAX_VEC_SIZE \in Nat
  BY VecAssumption DEF Inv, Good
<1> QED
  BY <1>1 DEF vec_insert, TooBig

LEMMA RemoveStep ==
  ASSUME Inv, NEW pos \in Int, vec_remove(pos)
  PROVE  \/ vec' = vec /\ result' = 0 /\ pos \notin 0..vec.size - 1
         \/ pos \in 0..vec.size - 1 /\ vec' = Removed(vec, pos) /\ result' = 1
<1>1. /\ vec.size \in Nat /\ vec.allocated \in Nat /\ vec.size <= vec.allocated
      /\ MAX_VEC_SIZE \in Nat /\ vec.allocated <= MAX_VEC_SIZE
  BY VecAssumption DEF Inv, Good
<1>2. ~TooBig(vec.size - 1)
  BY <1>1 DEF TooBig
<1> QED
  BY <1>2 DEF vec_remove, Positions

\* Every action is one of five calls.
LEMMA Calls ==
  ASSUME Inv, Next
  PROVE  \/ \E pos \in Index : vec_pos(pos) \/ vec_remove(pos)
         \/ \E d \in Data, pos \in Index : vec_set(pos, d) \/ vec_insert(pos, d)
         \/ \E d \in Data : vec_find(d)
<1>1. vec.size \in 0..MAX_VEC_SIZE
  BY VecAssumption DEF Inv, Good
<1>2. 0 \in Index /\ vec.size \in Index /\ vec.size - 1 \in Index
  <2>1. \A i \in -1..MAX_VEC_SIZE : i \in Index
    BY VecAssumption
  <2>2. 0 \in -1..MAX_VEC_SIZE /\ vec.size \in -1..MAX_VEC_SIZE /\ vec.size - 1 \in -1..MAX_VEC_SIZE
    BY <1>1, VecAssumption
  <2> QED
    BY <2>1, <2>2
<1>3. CASE vec_first \/ vec_last \/ vec_pop_back \/ vec_pop_front
  BY <1>2, <1>3 DEF vec_first, vec_last, vec_pop_back, vec_pop_front
<1>4. ASSUME NEW d \in Data, vec_push_back(d) \/ vec_push_front(d)
      PROVE  \E pos \in Index : vec_insert(pos, d)
  BY <1>2, <1>4 DEF vec_push_back, vec_push_front
<1> QED
  BY <1>3, <1>4 DEF Next

LEMMA InitInv == Init => Inv
<1> SUFFICES ASSUME Init PROVE Inv
  OBVIOUS
<1>1. PICK n \in 0..MAX_VEC_SIZE : vec = vec_new(n)
  BY DEF Init
<1> DEFINE req == IF n < VEC_REQ_SIZE THEN VEC_REQ_SIZE ELSE n
           w == [i \in 0..req - 1 |-> NULL]
<1>2. n \in Nat /\ req \in VEC_REQ_SIZE..MAX_VEC_SIZE /\ n <= req
  BY VecAssumption
<1>3. vec = [size |-> n, allocated |-> req, v |-> w]
  BY <1>1 DEF vec_new
<1>4. w \in [0..req - 1 -> Memory] /\ \A i \in 0..n - 1 : w[i] # UNKNOWN
  BY <1>2, VecAssumption DEF Memory
<1> HIDE DEF req, w
<1> QED
  BY <1>2, <1>3, <1>4 DEF Init, Inv, Good

\* What is read from the elements is a datum or NULL.
LEMMA ElementOK ==
  ASSUME Inv, NEW pos \in 0..vec.size - 1
  PROVE  vec.v[pos] \in Data \cup {NULL} /\ pos \in 0..vec.allocated - 1
<1>1. pos \in 0..vec.allocated - 1
  BY VecAssumption DEF Inv, Good
<1> QED
  BY <1>1 DEF Inv, Good, Memory

LEMMA StepInv == Inv /\ [Next]_vars => Inv'
<1> SUFFICES ASSUME Inv, [Next]_vars PROVE Inv'
  OBVIOUS
<1>0. Index \subseteq Int
  BY VecAssumption
<1>1. ASSUME NEW pos \in Index, vec_pos(pos)
      PROVE  Inv'
  BY <1>1, ElementOK DEF vec_pos, Positions, Inv
<1>2. ASSUME NEW pos \in Index, vec_remove(pos)
      PROVE  Inv'
  <2>1. result' \in Int
    BY <1>0, <1>2, RemoveStep
  <2>2. Good(vec)'
    BY <1>0, <1>2, RemoveStep, RemovedGood DEF Inv
  <2> QED
    BY <2>1, <2>2 DEF Inv
<1>3. ASSUME NEW d \in Data, NEW pos \in Index, vec_insert(pos, d)
      PROVE  Inv'
  <2>1. result' \in Int
    BY <1>0, <1>3, InsertStep
  <2>2. Good(vec)'
    BY <1>0, <1>3, InsertStep, InsertedGood DEF Inv
  <2> QED
    BY <2>1, <2>2 DEF Inv
<1>4. ASSUME NEW d \in Data, NEW pos \in Index, vec_set(pos, d)
      PROVE  Inv'
  <2>1. CASE pos \in 0..vec.size - 1
    <3>1. result' \in Data \cup {NULL} /\ vec' = [vec EXCEPT !.v[pos] = d]
      BY <1>4, <2>1, ElementOK DEF vec_set, Positions
    <3> DEFINE w == [vec.v EXCEPT ![pos] = d]
    <3>2. vec' = [size |-> vec.size, allocated |-> vec.allocated, v |-> w]
      <4>1. vec = [size |-> vec.size, allocated |-> vec.allocated, v |-> vec.v]
        BY DEF Inv, Good
      <4>2. ASSUME NEW s, NEW a, NEW v
            PROVE  [[size |-> s, allocated |-> a, v |-> v] EXCEPT !.v[pos] = d]
                     = [size |-> s, allocated |-> a, v |-> [v EXCEPT ![pos] = d]]
        OBVIOUS
      <4>3. vec' = [[size |-> vec.size, allocated |-> vec.allocated, v |-> vec.v]
                      EXCEPT !.v[pos] = d]
        BY <3>1, <4>1, Zenon
      <4> QED
        BY <4>2, <4>3, Zenon
    <3>3. w \in [0..vec.allocated - 1 -> Memory] /\ \A i \in 0..vec.size - 1 : w[i] # UNKNOWN
      BY <2>1, ElementOK, VecAssumption DEF Inv, Good, Memory
    <3> HIDE DEF w
    <3>4. Good([size |-> vec.size, allocated |-> vec.allocated, v |-> w])
      BY <3>3 DEF Inv, Good
    <3> QED
      BY <3>1, <3>2, <3>4 DEF Inv
  <2>2. CASE pos \notin 0..vec.size - 1
    BY <1>4, <2>2 DEF vec_set, Positions, Inv
  <2> QED
    BY <2>1, <2>2
<1>5. ASSUME NEW d \in Data, vec_find(d)
      PROVE  Inv'
  BY <1>5 DEF vec_find, Positions, Inv
<1>6. CASE UNCHANGED vars
  BY <1>6 DEF vars, Inv
<1> QED
  BY <1>1, <1>2, <1>3, <1>4, <1>5, <1>6, Calls

LEMMA Invariant == Spec => []Inv
<1> QED
  BY InitInv, StepInv, PTL DEF Spec

\* TypeOK, for every size, limit and set of data: vec_check_and_resize leaves an
\* array of as many entries as allocated says.
THEOREM TypeCorrect == Spec => []TypeOK
<1>1. Inv => TypeOK
  BY VecAssumption DEF Inv, Good, TypeOK, Memory
<1> QED
  BY <1>1, Invariant, PTL

\* Fits, for every size and limit: no call of vec.c makes the vec larger than its
\* array, the array larger than MAX_VEC_SIZE, or an element out of unwritten memory.
THEOREM ElementsFit == Spec => []Fits
<1>1. Inv => Fits
  BY DEF Inv, Good, Fits, Positions
<1> QED
  BY <1>1, Invariant, PTL

-----------------------------------------------------------------------------
(* Copies. *)

\* NewReq after a doubling and after a halving.
LEMMA AfterDoubling ==
  ASSUME NEW x, NEW z, x.size \in Nat, x.allocated \in VEC_REQ_SIZE..MAX_VEC_SIZE,
         x.size <= x.allocated, x.size + 1 <= MAX_VEC_SIZE,
         z.size = x.size + 1, z.allocated = NewReq(x, x.size + 1)
  PROVE  /\ z.allocated > x.allocated => NewReq(z, z.size - 1) >= z.allocated
         /\ z.allocated < x.allocated => NewReq(z, z.size + 1) <= z.allocated
<1>1. /\ x.allocated \in Nat /\ VEC_REQ_SIZE \in Nat \ {0} /\ MAX_VEC_SIZE \in Nat
      /\ VEC_REQ_SIZE <= x.allocated /\ x.allocated <= MAX_VEC_SIZE
  BY VecAssumption
<1>2. CASE x.size + 1 > x.allocated /\ x.allocated < MAX_VEC_SIZE
  <2>1. z.allocated > x.allocated /\ z.allocated <= 2 * x.allocated /\ z.allocated \in Nat
    BY <1>1, <1>2 DEF NewReq
  <2>2. ~(z.size - 1 > z.allocated) /\ ~(z.size - 1 < z.allocated \div 4)
    BY <1>1, <1>2, <2>1
  <2> QED
    BY <2>1, <2>2 DEF NewReq
<1>3. CASE x.size + 1 <= x.allocated /\ x.size + 1 < x.allocated \div 4
  <2>1. /\ z.allocated \in Nat /\ z.allocated <= x.allocated
        /\ x.allocated \div 2 <= z.allocated
    BY <1>1, <1>3 DEF NewReq
  <2>2. ~(z.size + 1 > z.allocated)
    BY <1>1, <1>3, <2>1
  <2> QED
    BY <1>1, <2>1, <2>2 DEF NewReq
<1>4. CASE ~(x.size + 1 > x.allocated) /\ ~(x.size + 1 < x.allocated \div 4)
  BY <1>1, <1>4 DEF NewReq
<1> QED
  BY <1>1, <1>2, <1>3, <1>4

LEMMA AfterHalving ==
  ASSUME NEW x, NEW z, x.size \in Nat \ {0}, x.allocated \in VEC_REQ_SIZE..MAX_VEC_SIZE,
         x.size <= x.allocated,
         z.size = x.size - 1, z.allocated = NewReq(x, x.size - 1)
  PROVE  /\ z.allocated > x.allocated => NewReq(z, z.size - 1) >= z.allocated
         /\ z.allocated < x.allocated => NewReq(z, z.size + 1) <= z.allocated
<1>1. /\ x.allocated \in Nat /\ VEC_REQ_SIZE \in Nat \ {0} /\ MAX_VEC_SIZE \in Nat
      /\ VEC_REQ_SIZE <= x.allocated /\ x.allocated <= MAX_VEC_SIZE
  BY VecAssumption
<1>2. CASE x.size - 1 < x.allocated \div 4
  <2>1. /\ z.allocated \in Nat /\ z.allocated <= x.allocated
        /\ x.allocated \div 2 <= z.allocated
    BY <1>1, <1>2 DEF NewReq
  <2>2. ~(z.size + 1 > z.allocated)
    BY <1>1, <1>2, <2>1
  <2> QED
    BY <1>1, <2>1, <2>2 DEF NewReq
<1>3. CASE ~(x.size - 1 < x.allocated \div 4)
  BY <1>1, <1>3 DEF NewReq
<1> QED
  BY <1>2, <1>3

\* NoThrash, for every size and limit: no two calls in a row copy the array to a
\* larger and back to a smaller one, or the other way round.
THEOREM NoThrashing == Spec => NoThrash
<1> DEFINE A == /\ vec'.allocated > vec.allocated => NewReq(vec', vec'.size - 1) >= vec'.allocated
                /\ vec'.allocated < vec.allocated => NewReq(vec', vec'.size + 1) <= vec'.allocated
<1>1. ASSUME Inv, Next PROVE A
  <2>0. /\ Index \subseteq Int /\ Good(vec) /\ vec.size \in Nat /\ vec.allocated \in Nat
        /\ vec.allocated \in VEC_REQ_SIZE..MAX_VEC_SIZE /\ vec.size <= vec.allocated
    BY <1>1, VecAssumption DEF Inv, Good
  <2>1. CASE vec'.allocated = vec.allocated
    BY <2>0, <2>1
  <2>2. ASSUME NEW pos \in Index, vec_remove(pos)
        PROVE  A
    <3>1. CASE pos \in 0..vec.size - 1 /\ vec' = Removed(vec, pos)
      <4>1. vec'.size = vec.size - 1 /\ vec'.allocated = NewReq(vec, vec.size - 1)
        BY <2>0, <3>1, RemovedGood
      <4>2. vec.size \in Nat \ {0}
        BY <2>0, <3>1
      <4> QED
        BY <2>0, <4>1, <4>2, AfterHalving
    <3> QED
      BY <1>1, <2>0, <2>1, <2>2, <3>1, RemoveStep
  <2>3. ASSUME NEW d \in Data, NEW pos \in Index, vec_insert(pos, d)
        PROVE  A
    <3>1. CASE pos \in 0..vec.size /\ vec.size + 1 <= MAX_VEC_SIZE /\ vec' = Inserted(vec, pos, d)
      <4>1. vec'.size = vec.size + 1 /\ vec'.allocated = NewReq(vec, vec.size + 1)
        BY <2>0, <3>1, InsertedGood
      <4> QED
        BY <2>0, <3>1, <4>1, AfterDoubling
    <3> QED
      BY <1>1, <2>0, <2>1, <2>3, <3>1, InsertStep
  <2>4. ASSUME NEW d \in Data, NEW pos \in Index, vec_set(pos, d)
        PROVE  vec'.allocated = vec.allocated
    BY <2>0, <2>4 DEF vec_set, Good
  <2>5. ASSUME NEW d \in Data, vec_find(d)
        PROVE  vec'.allocated = vec.allocated
    BY <2>5 DEF vec_find
  <2>6. ASSUME NEW pos \in Index, vec_pos(pos)
        PROVE  vec'.allocated = vec.allocated
    BY <2>6 DEF vec_pos
  <2> HIDE DEF A
  <2> QED
    BY <1>1, <2>1, <2>2, <2>3, <2>4, <2>5, <2>6, Calls
<1>2. Inv /\ [Next]_vars => [A]_vars
  BY <1>1
<1>3. Spec => [][A]_vars
  BY <1>2, Invariant, PTL DEF Spec
<1> QED
  BY <1>3 DEF NoThrash

-----------------------------------------------------------------------------
(* The list. *)

LEMMA ListIs ==
  ASSUME NEW x, Good(x)
  PROVE  /\ ListOf(x) \in Seq(Memory)
         /\ Len(ListOf(x)) = x.size
         /\ \A i \in 1..x.size : ListOf(x)[i] = x.v[i - 1]
<1>1. x.size \in Nat /\ x.allocated \in Nat /\ x.size <= x.allocated
  BY VecAssumption DEF Good
<1>2. \A i \in 1..x.size : i - 1 \in 0..x.allocated - 1
  BY <1>1
<1>3. \A i \in 1..x.size : x.v[i - 1] \in Memory
  BY <1>2 DEF Good
<1>4. ListOf(x) \in [1..x.size -> Memory]
  BY <1>3 DEF ListOf
<1>5. \A i \in 1..x.size : ListOf(x)[i] = x.v[i - 1]
  BY DEF ListOf
<1>6. ListOf(x) \in Seq(Memory)
  BY <1>1, <1>4, SeqDef
<1>7. DOMAIN ListOf(x) = 1..x.size
  BY <1>4
<1>8. Len(ListOf(x)) = x.size
  <2>1. Len(ListOf(x)) \in Nat /\ DOMAIN ListOf(x) = 1..Len(ListOf(x))
    BY <1>6, LenProperties
  <2> QED
    BY <1>1, <1>7, <2>1
<1> QED
  BY <1>5, <1>6, <1>8

\* The elements of one vec follow from those of another.
LEMMA ListMade ==
  ASSUME NEW x, Good(x), NEW f \in [1..x.size -> Memory],
         \A i \in 1..x.size : f[i] = x.v[i - 1]
  PROVE  ListOf(x) = f
BY DEF ListOf

LEMMA InsertIsInsert ==
  ASSUME Inv, NEW pos \in Index, NEW d \in Data, vec_insert(pos, d)
  PROVE  List!Insert(pos, d)
<1> DEFINE l == ListOf(vec)
<1>1. /\ pos \in Int /\ Good(vec) /\ vec.size \in Nat /\ MAX_VEC_SIZE \in Nat
      /\ Len(l) = vec.size /\ \A i \in 1..vec.size : l[i] = vec.v[i - 1]
  BY VecAssumption, ListIs DEF Inv, Good
<1>2. call' = <<"insert", pos, d>>
  BY DEF vec_insert
<1>3. CASE vec' = vec /\ result' = 0 /\ ~(pos \in 0..vec.size /\ vec.size + 1 <= MAX_VEC_SIZE)
  <2>1. ListOf(vec)' = l
    BY <1>3 DEF ListOf
  <2>2. ~(pos \in 0..Len(l) /\ Len(l) < MAX_VEC_SIZE)
    BY <1>1, <1>3
  <2> HIDE DEF l
  <2> QED
    BY <1>2, <1>3, <2>1, <2>2 DEF List!Insert, l
<1>4. CASE /\ pos \in 0..vec.size /\ vec.size + 1 <= MAX_VEC_SIZE
           /\ vec' = Inserted(vec, pos, d) /\ result' = 1
  <2> DEFINE f == [i \in 1..Len(l) + 1 |->
                     IF i <= pos THEN l[i] ELSE IF i = pos + 1 THEN d ELSE l[i - 1]]
  <2>1. /\ Good(vec')
        /\ vec'.size = vec.size + 1
        /\ \A i \in 0..vec.size :
             vec'.v[i] = IF i = pos THEN d ELSE IF pos < i THEN vec.v[i - 1] ELSE vec.v[i]
    <3>1. Good(vec)
      BY <1>1
    <3>2. pos \in 0..vec.size /\ vec.size + 1 <= MAX_VEC_SIZE /\ vec' = Inserted(vec, pos, d)
      BY <1>4
    <3> HIDE DEF l, f
    <3>3. LET z == Inserted(vec, pos, d)
          IN  /\ Good(z)
              /\ z.size = vec.size + 1
              /\ \A i \in 0..vec.size :
                   z.v[i] = IF i = pos THEN d ELSE IF pos < i THEN vec.v[i - 1] ELSE vec.v[i]
      BY <3>1, <3>2, InsertedGood
    <3> QED
      BY <3>2, <3>3, Zenon
  <2>2. \A i \in 1..vec.size + 1 : f[i] = vec'.v[i - 1]
    <3> TAKE i \in 1..vec.size + 1
    <3>1. i - 1 \in 0..vec.size
      BY <1>1
    <3>2. CASE i <= pos
      <4>1. i \in 1..vec.size /\ ~(i - 1 = pos) /\ ~(pos < i - 1)
        BY <1>1, <1>4, <3>2
      <4> QED
        BY <1>1, <2>1, <3>1, <3>2, <4>1
    <3>3. CASE i = pos + 1
      BY <1>1, <2>1, <3>1, <3>3
    <3>4. CASE pos + 1 < i
      <4>1. i - 1 \in 1..vec.size /\ ~(i - 1 = pos) /\ pos < i - 1 /\ ~(i <= pos) /\ ~(i = pos + 1)
        BY <1>1, <1>4, <3>4
      <4> QED
        BY <1>1, <2>1, <3>1, <4>1
    <3> QED
      BY <1>1, <3>2, <3>3, <3>4
  <2>3. f \in [1..vec.size + 1 -> Memory]
    <3>1. \A i \in 1..vec.size : l[i] \in Memory
      BY <1>1, ListIs, LenProperties
    <3>2. \A i \in 1..vec.size + 1 : i <= pos => i \in 1..vec.size
      BY <1>1, <1>4
    <3>3. \A i \in 1..vec.size + 1 : ~(i <= pos) /\ i # pos + 1 => i - 1 \in 1..vec.size
      BY <1>1, <1>4
    <3>4. d \in Memory
      BY DEF Memory
    <3> HIDE DEF l
    <3> QED
      BY <1>1, <3>1, <3>2, <3>3, <3>4
  <2> HIDE DEF f
  <2>4. ListOf(vec') = f
    BY <1>1, <2>1, <2>2, <2>3, ListMade
  <2>5. ListOf(vec)' = f
    BY <2>4 DEF ListOf
  <2>6. pos \in 0..Len(l) /\ Len(l) < MAX_VEC_SIZE
    BY <1>1, <1>4
  <2> HIDE DEF l
  <2> QED
    BY <1>2, <1>4, <2>5, <2>6 DEF List!Insert, l, f
<1> QED
  BY <1>1, <1>3, <1>4, InsertStep

LEMMA RemoveIsRemove ==
  ASSUME Inv, NEW pos \in Index, vec_remove(pos)
  PROVE  List!Remove(pos)
<1> DEFINE l == ListOf(vec)
<1>1. /\ pos \in Int /\ Good(vec) /\ vec.size \in Nat
      /\ Len(l) = vec.size /\ \A i \in 1..vec.size : l[i] = vec.v[i - 1]
  BY VecAssumption, ListIs DEF Inv, Good
<1>2. call' = <<"remove", pos>>
  BY DEF vec_remove
<1>3. CASE vec' = vec /\ result' = 0 /\ pos \notin 0..vec.size - 1
  <2>1. ListOf(vec)' = l
    BY <1>3 DEF ListOf
  <2>2. pos \notin 0..Len(l) - 1
    BY <1>1, <1>3
  <2> HIDE DEF l
  <2> QED
    BY <1>2, <1>3, <2>1, <2>2 DEF List!Remove, l
<1>4. CASE pos \in 0..vec.size - 1 /\ vec' = Removed(vec, pos) /\ result' = 1
  <2> DEFINE f == [i \in 1..Len(l) - 1 |-> IF i <= pos THEN l[i] ELSE l[i + 1]]
  <2>1. /\ Good(vec')
        /\ vec'.size = vec.size - 1
        /\ \A i \in 0..vec.size - 2 : vec'.v[i] = IF pos <= i THEN vec.v[i + 1] ELSE vec.v[i]
    BY <1>1, <1>4, RemovedGood
  <2>2. \A i \in 1..vec.size - 1 : f[i] = vec'.v[i - 1]
    <3> TAKE i \in 1..vec.size - 1
    <3>1. i - 1 \in 0..vec.size - 2 /\ i \in 1..vec.size /\ i + 1 \in 1..vec.size
      BY <1>1
    <3> QED
      BY <1>1, <2>1, <3>1
  <2>3. f \in [1..vec.size - 1 -> Memory]
    BY <1>1, ListIs, LenProperties
  <2> HIDE DEF f
  <2>4. ListOf(vec') = f
    <3>1. f \in [1..vec'.size -> Memory] /\ \A i \in 1..vec'.size : f[i] = vec'.v[i - 1]
      BY <2>1, <2>2, <2>3
    <3> QED
      BY <2>1, <3>1, ListMade
  <2>5. ListOf(vec)' = f
    BY <2>4 DEF ListOf
  <2>6. pos \in 0..Len(l) - 1
    BY <1>1, <1>4
  <2> HIDE DEF l
  <2> QED
    BY <1>2, <1>4, <2>5, <2>6 DEF List!Remove, l, f
<1> QED
  BY <1>1, <1>3, <1>4, RemoveStep

LEMMA SetIsSet ==
  ASSUME Inv, NEW pos \in Index, NEW d \in Data, vec_set(pos, d)
  PROVE  List!Set(pos, d)
<1> DEFINE l == ListOf(vec)
           f == [i \in 1..Len(l) |-> IF i = pos + 1 THEN d ELSE l[i]]
<1>1. /\ pos \in Int /\ Good(vec) /\ Good(vec') /\ vec.size \in Nat
      /\ Len(l) = vec.size /\ \A i \in 1..vec.size : l[i] = vec.v[i - 1]
  <2>1. Next
    BY DEF Next
  <2>2. Inv'
    BY <2>1, StepInv
  <2> QED
    BY <2>2, VecAssumption, ListIs DEF Inv, Good
<1>2. call' = <<"set", pos, d>> /\ result' = List!At(pos)
  BY <1>1 DEF vec_set, List!At, Positions
<1>3. /\ vec'.size = vec.size
      /\ \A i \in 0..vec.size - 1 : vec'.v[i] = IF i = pos THEN d ELSE vec.v[i]
  BY <1>1, ElementOK DEF vec_set, Positions, Good
<1>4. \A i \in 1..vec.size : f[i] = vec'.v[i - 1]
  <2> TAKE i \in 1..vec.size
  <2>1. i - 1 \in 0..vec.size - 1 /\ (i - 1 = pos <=> i = pos + 1)
    BY <1>1
  <2> QED
    BY <1>1, <1>3, <2>1
<1>5. f \in [1..vec.size -> Memory]
  BY <1>1, ListIs, LenProperties DEF Memory
<1> HIDE DEF f
<1>6. ListOf(vec') = f
  BY <1>1, <1>3, <1>4, <1>5, ListMade
<1>7. ListOf(vec)' = f
  BY <1>6 DEF ListOf
<1> HIDE DEF l
<1> QED
  BY <1>2, <1>7 DEF List!Set, l, f

\* vec.c implements VecList, for every size, limit and set of data: the calls
\* return, and leave in the array, what they would in a list.
THEOREM VecIsList == Spec => ImplementsList
<1>1. Init => List!Init
  <2> SUFFICES ASSUME Init PROVE List!Init
    OBVIOUS
  <2>1. PICK n \in 0..MAX_VEC_SIZE : vec = vec_new(n)
    BY DEF Init
  <2>2. Good(vec) /\ n \in Nat /\ vec.size = n
    BY <2>1, InitInv, VecAssumption DEF Inv, vec_new
  <2> DEFINE f == [i \in 1..n |-> NULL]
  <2>3. \A i \in 1..n : f[i] = vec.v[i - 1]
    <3> TAKE i \in 1..n
    <3>1. i - 1 \in DOMAIN vec.v
      BY <2>2, VecAssumption DEF Good
    <3> QED
      BY <2>1, <3>1 DEF vec_new
  <2>4. f \in [1..n -> Memory]
    BY DEF Memory
  <2> HIDE DEF f
  <2>5. ListOf(vec) = f
    BY <2>2, <2>3, <2>4, ListMade
  <2> QED
    BY <2>5 DEF Init, List!Init, f
<1>2. Inv /\ [Next]_vars => [List!Next]_<<ListOf(vec), call, result>>
  <2> SUFFICES ASSUME Inv, [Next]_vars
               PROVE  List!Next \/ UNCHANGED <<ListOf(vec), call, result>>
    OBVIOUS
  <2>1. CASE UNCHANGED <<vec, call, result>>
    BY <2>1 DEF ListOf
  <2>2. ASSUME NEW pos \in Index, vec_pos(pos)
        PROVE  List!Pos(pos)
    <3>1. Good(vec) /\ pos \in Int /\ vec.size \in Nat
      BY VecAssumption DEF Inv, Good
    <3>2. result' = List!At(pos)
      <4>1. CASE pos \in 0..vec.size - 1
        <5>1. pos + 1 \in 1..vec.size /\ pos + 1 - 1 = pos
          BY <3>1, <4>1
        <5> QED
          BY <2>2, <3>1, <4>1, <5>1, ListIs DEF vec_pos, Positions, List!At
      <4>2. CASE pos \notin 0..vec.size - 1
        BY <2>2, <3>1, <4>2, ListIs DEF vec_pos, Positions, List!At
      <4> QED
        BY <4>1, <4>2
    <3> QED
      BY <2>2, <3>2 DEF vec_pos, List!Pos, ListOf
  <2>3. ASSUME NEW d \in Data, vec_find(d)
        PROVE  List!Find(d)
    <3>1. /\ vec.size \in Nat /\ Len(ListOf(vec)) = vec.size
          /\ \A i \in 1..vec.size : ListOf(vec)[i] = vec.v[i - 1]
      BY ListIs DEF Inv, Good
    <3>2. UNCHANGED ListOf(vec) /\ call' = <<"find", d>>
      BY <2>3 DEF vec_find, ListOf
    <3>3. CASE /\ result' \in Positions
               /\ vec.v[result'] = d
               /\ \A i \in 0..result' - 1 : vec.v[i] # d
      <4>1. PICK k \in 0..vec.size - 1 : k = result'
        BY <3>3 DEF Positions
      <4>2. k \in Nat /\ k + 1 \in 1..vec.size /\ k + 1 - 1 = k
        BY <3>1
      <4>3. ListOf(vec)[k + 1] = d
        BY <3>1, <3>3, <4>1, <4>2
      <4>4. \A i \in 1..k : ListOf(vec)[i] # d
        <5> TAKE i \in 1..k
        <5>1. i \in 1..vec.size /\ i - 1 \in 0..k - 1
          BY <3>1, <4>2
        <5> QED
          BY <3>1, <3>3, <4>1, <5>1
      <4> QED
        BY <3>1, <3>2, <4>1, <4>3, <4>4 DEF List!Find
    <3>4. CASE result' = -1 /\ \A i \in Positions : vec.v[i] # d
      <4>1. \A i \in 1..vec.size : i - 1 \in Positions
        BY <3>1 DEF Positions
      <4>2. \A i \in 1..vec.size : ListOf(vec)[i] # d
        BY <3>1, <3>4, <4>1
      <4> QED
        BY <3>1, <3>2, <3>4, <4>2 DEF List!Find
    <3> QED
      BY <2>3, <3>3, <3>4 DEF vec_find
  <2> QED
    BY <2>1, <2>2, <2>3, Calls, InsertIsInsert, RemoveIsRemove, SetIsSet DEF List!Next, vars
<1> QED
  BY <1>1, <1>2, Invariant, PTL DEF Spec, ImplementsList, List!Spec

=============================================================================
