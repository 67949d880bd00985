----------------------------- MODULE DictProofs -----------------------------
(***************************************************************************)
(* Proofs about Dict: the counters, the table that never changes size, and *)
(* the map it implements, for any keys, hashes and number of buckets.      *)
(***************************************************************************)
EXTENDS Dict, FiniteSetTheorems, TLAPS

Buckets0 == 0..DICT_REQ_BUCKET - 1

Record ==
  [h : [Buckets0 -> SUBSET Pair], hash_size : Nat, used : Nat,
   bu_size : {DICT_REQ_BUCKET}, size : Nat, freed : {FALSE}]

Placed(d) == \A i \in Buckets0 : \A e \in d.h[i] : Bucket(DICT_REQ_BUCKET, ClassOf[e.first]) = i

OnePerClass(d) ==
  \A e, f \in hash_get_all_values(d) : ClassOf[e.first] = ClassOf[f.first] => e = f

\* The inductive part: a pair is in the bucket of its hash, no two pairs are
\* equal, and the counters count.
Good(d) ==
  /\ d \in Record
  /\ Placed(d)
  /\ OnePerClass(d)
  /\ IsFiniteSet(hash_get_all_values(d))
  /\ d.used = Cardinality(Occupied(d))
  /\ d.size = Cardinality(hash_get_all_values(d))
  /\ d.hash_size = d.size

Inv == Good(dict) /\ result \in Value \cup Pair \cup {NULL}

-----------------------------------------------------------------------------
(* The buckets. *)

\* A hash picks one of the buckets.
LEMMA BucketIn ==
  ASSUME NEW k \in Key
  PROVE  Bucket(DICT_REQ_BUCKET, ClassOf[k]) \in Buckets0
<1>1. ClassOf[k] \in Class /\ HashOf[ClassOf[k]] \in Nat /\ DICT_REQ_BUCKET \in Nat \ {0}
  BY DictAssumption
<1> QED
  BY <1>1, SMT DEF Bucket, Buckets0

\* A pair is in the bucket its key hashes to, so hash_test finds every pair
\* of the table that is equal to the key.
LEMMA HashTest ==
  ASSUME NEW d, Good(d), NEW k \in Key
  PROVE  hash_test(d, ClassOf[k]) =
           {e \in hash_get_all_values(d) : ClassOf[e.first] = ClassOf[k]}
<1>1. d \in Record /\ Placed(d) /\ Bucket(DICT_REQ_BUCKET, ClassOf[k]) \in Buckets0
  BY BucketIn DEF Good
<1>2. DOMAIN d.h = Buckets0 /\ d.bu_size = DICT_REQ_BUCKET
  BY <1>1 DEF Record
<1> QED
  BY <1>1, <1>2 DEF hash_test, hash_get_all_values, Placed

\* At most DICT_REQ_BUCKET buckets are used.
LEMMA OccupiedFinite ==
  ASSUME NEW d, d \in Record
  PROVE  /\ IsFiniteSet(Occupied(d))
         /\ Occupied(d) \subseteq Buckets0
         /\ Cardinality(Occupied(d)) \in Nat
         /\ IsFiniteSet(Buckets0)
         /\ Cardinality(Buckets0) = DICT_REQ_BUCKET
<1>1. DICT_REQ_BUCKET \in Nat \ {0}
  BY DictAssumption
<1>2. IsFiniteSet(Buckets0) /\ Cardinality(Buckets0) = DICT_REQ_BUCKET
  BY <1>1, FS_Interval DEF Buckets0
<1>3. Occupied(d) \subseteq Buckets0
  BY DEF Occupied, Record
<1> QED
  BY <1>2, <1>3, FS_Subset, FS_CardinalityType

\* A request for at most DICT_REQ_BUCKET buckets changes nothing.
LEMMA RehashSame ==
  ASSUME NEW d, d.bu_size = DICT_REQ_BUCKET,
         NEW req \in Nat, req <= DICT_REQ_BUCKET
  PROVE  dict_rehash(d, req) = d
<1>1. DICT_REQ_BUCKET \in Nat \ {0}
  BY DictAssumption
<1>2. ~(req > DICT_REQ_BUCKET) /\ DICT_REQ_BUCKET \div 2 < DICT_REQ_BUCKET
  BY <1>1, SMT
<1>3. Buckets(d, req) = d.bu_size
  BY <1>2 DEF Buckets
<1> QED
  BY <1>3 DEF dict_rehash

-----------------------------------------------------------------------------
(* A new pair. *)

LEMMA InsertedGood ==
  ASSUME NEW d, Good(d), NEW e \in Pair, hash_test(d, ClassOf[e.first]) = {}
  PROVE  /\ Good(Inserted(d, e))
         /\ hash_get_all_values(Inserted(d, e)) = hash_get_all_values(d) \cup {e}
<1> DEFINE b   == Bucket(DICT_REQ_BUCKET, ClassOf[e.first])
           V   == hash_get_all_values(d)
           occ == hash_occupied(d, ClassOf[e.first])
           h2  == [d.h EXCEPT ![b] = @ \cup {e}]
           hs2 == d.hash_size + 1
           us2 == d.used + (IF occ THEN 0 ELSE 1)
           sz2 == d.size + 1
           d2  == [h |-> h2, hash_size |-> hs2, used |-> us2, bu_size |-> DICT_REQ_BUCKET,
                   size |-> sz2, freed |-> FALSE]
<1>1. e.first \in Key
  BY DEF Pair
<1>2. b \in Buckets0
  BY <1>1, BucketIn
<1>3. d \in Record /\ Placed(d) /\ OnePerClass(d) /\ IsFiniteSet(V)
  BY DEF Good
<1>4. /\ d.bu_size = DICT_REQ_BUCKET /\ DOMAIN d.h = Buckets0 /\ d.h \in [Buckets0 -> SUBSET Pair]
      /\ d.hash_size \in Nat /\ d.used \in Nat /\ d.size \in Nat
  BY <1>3 DEF Record
<1>5. \A f \in V : ClassOf[f.first] # ClassOf[e.first]
  BY <1>1, HashTest
<1>6. e \notin V
  BY <1>5
<1>7. occ <=> b \in Occupied(d)
  BY <1>2, <1>4 DEF hash_occupied, Occupied
<1>8. ~occ => d.used + 1 <= DICT_REQ_BUCKET
  <2> SUFFICES ASSUME ~occ PROVE d.used + 1 <= DICT_REQ_BUCKET
    OBVIOUS
  <2>1. b \notin Occupied(d)
    BY <1>7
  <2>2. Cardinality(Occupied(d) \cup {b}) = d.used + 1
    BY <1>3, <2>1, OccupiedFinite, FS_AddElement DEF Good
  <2>3. Occupied(d) \cup {b} \subseteq Buckets0
    BY <1>2, <1>3, OccupiedFinite
  <2>4. Cardinality(Occupied(d) \cup {b}) <= DICT_REQ_BUCKET
    BY <1>3, <2>3, OccupiedFinite, FS_Subset
  <2> QED
    BY <2>2, <2>4
<1>9. ~occ => dict_rehash(d, d.used + 1) = d
  BY <1>4, <1>8, RehashSame
<1>10. Inserted(d, e) = d2
  <2>1. (IF occ THEN d ELSE dict_rehash(d, d.used + 1)) = d
    BY <1>9
  <2>2. Inserted(d, e) = [hash_add(d, e) EXCEPT !.size = @ + 1,
                                                !.used = @ + (IF occ THEN 0 ELSE 1)]
    BY <2>1 DEF Inserted
  <2>3. hash_add(d, e) = [d EXCEPT !.h[b] = @ \cup {e}, !.hash_size = @ + 1]
    BY <1>4 DEF hash_add
  <2> QED
    BY <1>3, <2>2, <2>3 DEF Record
<1>11. h2 \in [Buckets0 -> SUBSET Pair]
  BY <1>2, <1>4
<1>12. d2 \in Record
  <2>1. hs2 \in Nat /\ us2 \in Nat /\ sz2 \in Nat
    BY <1>4
  <2> HIDE DEF h2, hs2, us2, sz2
  <2> QED
    BY <1>11, <2>1 DEF Record
<1>13. \A i \in Buckets0 : h2[i] = IF i = b THEN d.h[b] \cup {e} ELSE d.h[i]
  BY <1>2, <1>4
<1>14. hash_get_all_values(d2) = V \cup {e}
  <2>1. DOMAIN d2.h = Buckets0 /\ d2.h = h2
    BY <1>4
  <2> QED
    BY <1>2, <1>4, <1>13, <2>1 DEF hash_get_all_values
<1>15. Placed(d2)
  BY <1>3, <1>13 DEF Placed
<1>16. OnePerClass(d2)
  BY <1>3, <1>5, <1>14 DEF OnePerClass
<1>17. IsFiniteSet(V \cup {e}) /\ Cardinality(V \cup {e}) = Cardinality(V) + 1
  BY <1>3, <1>6, FS_AddElement
<1>18. Occupied(d2) = Occupied(d) \cup {b}
  BY <1>2, <1>4, <1>13 DEF Occupied
<1>19. us2 = Cardinality(Occupied(d2))
  <2>1. d.used = Cardinality(Occupied(d)) /\ IsFiniteSet(Occupied(d))
    BY <1>3, OccupiedFinite DEF Good
  <2>2. CASE occ
    BY <1>4, <1>7, <1>18, <2>1, <2>2
  <2>3. CASE ~occ
    BY <1>7, <1>18, <2>1, <2>3, FS_AddElement
  <2> QED
    BY <2>2, <2>3
<1>20. d.size = Cardinality(V) /\ d.hash_size = d.size
  BY DEF Good
<1>21. Good(d2)
  <2> HIDE DEF V, us2, h2
  <2> QED
    BY <1>12, <1>14, <1>15, <1>16, <1>17, <1>19, <1>20 DEF Good
<1> QED
  BY <1>10, <1>14, <1>21

-----------------------------------------------------------------------------
(* A new value for a pair. *)

LEMMA ReplacedGood ==
  ASSUME NEW d, Good(d), NEW e \in hash_get_all_values(d), NEW v \in Value
  PROVE  /\ e \in Pair
         /\ Good(Replaced(d, e, v))
         /\ hash_get_all_values(Replaced(d, e, v)) =
              (hash_get_all_values(d) \ {e}) \cup {[first |-> e.first, second |-> v]}
<1> DEFINE b  == Bucket(DICT_REQ_BUCKET, ClassOf[e.first])
           V  == hash_get_all_values(d)
           f  == [first |-> e.first, second |-> v]
           h2 == [d.h EXCEPT ![b] = (@ \ {e}) \cup {f}]
           d2 == [d EXCEPT !.h = h2]
<1>1. d \in Record /\ Placed(d) /\ OnePerClass(d) /\ IsFiniteSet(V)
  BY DEF Good
<1>2. d.bu_size = DICT_REQ_BUCKET /\ DOMAIN d.h = Buckets0 /\ d.h \in [Buckets0 -> SUBSET Pair]
  BY <1>1 DEF Record
<1>3. e \in Pair /\ b \in Buckets0 /\ e \in d.h[b]
  BY <1>1, <1>2 DEF hash_get_all_values, Placed
<1>4. f \in Pair /\ f = [e EXCEPT !.second = v] /\ f.first = e.first
  BY <1>3 DEF Pair
<1>5. Replaced(d, e, v) = d2
  BY <1>1, <1>2, <1>4 DEF Replaced, Record
<1>6. h2 \in [Buckets0 -> SUBSET Pair]
  BY <1>2, <1>3, <1>4
<1>7. d2 \in Record /\ d2.h = h2
  <2> HIDE DEF h2
  <2> QED
    BY <1>1, <1>6 DEF Record
<1>8. \A i \in Buckets0 : h2[i] = IF i = b THEN (d.h[b] \ {e}) \cup {f} ELSE d.h[i]
  BY <1>2, <1>3
<1>9. \A i \in Buckets0 : e \in d.h[i] => i = b
  BY <1>1 DEF Placed
<1>10. hash_get_all_values(d2) = (V \ {e}) \cup {f}
  <2>1. DOMAIN d2.h = Buckets0
    BY <1>6, <1>7
  <2>2. hash_get_all_values(d2) = UNION {h2[i] : i \in Buckets0}
    BY <1>7, <2>1 DEF hash_get_all_values
  <2>3. V = UNION {d.h[i] : i \in Buckets0}
    BY <1>2 DEF hash_get_all_values
  <2> HIDE DEF V, f, h2, d2
  <2> QED
    BY <1>3, <1>8, <1>9, <2>2, <2>3
<1>11. Placed(d2)
  BY <1>1, <1>4, <1>7, <1>8 DEF Placed
<1>12. OnePerClass(d2)
  BY <1>1, <1>4, <1>10 DEF OnePerClass
<1>13. f \notin V \ {e}
  BY <1>1, <1>4 DEF OnePerClass
<1>14. /\ IsFiniteSet((V \ {e}) \cup {f})
       /\ Cardinality((V \ {e}) \cup {f}) = Cardinality(V)
  <2>1. IsFiniteSet(V \ {e}) /\ Cardinality(V \ {e}) = Cardinality(V) - 1 /\ Cardinality(V) \in Nat
    BY <1>1, FS_RemoveElement, FS_CardinalityType
  <2>2. /\ IsFiniteSet((V \ {e}) \cup {f})
        /\ Cardinality((V \ {e}) \cup {f}) = Cardinality(V \ {e}) + 1
    BY <1>13, <2>1, FS_AddElement
  <2> QED
    BY <2>1, <2>2
<1>15. Occupied(d2) = Occupied(d)
  <2>1. DOMAIN d2.h = Buckets0 /\ d2.h = h2
    BY <1>6, <1>7
  <2>2. \A i \in Buckets0 : h2[i] # {} <=> d.h[i] # {}
    <3> HIDE DEF f, h2
    <3> QED
      BY <1>3, <1>8
  <2> HIDE DEF h2, d2
  <2> QED
    BY <1>2, <2>1, <2>2 DEF Occupied
<1>16. d2.used = d.used /\ d2.size = d.size /\ d2.hash_size = d.hash_size
  BY <1>1 DEF Record
<1>17. d.used = Cardinality(Occupied(d)) /\ d.size = Cardinality(V) /\ d.hash_size = d.size
  BY DEF Good
<1>18. Good(d2)
  <2> HIDE DEF V, d2, f
  <2> QED
    BY <1>7, <1>10, <1>11, <1>12, <1>14, <1>15, <1>16, <1>17 DEF Good
<1> QED
  BY <1>3, <1>5, <1>10, <1>18

-----------------------------------------------------------------------------
(* A pair that is removed. *)

LEMMA RemovedGood ==
  ASSUME NEW d, Good(d), NEW e \in hash_get_all_values(d)
  PROVE  /\ Good(Removed(d, e))
         /\ hash_get_all_values(Removed(d, e)) = hash_get_all_values(d) \ {e}
<1> DEFINE b   == Bucket(DICT_REQ_BUCKET, ClassOf[e.first])
           V   == hash_get_all_values(d)
           h2  == [d.h EXCEPT ![b] = @ \ {e}]
           hs2 == d.hash_size - 1
           sz2 == d.size - 1
           us2 == IF h2[b] # {} THEN d.used ELSE d.used - 1
           r   == [h |-> h2, hash_size |-> hs2, used |-> d.used, bu_size |-> DICT_REQ_BUCKET,
                   size |-> sz2, freed |-> FALSE]
           d2  == [h |-> h2, hash_size |-> hs2, used |-> us2, bu_size |-> DICT_REQ_BUCKET,
                   size |-> sz2, freed |-> FALSE]
<1>1. d \in Record /\ Placed(d) /\ OnePerClass(d) /\ IsFiniteSet(V)
  BY DEF Good
<1>2. /\ d.bu_size = DICT_REQ_BUCKET /\ DOMAIN d.h = Buckets0 /\ d.h \in [Buckets0 -> SUBSET Pair]
      /\ d.hash_size \in Nat /\ d.used \in Nat /\ d.size \in Nat
  BY <1>1 DEF Record
<1>3. e \in Pair /\ b \in Buckets0 /\ e \in d.h[b]
  BY <1>1, <1>2 DEF hash_get_all_values, Placed
<1>4. h2 \in [Buckets0 -> SUBSET Pair]
  BY <1>2, <1>3
<1>5. \A i \in Buckets0 : h2[i] = IF i = b THEN d.h[b] \ {e} ELSE d.h[i]
  BY <1>2, <1>3
<1>6. \A i \in Buckets0 : e \in d.h[i] => i = b
  BY <1>1 DEF Placed
<1>7. /\ IsFiniteSet(V \ {e}) /\ Cardinality(V \ {e}) = Cardinality(V) - 1
      /\ Cardinality(V) \in Nat \ {0}
  <2>1. Cardinality(V) \in Nat /\ V # {}
    BY <1>1, FS_CardinalityType
  <2>2. Cardinality(V) # 0
    BY <1>1, <2>1, FS_EmptySet
  <2> QED
    BY <1>1, <2>1, <2>2, FS_RemoveElement
<1>8. d.used = Cardinality(Occupied(d)) /\ d.size = Cardinality(V) /\ d.hash_size = d.size
  BY DEF Good
<1>9. b \in Occupied(d) /\ IsFiniteSet(Occupied(d)) /\ d.used \in 1..DICT_REQ_BUCKET
  <2>1. b \in Occupied(d)
    BY <1>2, <1>3 DEF Occupied
  <2>2. /\ IsFiniteSet(Occupied(d)) /\ Occupied(d) \subseteq Buckets0
        /\ IsFiniteSet(Buckets0) /\ Cardinality(Buckets0) = DICT_REQ_BUCKET
    BY <1>1, OccupiedFinite
  <2>3. Cardinality(Occupied(d)) <= DICT_REQ_BUCKET
    BY <2>2, FS_Subset
  <2>4. Cardinality(Occupied(d)) # 0
    BY <2>1, <2>2, FS_EmptySet
  <2> QED
    BY <1>2, <1>8, <2>1, <2>2, <2>3, <2>4, DictAssumption
<1>10. Removed(d, e) = d2
  <2>1. hash_fast_remove(d, e) = [d EXCEPT !.h[b] = @ \ {e}, !.hash_size = @ - 1]
    BY <1>2 DEF hash_fast_remove
  <2> DEFINE x == hash_fast_remove(d, e)
  <2>2. [x EXCEPT !.size = @ - 1] = r
    <3>1. hs2 \in Nat
      BY <1>2, <1>7, <1>8
    <3>2. /\ x \in Record
          /\ x.h = h2 /\ x.hash_size = hs2 /\ x.used = d.used /\ x.size = d.size
      BY <1>1, <1>4, <2>1, <3>1 DEF Record
    <3>3. x.bu_size = DICT_REQ_BUCKET /\ x.freed = FALSE /\ x.size - 1 = sz2
      BY <3>2 DEF Record
    <3> HIDE DEF x, h2, hs2, sz2
    <3>4. [x EXCEPT !.size = x.size - 1] =
            [h |-> x.h, hash_size |-> x.hash_size, used |-> x.used, bu_size |-> x.bu_size,
             size |-> x.size - 1, freed |-> x.freed]
      BY <3>2 DEF Record
    <3> QED
      BY <3>2, <3>3, <3>4
  <2>3. hash_occupied(r, ClassOf[e.first]) <=> h2[b] # {}
    BY DEF hash_occupied
  <2>4. dict_rehash([r EXCEPT !.used = @ - 1], d.used - 1) = [r EXCEPT !.used = @ - 1]
    <3>1. d.used - 1 \in Nat /\ d.used - 1 <= DICT_REQ_BUCKET
      BY <1>2, <1>9, DictAssumption
    <3>2. [r EXCEPT !.used = @ - 1].bu_size = DICT_REQ_BUCKET
      OBVIOUS
    <3> QED
      BY <3>1, <3>2, RehashSame
  <2>5. [r EXCEPT !.used = @ - 1].used = d.used - 1
    OBVIOUS
  <2>6. Removed(d, e) = IF h2[b] # {} THEN r ELSE [r EXCEPT !.used = @ - 1]
    <3>1. Removed(d, e) =
            IF hash_occupied([x EXCEPT !.size = @ - 1], ClassOf[e.first])
              THEN [x EXCEPT !.size = @ - 1]
              ELSE dict_rehash([[x EXCEPT !.size = @ - 1] EXCEPT !.used = @ - 1],
                               [[x EXCEPT !.size = @ - 1] EXCEPT !.used = @ - 1].used)
      BY DEF Removed
    <3> HIDE DEF r, h2, x
    <3> QED
      BY <2>2, <2>3, <2>4, <2>5, <3>1
  <2> QED
    BY <2>6
<1>11. d2 \in Record
  <2>1. hs2 \in Nat /\ us2 \in Nat /\ sz2 \in Nat
    BY <1>2, <1>7, <1>8, <1>9
  <2> HIDE DEF h2, hs2, us2, sz2
  <2> QED
    BY <1>4, <2>1 DEF Record
<1>12. hash_get_all_values(d2) = V \ {e}
  <2>1. hash_get_all_values(d2) = UNION {h2[i] : i \in Buckets0}
    BY <1>4 DEF hash_get_all_values
  <2>2. V = UNION {d.h[i] : i \in Buckets0}
    BY <1>2 DEF hash_get_all_values
  <2> HIDE DEF V, h2, d2
  <2> QED
    BY <1>3, <1>5, <1>6, <2>1, <2>2
<1>13. Placed(d2)
  BY <1>1, <1>5 DEF Placed
<1>14. OnePerClass(d2)
  BY <1>1, <1>12 DEF OnePerClass
<1>15. us2 = Cardinality(Occupied(d2))
  <2>1. CASE h2[b] # {}
    <3>1. Occupied(d2) = Occupied(d)
      BY <1>2, <1>3, <1>4, <1>5, <2>1 DEF Occupied
    <3> QED
      BY <1>8, <2>1, <3>1
  <2>2. CASE h2[b] = {}
    <3>1. Occupied(d2) = Occupied(d) \ {b}
      BY <1>2, <1>3, <1>4, <1>5, <2>2 DEF Occupied
    <3>2. Cardinality(Occupied(d) \ {b}) = Cardinality(Occupied(d)) - 1
      BY <1>9, FS_RemoveElement
    <3>3. us2 = d.used - 1
      BY <2>2
    <3> QED
      BY <1>8, <3>1, <3>2, <3>3
  <2> QED
    BY <2>1, <2>2
<1>16. Good(d2)
  <2>1. sz2 = Cardinality(V \ {e}) /\ hs2 = sz2
    BY <1>7, <1>8
  <2> HIDE DEF V, us2, h2, sz2, hs2
  <2> QED
    BY <1>7, <1>11, <1>12, <1>13, <1>14, <1>15, <2>1 DEF Good
<1> QED
  BY <1>10, <1>12, <1>16

-----------------------------------------------------------------------------
(* The invariant. *)

LEMMA InitInv == Init => Inv
<1> SUFFICES ASSUME Init PROVE Inv
  OBVIOUS
<1>1. DICT_REQ_BUCKET \in Nat \ {0}
  BY DictAssumption
<1>2. dict = dict_new /\ result = NULL
  BY DEF Init
<1>3. dict \in Record
  BY <1>2 DEF dict_new, Record, Buckets0
<1>4. hash_get_all_values(dict) = {} /\ Occupied(dict) = {}
  BY <1>2 DEF hash_get_all_values, Occupied, dict_new
<1>5. Placed(dict)
  BY <1>2 DEF Placed, dict_new, Buckets0
<1>6. dict.used = 0 /\ dict.size = 0 /\ dict.hash_size = 0
  BY <1>2 DEF dict_new
<1>7. IsFiniteSet({}) /\ Cardinality({}) = 0
  BY FS_EmptySet
<1> QED
  BY <1>2, <1>3, <1>4, <1>5, <1>6, <1>7 DEF Inv, Good, OnePerClass

LEMMA StepInv == Inv /\ [Next]_vars => Inv'
<1> SUFFICES ASSUME Inv, [Next]_vars PROVE Inv'
  OBVIOUS
<1>0. Good(dict) /\ result \in Value \cup Pair \cup {NULL}
  BY DEF Inv
<1>1. ASSUME NEW k \in Key, NEW v \in Value, dict_set(k, v) PROVE Inv'
  <2>1. CASE hash_test(dict, ClassOf[k]) # {}
    <3>1. PICK e \in hash_test(dict, ClassOf[k]) :
            dict' = Replaced(dict, e, v) /\ result' = e.second
      BY <1>1, <2>1 DEF dict_set
    <3>2. e \in hash_get_all_values(dict)
      BY <1>0, HashTest
    <3>3. e \in Pair /\ Good(dict')
      BY <1>0, <3>1, <3>2, ReplacedGood
    <3> QED
      BY <3>1, <3>3 DEF Inv, Pair
  <2>2. CASE hash_test(dict, ClassOf[k]) = {}
    <3>1. dict' = Inserted(dict, [first |-> k, second |-> v]) /\ result' = v
      BY <1>1, <2>2 DEF dict_set
    <3>2. [first |-> k, second |-> v] \in Pair
      BY DEF Pair
    <3>3. Good(dict')
      BY <1>0, <2>2, <3>1, <3>2, InsertedGood
    <3> QED
      BY <3>1, <3>3 DEF Inv
  <2> QED
    BY <2>1, <2>2
<1>2. ASSUME NEW k \in Key, dict_get(k) PROVE Inv'
  <2>1. dict' = dict
    BY <1>2 DEF dict_get
  <2>2. result' \in Value \cup {NULL}
    <3>1. \A e \in hash_test(dict, ClassOf[k]) : e \in Pair
      <4>1. \A e \in hash_get_all_values(dict) : e \in Pair
        BY <1>0 DEF Good, Record, hash_get_all_values
      <4> QED
        BY <1>0, <4>1, HashTest
    <3> QED
      BY <1>2, <3>1 DEF dict_get, Pair
  <2> QED
    BY <1>0, <2>1, <2>2 DEF Inv
<1>3. ASSUME NEW k \in Key, dict_remove(k) PROVE Inv'
  <2>1. CASE hash_test(dict, ClassOf[k]) # {}
    <3>1. PICK e \in hash_test(dict, ClassOf[k]) :
            dict' = Removed(dict, e) /\ result' = e
      BY <1>3, <2>1 DEF dict_remove
    <3>2. e \in hash_get_all_values(dict)
      BY <1>0, HashTest
    <3>3. e \in Pair
      BY <1>0, <3>2 DEF Good, Record, hash_get_all_values
    <3>4. Good(dict')
      BY <1>0, <3>1, <3>2, RemovedGood
    <3> QED
      BY <3>1, <3>3, <3>4 DEF Inv
  <2>2. CASE hash_test(dict, ClassOf[k]) = {}
    BY <1>0, <1>3, <2>2 DEF dict_remove, Inv
  <2> QED
    BY <2>1, <2>2
<1>4. CASE UNCHANGED vars
  BY <1>0, <1>4 DEF Inv, vars
<1> QED
  BY <1>1, <1>2, <1>3, <1>4 DEF Next

\* The pairs are where their hashes put them, no two are equal, and the
\* counters count them, after every sequence of calls.
THEOREM Invariant == Spec => []Inv
BY InitInv, StepInv, PTL DEF Spec

\* Types: the counters used, size and hash->size never go below zero.
THEOREM TypeCorrect == Spec => []TypeOK
<1>1. Inv => TypeOK
  BY DictAssumption DEF Inv, Good, Record, TypeOK, Buckets0
<1> QED
  BY <1>1, Invariant, PTL

\* dict->used is the number of buckets in use and both sizes of a dict are the
\* number of its pairs, whatever the keys and hashes.
THEOREM CountersExact == Spec => []CountersAgree
<1>1. Inv => CountersAgree
  BY DEF Inv, Good, CountersAgree
<1> QED
  BY <1>1, Invariant, PTL

\* A dict keeps the DICT_REQ_BUCKET buckets it starts with, and the code of
\* dict_rehash that frees nodes in use is never run.
THEOREM TableFixed == Spec => []NeverRehashed
<1>1. Inv => NeverRehashed
  BY DEF Inv, Good, Record, NeverRehashed
<1> QED
  BY <1>1, Invariant, PTL

-----------------------------------------------------------------------------
(* The map. *)

\* The map of a table: the classes of its pairs, each with its pair.
LEMMA MapIs ==
  ASSUME NEW d, Good(d)
  PROVE  /\ DOMAIN MapOf(d) = {ClassOf[e.first] : e \in hash_get_all_values(d)}
         /\ MapOf(d) = [c \in DOMAIN MapOf(d) |-> MapOf(d)[c]]
         /\ \A e \in hash_get_all_values(d) : MapOf(d)[ClassOf[e.first]] = e
<1> DEFINE S == hash_get_all_values(d)
<1>1. \A e, f \in S : ClassOf[e.first] = ClassOf[f.first] => e = f
  BY DEF Good, OnePerClass
<1>2. MapOf(d) = [c \in {ClassOf[e.first] : e \in S} |->
                     CHOOSE e \in S : ClassOf[e.first] = c]
  BY DEF MapOf
<1> HIDE DEF S
<1>3. ASSUME NEW e \in S PROVE (CHOOSE f \in S : ClassOf[f.first] = ClassOf[e.first]) = e
  BY <1>1
<1> QED
  BY <1>2, <1>3 DEF S

\* The calls of a dict are those of a map.
THEOREM DictIsMap == Spec => ImplementsMap
<1>1. Init => Map!Init
  BY DEF Init, Map!Init, MapOf, dict_new, hash_get_all_values
<1>2. Inv /\ Inv' /\ [Next]_vars => [Map!Next]_<<MapOf(dict), call, result>>
  <2> SUFFICES ASSUME Inv, Inv', [Next]_vars
               PROVE  [Map!Next]_<<MapOf(dict), call, result>>
    OBVIOUS
  <2> DEFINE m  == MapOf(dict)
             m2 == MapOf(dict')
             V  == hash_get_all_values(dict)
             V2 == hash_get_all_values(dict')
  <2>0. Good(dict) /\ Good(dict')
    BY DEF Inv
  <2>1. /\ DOMAIN m = {ClassOf[e.first] : e \in V}
        /\ m = [c \in DOMAIN m |-> m[c]]
        /\ \A e \in V : m[ClassOf[e.first]] = e
    BY <2>0, MapIs
  <2>2. /\ DOMAIN m2 = {ClassOf[e.first] : e \in V2}
        /\ m2 = [c \in DOMAIN m2 |-> m2[c]]
        /\ \A e \in V2 : m2[ClassOf[e.first]] = e
    BY <2>0, MapIs
  <2>3. \A e, f \in V : ClassOf[e.first] = ClassOf[f.first] => e = f
    BY <2>0 DEF Good, OnePerClass
  <2>4. ASSUME NEW k \in Key
        PROVE  /\ hash_test(dict, ClassOf[k]) = {e \in V : ClassOf[e.first] = ClassOf[k]}
               /\ ClassOf[k] \in DOMAIN m <=> hash_test(dict, ClassOf[k]) # {}
               /\ \A e \in hash_test(dict, ClassOf[k]) :
                    e \in V /\ ClassOf[e.first] = ClassOf[k] /\ m[ClassOf[k]] = e
    <3>1. hash_test(dict, ClassOf[k]) = {e \in V : ClassOf[e.first] = ClassOf[k]}
      BY <2>0, HashTest
    <3> HIDE DEF m, V
    <3> QED
      BY <2>1, <3>1
  <2>5. ASSUME NEW k \in Key, NEW v \in Value, dict_set(k, v) PROVE Map!Set(k, v)
    <3>0. call' = <<"set", k, v>>
      BY <2>5 DEF dict_set
    <3>1. CASE hash_test(dict, ClassOf[k]) # {}
      <4>1. PICK e \in hash_test(dict, ClassOf[k]) :
              dict' = Replaced(dict, e, v) /\ result' = e.second
        BY <2>5, <3>1 DEF dict_set
      <4>2. e \in V /\ ClassOf[e.first] = ClassOf[k] /\ m[ClassOf[k]] = e
            /\ ClassOf[k] \in DOMAIN m
        BY <2>4
      <4> DEFINE f == [first |-> e.first, second |-> v]
      <4>3. V2 = (V \ {e}) \cup {f}
        BY <2>0, <4>1, <4>2, ReplacedGood
      <4>4. f.first = e.first
        OBVIOUS
      <4> DEFINE g == [c \in DOMAIN m \cup {ClassOf[k]} |->
                         IF c # ClassOf[k] THEN m[c]
                         ELSE [first  |-> IF c \in DOMAIN m THEN m[c].first ELSE k,
                               second |-> v]]
      <4>5. DOMAIN m2 = DOMAIN m
        <5> HIDE DEF m, m2, V, V2, f
        <5> QED
          BY <2>1, <2>2, <4>2, <4>3, <4>4
      <4>6. \A c \in DOMAIN m2 : m2[c] = g[c]
        <5> SUFFICES ASSUME NEW c \in DOMAIN m2 PROVE m2[c] = g[c]
          OBVIOUS
        <5>1. CASE c = ClassOf[k]
          <6>1. m2[c] = f
            <7> HIDE DEF m, m2, V, V2, f
            <7> QED
              BY <2>2, <4>2, <4>3, <4>4, <5>1
          <6>2. g[c] = f
            <7> HIDE DEF m
            <7> QED
              BY <4>2, <5>1
          <6> QED
            BY <6>1, <6>2
        <5>2. CASE c # ClassOf[k]
          <6>1. PICK x \in V : c = ClassOf[x.first] /\ m[c] = x
            <7> HIDE DEF m, m2, V
            <7> QED
              BY <2>1, <4>5
          <6>2. x \in V2
            BY <4>2, <4>3, <5>2, <6>1
          <6>3. m2[c] = x
            BY <2>2, <6>1, <6>2
          <6>4. g[c] = m[c]
            <7> HIDE DEF m, m2
            <7> QED
              BY <4>5, <5>2
          <6> QED
            BY <6>1, <6>3, <6>4
        <5> QED
          BY <5>1, <5>2
      <4>7. m2 = g
        <5>1. DOMAIN g = DOMAIN m2
          BY <4>2, <4>5
        <5>2. m2 = [c \in DOMAIN m2 |-> m2[c]]
          BY <2>2
        <5>3. g = [c \in DOMAIN g |-> g[c]]
          OBVIOUS
        <5> HIDE DEF g, m2
        <5> QED
          BY <4>6, <5>1, <5>2, <5>3
      <4>8. result' = m[ClassOf[k]].second
        BY <4>1, <4>2
      <4> QED
        BY <3>0, <4>2, <4>7, <4>8 DEF Map!Set, Map!SetReturns
    <3>2. CASE hash_test(dict, ClassOf[k]) = {}
      <4> DEFINE f == [first |-> k, second |-> v]
      <4>1. dict' = Inserted(dict, f) /\ result' = v /\ f \in Pair /\ f.first = k
        BY <2>5, <3>2 DEF dict_set, Pair
      <4>2. V2 = V \cup {f}
        BY <2>0, <3>2, <4>1, InsertedGood
      <4>3. ClassOf[k] \notin DOMAIN m
        BY <2>4, <3>2
      <4> DEFINE g == [c \in DOMAIN m \cup {ClassOf[k]} |->
                         IF c # ClassOf[k] THEN m[c]
                         ELSE [first  |-> IF c \in DOMAIN m THEN m[c].first ELSE k,
                               second |-> v]]
      <4>4. DOMAIN m2 = DOMAIN m \cup {ClassOf[k]}
        <5> HIDE DEF m, m2, V, V2, f
        <5> QED
          BY <2>1, <2>2, <4>1, <4>2
      <4>5. \A c \in DOMAIN m2 : m2[c] = g[c]
        <5> SUFFICES ASSUME NEW c \in DOMAIN m2 PROVE m2[c] = g[c]
          OBVIOUS
        <5>1. CASE c = ClassOf[k]
          <6>1. m2[c] = f
            <7> HIDE DEF m, m2, V, V2, f
            <7> QED
              BY <2>2, <4>1, <4>2, <5>1
          <6>2. g[c] = f
            <7> HIDE DEF m
            <7> QED
              BY <4>3, <5>1
          <6> QED
            BY <6>1, <6>2
        <5>2. CASE c # ClassOf[k]
          <6>1. PICK x \in V : c = ClassOf[x.first] /\ m[c] = x
            <7> HIDE DEF m, m2, V
            <7> QED
              BY <2>1, <4>4, <5>2
          <6>2. x \in V2
            BY <4>2, <6>1
          <6>3. m2[c] = x
            BY <2>2, <6>1, <6>2
          <6>4. g[c] = m[c]
            <7> HIDE DEF m, m2
            <7> QED
              BY <4>4, <5>2
          <6> QED
            BY <6>1, <6>3, <6>4
        <5> QED
          BY <5>1, <5>2
      <4>6. m2 = g
        <5>1. DOMAIN g = DOMAIN m2
          BY <4>4
        <5>2. m2 = [c \in DOMAIN m2 |-> m2[c]]
          BY <2>2
        <5>3. g = [c \in DOMAIN g |-> g[c]]
          OBVIOUS
        <5> HIDE DEF g, m2
        <5> QED
          BY <4>5, <5>1, <5>2, <5>3
      <4> QED
        BY <3>0, <4>1, <4>3, <4>6 DEF Map!Set, Map!SetReturns
    <3> QED
      BY <3>1, <3>2
  <2>6. ASSUME NEW k \in Key, dict_get(k) PROVE Map!Get(k)
    <3>1. dict' = dict
      BY <2>6 DEF dict_get
    <3>2. CASE hash_test(dict, ClassOf[k]) # {}
      BY <2>4, <2>6, <3>1, <3>2 DEF dict_get, Map!Get
    <3>3. CASE hash_test(dict, ClassOf[k]) = {}
      BY <2>4, <2>6, <3>1, <3>3 DEF dict_get, Map!Get
    <3> QED
      BY <3>2, <3>3
  <2>7. ASSUME NEW k \in Key, dict_remove(k) PROVE Map!Remove(k)
    <3>0. call' = <<"remove", k>>
      BY <2>7 DEF dict_remove
    <3>1. CASE hash_test(dict, ClassOf[k]) # {}
      <4>1. PICK e \in hash_test(dict, ClassOf[k]) :
              dict' = Removed(dict, e) /\ result' = e
        BY <2>7, <3>1 DEF dict_remove
      <4>2. e \in V /\ ClassOf[e.first] = ClassOf[k] /\ m[ClassOf[k]] = e
            /\ ClassOf[k] \in DOMAIN m
        BY <2>4
      <4>3. V2 = V \ {e}
        BY <2>0, <4>1, <4>2, RemovedGood
      <4>4. DOMAIN m2 = DOMAIN m \ {ClassOf[k]}
        <5> HIDE DEF m, m2, V, V2
        <5> QED
          BY <2>1, <2>2, <2>3, <4>2, <4>3
      <4>5. \A c \in DOMAIN m2 : m2[c] = m[c]
        <5> HIDE DEF m, m2, V, V2
        <5> QED
          BY <2>1, <2>2, <4>3
      <4>6. m2 = [c \in DOMAIN m \ {ClassOf[k]} |-> m[c]]
        <5> HIDE DEF m, m2
        <5> QED
          BY <2>2, <4>4, <4>5
      <4> QED
        BY <3>0, <4>1, <4>2, <4>6 DEF Map!Remove
    <3>2. CASE hash_test(dict, ClassOf[k]) = {}
      <4>1. result' = NULL /\ dict' = dict
        BY <2>7, <3>2 DEF dict_remove
      <4> QED
        BY <2>4, <3>0, <3>2, <4>1 DEF Map!Remove
    <3> QED
      BY <3>1, <3>2
  <2>8. CASE UNCHANGED vars
    BY <2>8 DEF vars, MapOf, hash_get_all_values
  <2> QED
    BY <2>5, <2>6, <2>7, <2>8 DEF Next, Map!Next
<1> QED
  BY <1>1, <1>2, Invariant, PTL DEF Spec, Map!Spec, ImplementsMap
=============================================================================
