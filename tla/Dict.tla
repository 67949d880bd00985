-------------------------------- MODULE Dict --------------------------------
(***************************************************************************)
(* The dict of src/dict.c over the chained hash table of src/hash.c.       *)
(*                                                                         *)
(* A bucket is the set of the pairs in its chain: dict_set looks for the   *)
(* key before it adds a node, so the order of a chain decides nothing.     *)
(* dict_free ends the life of the dict and is not an action.               *)
(***************************************************************************)
EXTENDS Integers, FiniteSets

CONSTANTS
  Key,              \* the objects used as keys
  Value,
  Class, ClassOf,   \* two keys are equal to object_equal iff they are of one class
  HashOf,           \* object_digest, which depends on the class only
  DICT_REQ_BUCKET,
  NULL

ASSUME DictAssumption ==
  /\ ClassOf \in [Key -> Class]
  /\ HashOf \in [Class -> Nat]
  /\ DICT_REQ_BUCKET \in Nat \ {0}
  /\ NULL \notin Value

VARIABLES
  dict,       \* the dict_t and its hash_t
  call,       \* the last call and its arguments
  result      \* what the last call returned

vars == <<dict, call, result>>

Pair == [first : Key, second : Value]

-----------------------------------------------------------------------------
(* hash.c *)

Bucket(n, c) == HashOf[c] % n

\* Mutant: whatever the bucket holds is taken for the key.
hash_test_any(d, c) == d.h[Bucket(d.bu_size, c)]

\* hash_test: the pairs of the key's bucket that are equal to it.
hash_test(d, c) == {e \in d.h[Bucket(d.bu_size, c)] : ClassOf[e.first] = c}

hash_occupied(d, c) == d.h[Bucket(d.bu_size, c)] # {}

Occupied(d) == {i \in DOMAIN d.h : d.h[i] # {}}

hash_get_all_values(d) == UNION {d.h[i] : i \in DOMAIN d.h}

\* hash_new and a hash_add of every pair.
hash_of(S, n) == [i \in 0..n - 1 |-> {e \in S : Bucket(n, ClassOf[e.first]) = i}]

hash_add(d, e) ==
  [d EXCEPT !.h[Bucket(d.bu_size, ClassOf[e.first])] = @ \cup {e},
            !.hash_size = @ + 1]

hash_fast_remove(d, e) ==
  [d EXCEPT !.h[Bucket(d.bu_size, ClassOf[e.first])] = @ \ {e},
            !.hash_size = @ - 1]

-----------------------------------------------------------------------------
(* dict.c *)

dict_new ==
  [h         |-> [i \in 0..DICT_REQ_BUCKET - 1 |-> {}],
   hash_size |-> 0,                \* dict->h->size
   used      |-> 0,
   bu_size   |-> DICT_REQ_BUCKET,
   size      |-> 0,
   freed     |-> FALSE]            \* hash_free has freed nodes that are still in use

\* The number of buckets that dict_rehash settles on.
Buckets(d, req) ==
  IF req > d.bu_size THEN d.bu_size * 2
  ELSE IF req < d.bu_size \div 4
    THEN IF d.bu_size \div 2 < DICT_REQ_BUCKET THEN DICT_REQ_BUCKET ELSE d.bu_size \div 2
  ELSE d.bu_size

\* The new table holds the nodes of the old one, which hash_free of the old one
\* gives to dict_hash_cleanup_fun.
dict_rehash(d, req) ==
  LET n == Buckets(d, req)
      h == hash_of(hash_get_all_values(d), n)
  IN  IF n = d.bu_size THEN d
      ELSE [d EXCEPT !.h       = h,
                     !.bu_size = n,
                     !.used    = Cardinality({i \in 0..n - 1 : h[i] # {}}),
                     !.freed   = hash_get_all_values(d) # {}]

\* Mutant: every new node counts as a bucket.
inserted_counted(d, e) ==
  LET occupied == hash_occupied(d, ClassOf[e.first])
      r == IF occupied THEN d ELSE dict_rehash(d, d.used + 1)
  IN  [hash_add(r, e) EXCEPT !.size = @ + 1, !.used = @ + 1]

\* The new node of dict_set; "occupied" is read before the rehash.
Inserted(d, e) ==
  LET occupied == hash_occupied(d, ClassOf[e.first])
      r == IF occupied THEN d ELSE dict_rehash(d, d.used + 1)
  IN  [hash_add(r, e) EXCEPT !.size = @ + 1,
                             !.used = @ + (IF occupied THEN 0 ELSE 1)]

Replaced(d, e, v) ==
  [d EXCEPT !.h[Bucket(d.bu_size, ClassOf[e.first])] = (@ \ {e}) \cup {[e EXCEPT !.second = v]}]

\* Mutant: dict->size is left as it is.
removed_kept_size(d, e) ==
  LET r == hash_fast_remove(d, e)
      u == [r EXCEPT !.used = @ - 1]
  IN  IF hash_occupied(r, ClassOf[e.first]) THEN r ELSE dict_rehash(u, u.used)

\* Mutant: every removed node counts as a bucket.
removed_counted(d, e) ==
  LET r == [hash_fast_remove(d, e) EXCEPT !.size = @ - 1, !.used = @ - 1]
  IN  IF hash_occupied(r, ClassOf[e.first]) THEN r ELSE dict_rehash(r, r.used)

Removed(d, e) ==
  LET r == [hash_fast_remove(d, e) EXCEPT !.size = @ - 1]
      u == [r EXCEPT !.used = @ - 1]
  IN  IF hash_occupied(r, ClassOf[e.first]) THEN r ELSE dict_rehash(u, u.used)

-----------------------------------------------------------------------------
(* Actions. *)

Init == dict = dict_new /\ call = <<"new">> /\ result = NULL

\* The previous value of a key that is there, else the value.
dict_set(k, v) ==
  /\ call' = <<"set", k, v>>
  /\ IF hash_test(dict, ClassOf[k]) # {}
       THEN \E e \in hash_test(dict, ClassOf[k]) :
              /\ dict' = Replaced(dict, e, v)
              /\ result' = e.second
       ELSE /\ dict' = Inserted(dict, [first |-> k, second |-> v])
            /\ result' = v

dict_get(k) ==
  /\ call' = <<"get", k>>
  /\ IF hash_test(dict, ClassOf[k]) # {}
       THEN \E e \in hash_test(dict, ClassOf[k]) : result' = e.second
       ELSE result' = NULL
  /\ UNCHANGED dict

\* The key object of the node and its value, "key doesn't exist." otherwise.
dict_remove(k) ==
  /\ call' = <<"remove", k>>
  /\ IF hash_test(dict, ClassOf[k]) # {}
       THEN \E e \in hash_test(dict, ClassOf[k]) :
              /\ dict' = Removed(dict, e)
              /\ result' = e
       ELSE result' = NULL /\ UNCHANGED dict

Next ==
  \E k \in Key : \/ \E v \in Value : dict_set(k, v)
                 \/ dict_get(k)
                 \/ dict_remove(k)

Spec == Init /\ [][Next]_vars

-----------------------------------------------------------------------------
(* Properties. *)

\* Type invariant: pairs in the buckets, and counters that never wrap below zero.
TypeOK ==
  /\ dict.bu_size \in Nat \ {0}
  /\ dict.h \in [0..dict.bu_size - 1 -> SUBSET Pair]
  /\ dict.hash_size \in Nat /\ dict.used \in Nat /\ dict.size \in Nat
  /\ dict.freed \in BOOLEAN
  /\ result \in Value \cup Pair \cup {NULL}

\* The counter that decides about rehashing, "Hash buckets used." (dict.h),
\* agrees with the chains, and dict_size, the size that dict_pairs gives its
\* vec, with the pairs, after whatever sequence of dict_set and dict_remove: no
\* pair is left out when a dict is printed, copied, traversed or freed.
CountersAgree ==
  /\ dict.used = Cardinality(Occupied(dict))
  /\ dict.size = Cardinality(hash_get_all_values(dict))
  /\ dict.hash_size = dict.size

\* dict_rehash is called but never changes the table, because dict->used + 1 can
\* only exceed bu_size when no bucket is free, and then it is not called: its
\* hash_free, which would free the nodes of the new table, is never reached.
NeverRehashed == dict.bu_size = DICT_REQ_BUCKET /\ ~dict.freed

MapOf(d) ==
  LET S == hash_get_all_values(d)
  IN  [c \in {ClassOf[e.first] : e \in S} |-> CHOOSE e \in S : ClassOf[e.first] = c]

Map == INSTANCE DictMap WITH map <- MapOf(dict)

\* The table is a map: every call, with the arguments it was given, returns and
\* leaves what it would of a map.
ImplementsMap == Map!Spec
=============================================================================
