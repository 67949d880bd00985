----------------------------- MODULE PoolProofs -----------------------------
(***************************************************************************)
(* Proofs about Pool, for any pools, pages, cell types and cells.          *)
(*                                                                         *)
(* The invariant is about the allocator between two calls, but a call      *)
(* nests others: its steps are described by Good(a, S), which holds of an  *)
(* allocator a when S is the set of the cells that somebody holds.  Taking *)
(* a cell adds it to S and putting a cell back removes it, whatever page   *)
(* is used; what is said of the records is added on top.                   *)
(***************************************************************************)
EXTENDS Pool, FiniteSetTheorems, TLAPS

CellsAt(S, p) == {c \in Cell : <<p, c>> \in S}

Lists(a) ==
  /\ \A p \in Page : PoolOf[p] \in a.pool_list <=> p \in a.free \cup InUse(a)
  /\ a.free \cap InUse(a) = {}
  /\ \A t \in Type :
       /\ \A p \in a.page_table[t] : a.t[p] = t /\ a.cells[p] # {}
       /\ \A p \in a.full_table[t] : a.t[p] = t /\ a.cells[p] = {}

Chains(a, S) ==
  \A p \in InUse(a) :
    /\ CellsAt(S, p) \cup a.cells[p] = CellsOf[a.t[p]]
    /\ CellsAt(S, p) \cap a.cells[p] = {}
    /\ a.allocated[p] = Cardinality(CellsAt(S, p))

Pools(a) ==
  \A po \in a.pool_list :
    /\ a.used[po] = Cardinality({p \in InUse(a) : PoolOf[p] = po})
    /\ a.cycle[po] <= RECYCLE_CYCLE

Good(a, S) ==
  /\ a \in Allocator
  /\ S \subseteq Page \X Cell
  /\ Lists(a)
  /\ Chains(a, S)
  /\ Pools(a)
  /\ \A s \in S : s[1] \in InUse(a)

\* The records of the pages in use are cells of S that nobody else holds, on
\* pages of HashType, and such a page holds its own record.
RecordsGood(a, S) ==
  /\ \A p \in a.page_hash : /\ a.hash[p] \in S
                            /\ a.t[a.hash[p][1]] = HashType
                            /\ a.t[p] = HashType => a.hash[p][1] = p
  /\ \A p, q \in a.page_hash : a.hash[p] = a.hash[q] => p = q

\* An allocator between two calls, S being the cells the program or page_hash hold.
Quiet(a, S) ==
  /\ Good(a, S)
  /\ RecordsGood(a, S)
  /\ a.page_hash = InUse(a)
  /\ \A p \in InUse(a) : CellsAt(S, p) # {}

Held == (owned \ Big) \cup Records(alloc)

\* The inductive invariant: once a cell went to the C library nothing is claimed.
Inv ==
  /\ TypeOK
  /\ aborted \/ /\ Quiet(alloc, Held)
                /\ owned \cap Records(alloc) = {}

-----------------------------------------------------------------------------
(* The pages in use and their cells. *)

\* A page is in use when it is on page_table or full_table of some cell type.
LEMMA InUseIff ==
  ASSUME NEW a, NEW p
  PROVE  p \in InUse(a) <=> \E t \in Type : p \in a.page_table[t] \/ p \in a.full_table[t]
BY DEF InUse

\* The cells of a page in use that somebody holds are among those its type gives
\* it, so there are finitely many.
LEMMA CellsAtFinite ==
  ASSUME NEW a, NEW S, Good(a, S), NEW p \in InUse(a)
  PROVE  /\ p \in Page
         /\ a.t[p] \in Type
         /\ CellsAt(S, p) \subseteq CellsOf[a.t[p]]
         /\ IsFiniteSet(CellsAt(S, p))
<1>1. PICK t \in Type : p \in a.page_table[t] \/ p \in a.full_table[t]
  BY InUseIff
<1>2. p \in Page /\ a.t[p] = t
  BY <1>1 DEF Good, Lists, Allocator
<1>3. CellsAt(S, p) \subseteq CellsOf[t]
  BY <1>2 DEF Good, Chains
<1>4. IsFiniteSet(CellsOf[t])
  BY PoolAssumption DEF PoolAssumption
<1> QED
  BY <1>2, <1>3, <1>4, FS_Subset

\* The pages of a pool that are in use are finitely many.
LEMMA UsedFinite ==
  ASSUME NEW a \in Allocator, NEW po
  PROVE  IsFiniteSet({p \in InUse(a) : PoolOf[p] = po})
<1>1. {p \in InUse(a) : PoolOf[p] = po} \subseteq Page
  BY InUseIff DEF Allocator
<1> QED
  BY <1>1, PoolAssumption, FS_Subset DEF PoolAssumption

\* Taking a page out of a free list and chaining its cells (pool_empty_page_out
\* and pool_page_init) leaves the allocator in order, with one more page in use.
LEMMA PageOutGood ==
  ASSUME NEW a, NEW S, Good(a, S), NEW p \in a.free, NEW t \in Type
  PROVE  LET b == pool_page_init(pool_empty_page_out(a, p, t), p, t)
         IN  /\ Good(b, S)
             /\ p \in b.page_table[t]
             /\ p \notin InUse(a)
             /\ InUse(b) = InUse(a) \cup {p}
             /\ b.hash = a.hash
             /\ b.page_hash = a.page_hash
             /\ b.t = [a.t EXCEPT ![p] = t]
<1> DEFINE b == pool_page_init(pool_empty_page_out(a, p, t), p, t)
<1>1. /\ a \in Allocator
      /\ p \in Page
      /\ PoolOf[p] \in Pool
      /\ p \notin InUse(a)
      /\ CellsOf[t] \subseteq Cell
      /\ CellsOf[t] # {}
  BY PoolAssumption DEF Good, Allocator, Lists, PoolAssumption
<1>2. PoolOf[p] \in a.pool_list
  BY <1>1 DEF Good, Lists
<1>3. /\ b.pool_list = a.pool_list
      /\ b.free = a.free \ {p}
      /\ b.used = [a.used EXCEPT ![PoolOf[p]] = @ + 1]
      /\ b.cycle = a.cycle
      /\ b.page_table = [a.page_table EXCEPT ![t] = @ \cup {p}]
      /\ b.full_table = a.full_table
      /\ b.page_hash = a.page_hash
      /\ b.t = [a.t EXCEPT ![p] = t]
      /\ b.cells = [a.cells EXCEPT ![p] = CellsOf[t]]
      /\ b.allocated = [a.allocated EXCEPT ![p] = 0]
      /\ b.hash = a.hash
  BY <1>1 DEF pool_page_init, pool_empty_page_out, Allocator
<1>4. b \in Allocator
  <2> DEFINE f == a.free \ {p}
             u == [a.used EXCEPT ![PoolOf[p]] = @ + 1]
             w == [a.page_table EXCEPT ![t] = @ \cup {p}]
             ty == [a.t EXCEPT ![p] = t]
             ce == [a.cells EXCEPT ![p] = CellsOf[t]]
             al == [a.allocated EXCEPT ![p] = 0]
  <2>1. /\ f \in SUBSET Page
        /\ u \in [Pool -> Nat]
        /\ w \in [Type -> SUBSET Page]
        /\ ty \in [Page -> Type \cup {NULL}]
        /\ ce \in [Page -> SUBSET Cell]
        /\ al \in [Page -> Nat]
    BY <1>1 DEF Allocator
  <2>2. b = [[a EXCEPT !.free = f, !.used = u, !.page_table = w]
               EXCEPT !.t = ty, !.allocated = al, !.cells = ce]
    BY <1>1 DEF pool_page_init, pool_empty_page_out, Allocator
  <2> HIDE DEF b, f, u, w, ty, ce, al
  <2> QED
    BY <1>1, <2>1, <2>2 DEF Allocator
<1> HIDE DEF b
<1>5. InUse(b) = InUse(a) \cup {p}
  BY <1>1, <1>3, InUseIff DEF Allocator
<1>6. Lists(b)
  <2>1. \A q \in Page : PoolOf[q] \in b.pool_list <=> q \in b.free \cup InUse(b)
    BY <1>2, <1>3, <1>5 DEF Good, Lists
  <2>2. b.free \cap InUse(b) = {}
    BY <1>3, <1>5 DEF Good, Lists
  <2>3. ASSUME NEW u \in Type
        PROVE  /\ \A q \in b.page_table[u] : b.t[q] = u /\ b.cells[q] # {}
               /\ \A q \in b.full_table[u] : b.t[q] = u /\ b.cells[q] = {}
    <3>1. p \notin a.page_table[u] /\ p \notin a.full_table[u]
      BY <1>1, InUseIff
    <3>2. a.page_table[u] \subseteq Page /\ a.full_table[u] \subseteq Page
      BY <1>1 DEF Allocator
    <3> QED
      BY <1>1, <1>3, <3>1, <3>2 DEF Good, Lists, Allocator
  <2> QED
    BY <2>1, <2>2, <2>3 DEF Lists
<1>7. Chains(b, S)
  <2>1. CellsAt(S, p) = {}
    BY <1>1 DEF CellsAt, Good
  <2>2. Cardinality(CellsAt(S, p)) = 0
    BY <2>1, FS_EmptySet
  <2>3. InUse(a) \subseteq Page
    BY <1>1, InUseIff DEF Allocator
  <2>4. ASSUME NEW q \in InUse(b), q # p
        PROVE  /\ q \in InUse(a)
               /\ b.cells[q] = a.cells[q]
               /\ b.t[q] = a.t[q]
               /\ b.allocated[q] = a.allocated[q]
    BY <1>1, <1>3, <1>5, <2>3, <2>4 DEF Allocator
  <2>5. b.cells[p] = CellsOf[t] /\ b.t[p] = t /\ b.allocated[p] = 0
    BY <1>1, <1>3 DEF Allocator
  <2> QED
    BY <2>1, <2>2, <2>4, <2>5 DEF Good, Chains
<1>8. Pools(b)
  <2> SUFFICES ASSUME NEW po \in a.pool_list
               PROVE  b.used[po] = Cardinality({q \in InUse(b) : PoolOf[q] = po})
    BY <1>3 DEF Good, Pools
  <2> DEFINE U == {q \in InUse(a) : PoolOf[q] = po}
  <2>1. IsFiniteSet(U) /\ a.used[po] = Cardinality(U) /\ po \in Pool
    BY <1>1, UsedFinite DEF Good, Pools, Allocator
  <2>2. CASE PoolOf[p] = po
    <3>1. {q \in InUse(b) : PoolOf[q] = po} = U \cup {p}
      BY <1>5, <2>2
    <3>2. p \notin U
      BY <1>1
    <3> HIDE DEF U
    <3>3. Cardinality(U \cup {p}) = Cardinality(U) + 1
      BY <2>1, <3>2, FS_AddElement
    <3>4. b.used[po] = a.used[po] + 1
      BY <1>1, <1>3, <2>1, <2>2 DEF Allocator
    <3> QED
      BY <2>1, <3>1, <3>3, <3>4
  <2>3. CASE PoolOf[p] # po
    <3>1. {q \in InUse(b) : PoolOf[q] = po} = U
      BY <1>5, <2>3
    <3> QED
      BY <1>1, <1>3, <2>1, <2>3, <3>1 DEF Allocator
  <2> QED
    BY <2>2, <2>3
<1>9. p \in b.page_table[t]
  BY <1>1, <1>3 DEF Allocator
<1> QED
  BY <1>1, <1>3, <1>4, <1>5, <1>6, <1>7, <1>8, <1>9 DEF Good, b

\* A pool just obtained (pool_new) has all its pages in its free list.
LEMMA NewPoolGood ==
  ASSUME NEW a, NEW S, Good(a, S), NEW po \in Pool \ a.pool_list
  PROVE  LET b == pool_new(a, po)
         IN  /\ Good(b, S)
             /\ InUse(b) = InUse(a)
             /\ b.hash = a.hash
             /\ b.page_hash = a.page_hash
             /\ b.t = a.t
             /\ b.free # {}
<1> DEFINE b == pool_new(a, po)
<1>1. /\ a \in Allocator
      /\ PagesOf(po) \subseteq Page
      /\ PagesOf(po) # {}
      /\ RECYCLE_CYCLE \in Nat
  BY PoolAssumption DEF Good, PagesOf, PoolAssumption
<1>2. /\ b.pool_list = a.pool_list \cup {po}
      /\ b.free = a.free \cup PagesOf(po)
      /\ b.used = [a.used EXCEPT ![po] = 0]
      /\ b.cycle = [a.cycle EXCEPT ![po] = 0]
      /\ b.page_table = a.page_table
      /\ b.full_table = a.full_table
      /\ b.page_hash = a.page_hash
      /\ b.t = a.t
      /\ b.cells = a.cells
      /\ b.allocated = a.allocated
      /\ b.hash = a.hash
  BY <1>1 DEF pool_new, Allocator
<1>3. b \in Allocator
  <2> DEFINE f == a.free \cup PagesOf(po)
             l == a.pool_list \cup {po}
             u == [a.used EXCEPT ![po] = 0]
             c == [a.cycle EXCEPT ![po] = 0]
  <2>1. /\ f \in SUBSET Page
        /\ l \in SUBSET Pool
        /\ u \in [Pool -> Nat]
        /\ c \in [Pool -> Nat]
    BY <1>1 DEF Allocator
  <2>2. b = [a EXCEPT !.pool_list = l, !.free = f, !.used = u, !.cycle = c]
    BY <1>1 DEF pool_new, Allocator
  <2> HIDE DEF b, f, l, u, c
  <2> QED
    BY <1>1, <2>1, <2>2 DEF Allocator
<1> HIDE DEF b
<1>4. InUse(b) = InUse(a)
  BY <1>2 DEF InUse
<1>5. \A p \in InUse(a) : p \in Page /\ PoolOf[p] \in a.pool_list
  BY <1>1, InUseIff DEF Good, Lists, Allocator
<1>6. Lists(b)
  <2>1. \A p \in Page : PoolOf[p] \in b.pool_list <=> p \in b.free \cup InUse(b)
    BY <1>2, <1>4 DEF Good, Lists, PagesOf
  <2>2. b.free \cap InUse(b) = {}
    BY <1>2, <1>4, <1>5 DEF Good, Lists, PagesOf
  <2> QED
    BY <1>2, <2>1, <2>2 DEF Good, Lists
<1>7. Chains(b, S)
  BY <1>2, <1>4 DEF Good, Chains
<1>8. Pools(b)
  <2>1. b.used[po] = 0 /\ b.cycle[po] = 0
    BY <1>1, <1>2 DEF Allocator
  <2>2. {p \in InUse(b) : PoolOf[p] = po} = {}
    BY <1>4, <1>5
  <2>3. ASSUME NEW q \in a.pool_list
        PROVE  b.used[q] = a.used[q] /\ b.cycle[q] = a.cycle[q]
    BY <1>1, <1>2 DEF Allocator
  <2>4. b.used[po] = Cardinality({p \in InUse(b) : PoolOf[p] = po})
    BY <2>1, <2>2, FS_EmptySet
  <2>5. ASSUME NEW q \in a.pool_list
        PROVE  /\ b.used[q] = Cardinality({p \in InUse(b) : PoolOf[p] = q})
               /\ b.cycle[q] <= RECYCLE_CYCLE
    BY <1>4, <2>3 DEF Good, Pools
  <2> SUFFICES ASSUME NEW q \in b.pool_list
               PROVE  /\ b.used[q] = Cardinality({p \in InUse(b) : PoolOf[p] = q})
                      /\ b.cycle[q] <= RECYCLE_CYCLE
    BY DEF Pools
  <2>6. CASE q = po
    BY <1>1, <2>1, <2>4, <2>6
  <2> QED
    BY <1>2, <2>5, <2>6
<1> QED
  BY <1>1, <1>2, <1>3, <1>4, <1>6, <1>7, <1>8 DEF Good, b

\* What pool_get_page returns: a page of the type asked for with a cell to
\* serve, to be hashed exactly when it was not in use.
LEMMA GetPageGood ==
  ASSUME NEW a, NEW S, Good(a, S), NEW t \in Type, NEW g \in pool_get_page(a, t)
  PROVE  /\ Good(g.a, S)
         /\ g.page \in g.a.page_table[t]
         /\ InUse(g.a) = InUse(a) \cup {g.page}
         /\ g.need_hash = (g.page \notin InUse(a))
         /\ g.a.hash = a.hash
         /\ g.a.page_hash = a.page_hash
         /\ \A q \in InUse(a) : g.a.t[q] = a.t[q]
<1>1. CASE a.page_table[t] # {}
  <2>1. PICK p \in a.page_table[t] : g = [a |-> a, page |-> p, need_hash |-> FALSE]
    BY <1>1 DEF pool_get_page
  <2>2. p \in InUse(a)
    BY <2>1, InUseIff
  <2> QED
    BY <2>1, <2>2
<1>2. ASSUME NEW b, Good(b, S), InUse(b) = InUse(a), b.hash = a.hash,
             b.page_hash = a.page_hash, b.t = a.t, g \in FreshPages(b, t)
      PROVE  /\ Good(g.a, S)
             /\ g.page \in g.a.page_table[t]
             /\ InUse(g.a) = InUse(a) \cup {g.page}
             /\ g.need_hash = (g.page \notin InUse(a))
             /\ g.a.hash = a.hash
             /\ g.a.page_hash = a.page_hash
             /\ \A q \in InUse(a) : g.a.t[q] = a.t[q]
  <2>1. PICK p \in b.free :
          g = [a |-> pool_page_init(pool_empty_page_out(b, p, t), p, t),
               page |-> p, need_hash |-> TRUE]
    BY <1>2 DEF FreshPages
  <2> DEFINE d == pool_page_init(pool_empty_page_out(b, p, t), p, t)
  <2>2. /\ Good(d, S)
        /\ p \in d.page_table[t]
        /\ p \notin InUse(b)
        /\ InUse(d) = InUse(b) \cup {p}
        /\ d.hash = b.hash
        /\ d.page_hash = b.page_hash
        /\ d.t = [b.t EXCEPT ![p] = t]
    BY <1>2, PageOutGood
  <2>3. g.a = d /\ g.page = p /\ g.need_hash = TRUE
    BY <2>1
  <2> HIDE DEF d
  <2>4. \A q \in InUse(a) : q \in Page /\ d.t[q] = a.t[q]
    BY <1>2, <2>2, InUseIff DEF Good, Allocator
  <2> QED
    BY <1>2, <2>2, <2>3, <2>4
<1>3. CASE a.page_table[t] = {} /\ a.free # {}
  BY <1>2, <1>3 DEF pool_get_page
<1>4. CASE a.page_table[t] = {} /\ a.free = {}
  <2>1. PICK po \in PoolsToGet(a) : g \in FreshPages(pool_new(a, po), t)
    BY <1>4 DEF pool_get_page
  <2>2. po \in Pool \ a.pool_list
    BY <2>1 DEF PoolsToGet
  <2> QED
    BY <1>2, <2>1, <2>2, NewPoolGood
<1> QED
  BY <1>1, <1>3, <1>4

\* pool_get_cell serves a cell that nobody holds, and accounts for it.
LEMMA GetCellGood ==
  ASSUME NEW a, NEW S, Good(a, S), NEW t \in Type, NEW p \in a.page_table[t],
         NEW c \in a.cells[p]
  PROVE  LET b == pool_get_cell(a, p, c)
         IN  /\ Good(b, S \cup {<<p, c>>})
             /\ <<p, c>> \notin S
             /\ InUse(b) = InUse(a)
             /\ b.hash = a.hash
             /\ b.page_hash = a.page_hash
             /\ b.t = a.t
<1> DEFINE b == pool_get_cell(a, p, c)
           T == S \cup {<<p, c>>}
<1>1. /\ a \in Allocator
      /\ p \in Page
      /\ c \in Cell
      /\ a.t[p] = t
      /\ p \in InUse(a)
      /\ p \notin a.full_table[t]
  BY InUseIff DEF Good, Lists, Allocator
<1>2. /\ b.pool_list = a.pool_list
      /\ b.free = a.free
      /\ b.used = a.used
      /\ b.cycle = a.cycle
      /\ b.page_hash = a.page_hash
      /\ b.t = a.t
      /\ b.cells = [a.cells EXCEPT ![p] = @ \ {c}]
      /\ b.allocated = [a.allocated EXCEPT ![p] = @ + 1]
      /\ b.hash = a.hash
  BY <1>1 DEF pool_get_cell, Allocator
<1>3. /\ b.page_table = IF a.cells[p] # {c} THEN a.page_table
                         ELSE [a.page_table EXCEPT ![t] = @ \ {p}]
      /\ b.full_table = IF a.cells[p] # {c} THEN a.full_table
                         ELSE [a.full_table EXCEPT ![t] = @ \cup {p}]
  BY <1>1 DEF pool_get_cell, Allocator
<1>4. b \in Allocator
  <2> DEFINE ce == [a.cells EXCEPT ![p] = @ \ {c}]
             al == [a.allocated EXCEPT ![p] = @ + 1]
             w == [a.page_table EXCEPT ![t] = @ \ {p}]
             fu == [a.full_table EXCEPT ![t] = @ \cup {p}]
  <2>1. /\ ce \in [Page -> SUBSET Cell]
        /\ al \in [Page -> Nat]
        /\ w \in [Type -> SUBSET Page]
        /\ fu \in [Type -> SUBSET Page]
    BY <1>1 DEF Allocator
  <2>2. b = IF a.cells[p] # {c} THEN [a EXCEPT !.cells = ce, !.allocated = al]
            ELSE [[a EXCEPT !.cells = ce, !.allocated = al]
                    EXCEPT !.page_table = w, !.full_table = fu]
    BY <1>1 DEF pool_get_cell, Allocator
  <2> HIDE DEF b, ce, al, w, fu
  <2> QED
    BY <1>1, <2>1, <2>2 DEF Allocator
<1> HIDE DEF b
<1>5. InUse(b) = InUse(a)
  <2> SUFFICES ASSUME NEW q PROVE q \in InUse(b) <=> q \in InUse(a)
    OBVIOUS
  <2>1. CASE a.cells[p] # {c}
    BY <1>3, <2>1 DEF InUse
  <2>2. CASE a.cells[p] = {c}
    BY <1>1, <1>3, <2>2, InUseIff DEF Allocator
  <2> QED
    BY <2>1, <2>2
<1>6. <<p, c>> \notin S /\ c \notin CellsAt(S, p)
  BY <1>1 DEF Good, Chains, CellsAt
<1>7. /\ CellsAt(T, p) = CellsAt(S, p) \cup {c}
      /\ \A q \in Page : q # p => CellsAt(T, q) = CellsAt(S, q)
  BY <1>1 DEF CellsAt, Good
<1>8. b.cells[p] = a.cells[p] \ {c} /\ b.allocated[p] = a.allocated[p] + 1
  BY <1>1, <1>2 DEF Allocator
<1>9. \A q \in Page : q # p => b.cells[q] = a.cells[q] /\ b.allocated[q] = a.allocated[q]
  BY <1>1, <1>2 DEF Allocator
<1> HIDE DEF T
<1>10. InUse(a) \subseteq Page
  BY <1>1, InUseIff DEF Allocator
<1>11. Lists(b)
  <2>1. /\ \A q \in Page : PoolOf[q] \in b.pool_list <=> q \in b.free \cup InUse(b)
        /\ b.free \cap InUse(b) = {}
    BY <1>2, <1>5 DEF Good, Lists
  <2>2. ASSUME NEW u \in Type
        PROVE  /\ \A q \in b.page_table[u] : b.t[q] = u /\ b.cells[q] # {}
               /\ \A q \in b.full_table[u] : b.t[q] = u /\ b.cells[q] = {}
    <3>1. /\ a.page_table[u] \subseteq Page
          /\ a.full_table[u] \subseteq Page
          /\ \A q \in a.page_table[u] : a.t[q] = u /\ a.cells[q] # {}
          /\ \A q \in a.full_table[u] : a.t[q] = u /\ a.cells[q] = {}
      BY <1>1 DEF Good, Lists, Allocator
    <3>2. CASE a.cells[p] # {c}
      <4>1. p \notin a.full_table[u]
        BY <1>1, <3>1
      <4> QED
        BY <1>2, <1>3, <1>8, <1>9, <3>1, <3>2, <4>1
    <3>3. CASE a.cells[p] = {c}
      <4>1. /\ b.page_table[u] = a.page_table[u] \ {p}
            /\ b.full_table[u] \subseteq a.full_table[u] \cup {p}
            /\ p \in b.full_table[u] => u = t
        BY <1>1, <1>3, <3>1, <3>3 DEF Allocator
      <4> QED
        BY <1>1, <1>2, <1>8, <1>9, <3>1, <3>3, <4>1
    <3> QED
      BY <3>2, <3>3
  <2> QED
    BY <2>1, <2>2 DEF Lists
<1>12. Chains(b, T)
  <2>1. CellsAt(T, p) \cup b.cells[p] = CellsOf[b.t[p]] /\ CellsAt(T, p) \cap b.cells[p] = {}
    BY <1>1, <1>2, <1>6, <1>7, <1>8 DEF Good, Chains
  <2>2. b.allocated[p] = Cardinality(CellsAt(T, p))
    <3>1. IsFiniteSet(CellsAt(S, p)) /\ a.allocated[p] = Cardinality(CellsAt(S, p))
      BY <1>1, CellsAtFinite DEF Good, Chains
    <3> QED
      BY <1>6, <1>7, <1>8, <3>1, FS_AddElement
  <2>3. ASSUME NEW q \in InUse(a), q # p
        PROVE  /\ CellsAt(T, q) \cup b.cells[q] = CellsOf[b.t[q]]
               /\ CellsAt(T, q) \cap b.cells[q] = {}
               /\ b.allocated[q] = Cardinality(CellsAt(T, q))
    BY <1>2, <1>7, <1>9, <1>10, <2>3 DEF Good, Chains
  <2> QED
    BY <1>5, <2>1, <2>2, <2>3 DEF Chains
<1>13. Pools(b)
  BY <1>2, <1>5 DEF Good, Pools
<1>14. T \subseteq Page \X Cell /\ \A s \in T : s[1] \in InUse(b)
  BY <1>1, <1>5 DEF Good, T
<1> QED
  BY <1>2, <1>4, <1>5, <1>6, <1>11, <1>12, <1>13, <1>14 DEF Good, b, T

\* Taking a cell of type t, whichever page serves it.
LEMMA TakeGood ==
  ASSUME NEW a, NEW S, Good(a, S), NEW t \in Type, NEW r \in Take(a, t)
  PROVE  /\ Good(r.a, S \cup {r.cell})
         /\ r.cell \in (Page \X Cell) \ S
         /\ r.cell[1] = r.page
         /\ InUse(r.a) = InUse(a) \cup {r.page}
         /\ r.need_hash = (r.page \notin InUse(a))
         /\ r.a.hash = a.hash
         /\ r.a.page_hash = a.page_hash
         /\ r.a.t[r.page] = t
         /\ \A q \in InUse(a) : r.a.t[q] = a.t[q]
<1>1. PICK g \in pool_get_page(a, t) : r \in TakenFrom(g)
  BY DEF Take
<1>2. PICK c \in g.a.cells[g.page] :
        r = [a |-> pool_get_cell(g.a, g.page, c), page |-> g.page,
             cell |-> <<g.page, c>>, need_hash |-> g.need_hash]
  BY <1>1 DEF TakenFrom
<1>3. /\ Good(g.a, S)
      /\ g.page \in g.a.page_table[t]
      /\ InUse(g.a) = InUse(a) \cup {g.page}
      /\ g.need_hash = (g.page \notin InUse(a))
      /\ g.a.hash = a.hash
      /\ g.a.page_hash = a.page_hash
      /\ \A q \in InUse(a) : g.a.t[q] = a.t[q]
  BY <1>1, GetPageGood
<1> DEFINE b == pool_get_cell(g.a, g.page, c)
<1>4. /\ Good(b, S \cup {<<g.page, c>>})
      /\ <<g.page, c>> \notin S
      /\ InUse(b) = InUse(g.a)
      /\ b.hash = g.a.hash
      /\ b.page_hash = g.a.page_hash
      /\ b.t = g.a.t
  BY <1>2, <1>3, GetCellGood
<1>5. g.a.t[g.page] = t /\ g.page \in Page /\ c \in Cell
  BY <1>2, <1>3 DEF Good, Lists, Allocator
<1>6. r.a = b /\ r.page = g.page /\ r.cell = <<g.page, c>> /\ r.need_hash = g.need_hash
  BY <1>2
<1> HIDE DEF b
<1> QED
  BY <1>3, <1>4, <1>5, <1>6

\* A fresh page of HashType is the only one with cells for a record, and it still
\* has some: the next record is on that page.
LEMMA FreshHashPage ==
  ASSUME NEW a, NEW S, Good(a, S), NEW r \in Take(a, HashType), r.need_hash,
         NEW s \in Take(r.a, HashType)
  PROVE  s.page = r.page
<1>1. PICK g \in pool_get_page(a, HashType) : r \in TakenFrom(g)
  BY DEF Take
<1>2. PICK c \in g.a.cells[g.page] :
        r = [a |-> pool_get_cell(g.a, g.page, c), page |-> g.page,
             cell |-> <<g.page, c>>, need_hash |-> g.need_hash]
  BY <1>1 DEF TakenFrom
<1>3. HashType \in Type /\ IsFiniteSet(CellsOf[HashType]) /\ Cardinality(CellsOf[HashType]) >= 2
  BY PoolAssumption DEF PoolAssumption
<1>4. ASSUME NEW b, Good(b, S), b.page_table[HashType] = {}, g \in FreshPages(b, HashType)
      PROVE  /\ g.a.page_table[HashType] = {g.page}
             /\ g.a.cells[g.page] = CellsOf[HashType]
  <2>1. PICK p \in b.free :
          g = [a |-> pool_page_init(pool_empty_page_out(b, p, HashType), p, HashType),
               page |-> p, need_hash |-> TRUE]
    BY <1>4 DEF FreshPages
  <2>2. b \in Allocator /\ p \in Page
    BY <1>4 DEF Good, Allocator
  <2> DEFINE d == pool_page_init(pool_empty_page_out(b, p, HashType), p, HashType)
  <2>3. d.page_table[HashType] = {p} /\ d.cells[p] = CellsOf[HashType]
    BY <1>3, <1>4, <2>2 DEF pool_page_init, pool_empty_page_out, Allocator
  <2> HIDE DEF d
  <2>4. g.a = d /\ g.page = p
    BY <2>1 DEF d
  <2> QED
    BY <2>3, <2>4
<1>5. g.need_hash
  BY <1>2
<1>6. a.page_table[HashType] = {}
  BY <1>1, <1>5 DEF pool_get_page
<1>7. g.a.page_table[HashType] = {g.page} /\ g.a.cells[g.page] = CellsOf[HashType]
  <2>1. CASE a.free # {}
    BY <1>4, <1>6, <2>1 DEF pool_get_page
  <2>2. CASE a.free = {}
    <3>1. PICK po \in PoolsToGet(a) : g \in FreshPages(pool_new(a, po), HashType)
      BY <1>6, <2>2 DEF pool_get_page
    <3>2. po \in Pool \ a.pool_list
      BY <3>1 DEF PoolsToGet
    <3>3. pool_new(a, po).page_table = a.page_table
      BY DEF pool_new, Good, Allocator
    <3> QED
      BY <1>4, <1>6, <3>1, <3>2, <3>3, NewPoolGood
  <2> QED
    BY <2>1, <2>2
<1>8. Good(g.a, S) /\ g.page \in g.a.page_table[HashType]
  BY <1>1, <1>3, GetPageGood
<1>9. g.a.cells[g.page] # {c}
  BY <1>3, <1>7, FS_Singleton
<1>10. r.a.page_table = g.a.page_table /\ r.page = g.page
  <2>1. r.a = pool_get_cell(g.a, g.page, c) /\ r.page = g.page
    BY <1>2
  <2> QED
    BY <1>8, <1>9, <2>1 DEF pool_get_cell, Good, Allocator
<1>11. PICK h \in pool_get_page(r.a, HashType) : s \in TakenFrom(h)
  BY DEF Take
<1>12. h.page = r.page
  BY <1>7, <1>10, <1>11 DEF pool_get_page
<1> QED
  BY <1>11, <1>12 DEF TakenFrom

\* Linking a record into page_hash touches nothing else.
LEMMA HashedGood ==
  ASSUME NEW a, NEW S, Good(a, S), RecordsGood(a, S),
         NEW p \in InUse(a), p \notin a.page_hash,
         NEW b \in S, b \notin Records(a),
         a.t[b[1]] = HashType,
         a.t[p] = HashType => b[1] = p
  PROVE  LET h == Hashed(a, p, b)
         IN  /\ Good(h, S)
             /\ RecordsGood(h, S)
             /\ Records(h) = Records(a) \cup {b}
             /\ InUse(h) = InUse(a)
             /\ h.page_hash = a.page_hash \cup {p}
             /\ h.t = a.t
<1> DEFINE h == Hashed(a, p, b)
<1>1. a \in Allocator /\ p \in Page /\ b \in Page \X Cell
  BY CellsAtFinite DEF Good
<1>2. /\ h.pool_list = a.pool_list
      /\ h.free = a.free
      /\ h.used = a.used
      /\ h.cycle = a.cycle
      /\ h.page_table = a.page_table
      /\ h.full_table = a.full_table
      /\ h.page_hash = a.page_hash \cup {p}
      /\ h.t = a.t
      /\ h.cells = a.cells
      /\ h.allocated = a.allocated
      /\ h.hash = [a.hash EXCEPT ![p] = b]
  BY <1>1 DEF Hashed, Allocator
<1>3. h \in Allocator
  <2> DEFINE ph == a.page_hash \cup {p}
             ha == [a.hash EXCEPT ![p] = b]
  <2>1. ph \in SUBSET Page /\ ha \in [Page -> (Page \X Cell) \cup {NULL}]
    BY <1>1 DEF Allocator
  <2>2. h = [a EXCEPT !.page_hash = ph, !.hash = ha]
    BY <1>1 DEF Hashed, Allocator
  <2> HIDE DEF h, ph, ha
  <2> QED
    BY <1>1, <2>1, <2>2 DEF Allocator
<1> HIDE DEF h
<1>4. InUse(h) = InUse(a)
  BY <1>2 DEF InUse
<1>5. Lists(h) /\ Chains(h, S) /\ Pools(h)
  BY <1>2, <1>4 DEF Good, Lists, Chains, Pools
<1>6. Good(h, S)
  BY <1>3, <1>4, <1>5 DEF Good
<1>7. h.hash[p] = b /\ \A q \in a.page_hash : h.hash[q] = a.hash[q]
  BY <1>1, <1>2 DEF Allocator
<1>8. Records(h) = Records(a) \cup {b}
  BY <1>2, <1>7 DEF Records
<1>9. RecordsGood(h, S)
  <2>1. \A q \in a.page_hash : a.hash[q] # b
    BY DEF Records
  <2>2. ASSUME NEW q \in h.page_hash
        PROVE  /\ h.hash[q] \in S
               /\ h.t[h.hash[q][1]] = HashType
               /\ h.t[q] = HashType => h.hash[q][1] = q
    BY <1>2, <1>7 DEF RecordsGood
  <2>3. ASSUME NEW q \in h.page_hash, NEW s \in h.page_hash, h.hash[q] = h.hash[s]
        PROVE  q = s
    BY <1>2, <1>7, <2>1, <2>3 DEF RecordsGood
  <2> QED
    BY <2>2, <2>3 DEF RecordsGood
<1> QED
  BY <1>2, <1>4, <1>6, <1>8, <1>9 DEF h

\* What is said of the records survives the taking of a cell.
LEMMA TakeRecords ==
  ASSUME NEW a, NEW S, Good(a, S), RecordsGood(a, S), a.page_hash \subseteq InUse(a),
         NEW t \in Type, NEW r \in Take(a, t)
  PROVE  /\ RecordsGood(r.a, S \cup {r.cell})
         /\ Records(r.a) = Records(a)
         /\ Records(a) \subseteq S
<1>1. /\ Good(r.a, S \cup {r.cell})
      /\ r.a.hash = a.hash
      /\ r.a.page_hash = a.page_hash
      /\ \A q \in InUse(a) : r.a.t[q] = a.t[q]
  BY TakeGood
<1>2. \A s \in S : s[1] \in InUse(a)
  BY DEF Good
<1> QED
  BY <1>1, <1>2 DEF RecordsGood, Records

\* A whole allocation, with the record of its page and the record of the page of
\* that record when they are needed: the cell returned and the records are new.
LEMMA AllocGood ==
  ASSUME NEW a, NEW S, Quiet(a, S), NEW t \in Type, NEW r \in pool_alloc_allocator(a, t)
  PROVE  \E X \in SUBSET (Page \X Cell) :
           /\ Quiet(r.a, S \cup {r.cell} \cup X)
           /\ Records(r.a) = Records(a) \cup X
           /\ r.cell \in (Page \X Cell) \ S
           /\ r.cell \notin X
           /\ X \cap S = {}
           /\ \A q \in InUse(a) : q \in InUse(r.a) /\ r.a.t[q] = a.t[q]
<1>1. PICK u \in Take(a, t) :
        r \in IF u.need_hash
               THEN {[a |-> h, cell |-> u.cell] : h \in pool_page_hash_add(u.a, u.page)}
               ELSE {[a |-> u.a, cell |-> u.cell]}
  BY DEF pool_alloc_allocator
<1> DEFINE S1 == S \cup {u.cell}
<1>2. /\ Good(u.a, S1)
      /\ u.cell \in (Page \X Cell) \ S
      /\ u.cell[1] = u.page
      /\ InUse(u.a) = InUse(a) \cup {u.page}
      /\ u.need_hash = (u.page \notin InUse(a))
      /\ u.a.hash = a.hash
      /\ u.a.page_hash = a.page_hash
      /\ u.a.t[u.page] = t
      /\ \A q \in InUse(a) : u.a.t[q] = a.t[q]
  <2>1. Good(a, S)
    BY DEF Quiet
  <2> QED
    BY <2>1, TakeGood
<1>3. RecordsGood(u.a, S1) /\ Records(u.a) = Records(a) /\ Records(a) \subseteq S
  BY <1>1, TakeRecords DEF Quiet
<1>4. a.page_hash = InUse(a) /\ \A p \in InUse(a) : CellsAt(S, p) # {}
  BY DEF Quiet
<1>5. \A p \in InUse(u.a) : CellsAt(S1, p) # {}
  <2>1. CellsAt(S1, u.page) # {}
    BY <1>2 DEF CellsAt
  <2>2. \A p : CellsAt(S, p) \subseteq CellsAt(S1, p)
    BY DEF CellsAt
  <2> QED
    BY <1>2, <1>4, <2>1, <2>2
<1> HIDE DEF S1
<1>6. CASE ~u.need_hash
  <2>1. r.a = u.a /\ r.cell = u.cell
    BY <1>1, <1>6
  <2>2. InUse(u.a) = InUse(a)
    BY <1>2, <1>6
  <2>3. Quiet(u.a, S1)
    BY <1>2, <1>3, <1>4, <1>5, <2>2 DEF Quiet
  <2>4. S \cup {r.cell} \cup {} = S1
    BY <2>1 DEF S1
  <2> WITNESS {} \in SUBSET (Page \X Cell)
  <2> QED
    BY <1>2, <1>3, <2>1, <2>3, <2>4
<1>7. CASE u.need_hash
  <2>0. HashType \in Type
    BY PoolAssumption DEF PoolAssumption
  <2>1. PICK h \in pool_page_hash_add(u.a, u.page) : r = [a |-> h, cell |-> u.cell]
    BY <1>1, <1>7
  <2>2. r.a = h /\ r.cell = u.cell
    BY <2>1
  <2>3. PICK v \in Take(u.a, HashType) :
          h \in IF v.need_hash
                 THEN {Hashed(Hashed(s.a, v.page, s.cell), u.page, v.cell) :
                         s \in Take(v.a, HashType)}
                 ELSE {Hashed(v.a, u.page, v.cell)}
    BY <2>1 DEF pool_page_hash_add
  <2> DEFINE S2 == S1 \cup {v.cell}
  <2>4. /\ Good(v.a, S2)
        /\ v.cell \in (Page \X Cell) \ S1
        /\ v.cell[1] = v.page
        /\ InUse(v.a) = InUse(u.a) \cup {v.page}
        /\ v.need_hash = (v.page \notin InUse(u.a))
        /\ v.a.page_hash = u.a.page_hash
        /\ v.a.t[v.page] = HashType
        /\ v.a.t[u.page] = t
        /\ \A q \in InUse(u.a) : v.a.t[q] = u.a.t[q]
    <3>1. u.page \in InUse(u.a)
      BY <1>2
    <3>2. Good(u.a, S1)
      BY <1>2
    <3>3. /\ Good(v.a, S1 \cup {v.cell})
          /\ v.cell \in (Page \X Cell) \ S1
          /\ v.cell[1] = v.page
          /\ InUse(v.a) = InUse(u.a) \cup {v.page}
          /\ v.need_hash = (v.page \notin InUse(u.a))
          /\ v.a.page_hash = u.a.page_hash
          /\ v.a.t[v.page] = HashType
          /\ \A q \in InUse(u.a) : v.a.t[q] = u.a.t[q]
      BY <2>0, <3>2, TakeGood
    <3> QED
      BY <1>2, <3>1, <3>3
  <2>5. RecordsGood(v.a, S2) /\ Records(v.a) = Records(a)
    <3>1. Good(u.a, S1) /\ RecordsGood(u.a, S1) /\ u.a.page_hash \subseteq InUse(u.a)
      BY <1>2, <1>3, <1>4
    <3>2. /\ RecordsGood(v.a, S1 \cup {v.cell})
          /\ Records(v.a) = Records(u.a)
          /\ Records(u.a) \subseteq S1
      BY <2>0, <3>1, TakeRecords
    <3> QED
      BY <1>3, <3>2
  <2>6. t = HashType => v.page = u.page
    BY <1>1, <1>7, <2>3, FreshHashPage DEF Quiet
  <2>7. \A p \in InUse(v.a) : CellsAt(S2, p) # {}
    <3>1. CellsAt(S2, v.page) # {}
      BY <2>4 DEF CellsAt
    <3>2. \A p : CellsAt(S1, p) \subseteq CellsAt(S2, p)
      BY DEF CellsAt
    <3> QED
      BY <1>5, <2>4, <3>1, <3>2
  <2> HIDE DEF S2
  <2>8. v.cell \in S2 /\ S1 \subseteq S2 /\ v.cell \notin S /\ u.cell # v.cell
    BY <2>4 DEF S1, S2
  <2>9. CASE ~v.need_hash
    <3>1. h = Hashed(v.a, u.page, v.cell)
      BY <2>3, <2>9
    <3>2. /\ Good(h, S2)
          /\ RecordsGood(h, S2)
          /\ Records(h) = Records(v.a) \cup {v.cell}
          /\ InUse(h) = InUse(v.a)
          /\ h.page_hash = v.a.page_hash \cup {u.page}
          /\ h.t = v.a.t
      <4>1. u.page \in InUse(v.a) /\ u.page \notin v.a.page_hash
        BY <1>2, <1>4, <1>7, <2>4, ZenonT(60)
      <4>2. v.cell \notin Records(v.a)
        BY <1>3, <2>5, <2>8
      <4> QED
        BY <2>4, <2>5, <2>6, <2>8, <3>1, <4>1, <4>2, HashedGood
    <3>3. h.page_hash = InUse(h)
      BY <1>2, <1>4, <2>4, <2>9, <3>2, ZenonT(60)
    <3>4. Quiet(h, S2)
      BY <2>7, <3>2, <3>3 DEF Quiet
    <3>5. S \cup {r.cell} \cup {v.cell} = S2
      BY <2>2 DEF S1, S2
    <3>6. {v.cell} \in SUBSET (Page \X Cell)
      BY <2>4
    <3>7. \A q \in InUse(a) : q \in InUse(h) /\ h.t[q] = a.t[q]
      BY <1>2, <2>4, <3>2
    <3> WITNESS {v.cell} \in SUBSET (Page \X Cell)
    <3> QED
      BY <1>2, <2>2, <2>5, <2>8, <3>2, <3>4, <3>5, <3>7
  <2>10. CASE v.need_hash
    <3>1. PICK s \in Take(v.a, HashType) :
            h = Hashed(Hashed(s.a, v.page, s.cell), u.page, v.cell)
      BY <2>3, <2>10
    <3> DEFINE S3 == S2 \cup {s.cell}
               k == Hashed(s.a, v.page, s.cell)
    <3>2. s.page = v.page
      BY <1>2, <2>3, <2>10, <3>1, FreshHashPage
    <3>3. /\ Good(s.a, S3)
          /\ s.cell \in (Page \X Cell) \ S2
          /\ s.cell[1] = v.page
          /\ InUse(s.a) = InUse(v.a)
          /\ s.a.page_hash = v.a.page_hash
          /\ s.a.t[v.page] = HashType
          /\ s.a.t[u.page] = t
          /\ \A q \in InUse(v.a) : s.a.t[q] = v.a.t[q]
      <4>1. v.page \in InUse(v.a) /\ u.page \in InUse(v.a)
        BY <1>2, <2>4
      <4>2. Good(v.a, S2)
        BY <2>4
      <4>3. /\ Good(s.a, S2 \cup {s.cell})
            /\ s.cell \in (Page \X Cell) \ S2
            /\ s.cell[1] = s.page
            /\ InUse(s.a) = InUse(v.a) \cup {s.page}
            /\ s.need_hash = (s.page \notin InUse(v.a))
            /\ s.a.page_hash = v.a.page_hash
            /\ s.a.t[s.page] = HashType
            /\ \A q \in InUse(v.a) : s.a.t[q] = v.a.t[q]
        <5> HIDE DEF k, S3
        <5>1. s \in Take(v.a, HashType)
          BY <3>1
        <5> QED
          BY <2>0, <4>2, <5>1, TakeGood, SMTT(60)
      <4>4. InUse(s.a) = InUse(v.a) /\ s.cell[1] = v.page
        BY <3>2, <4>1, <4>3
      <4>5. s.a.t[v.page] = HashType /\ s.a.t[u.page] = t
        BY <2>4, <3>2, <4>1, <4>3
      <4>6. /\ Good(s.a, S2 \cup {s.cell})
            /\ s.cell \in (Page \X Cell) \ S2
            /\ s.a.page_hash = v.a.page_hash
            /\ \A q \in InUse(v.a) : s.a.t[q] = v.a.t[q]
        BY <4>3
      <4> QED
        BY <4>4, <4>5, <4>6
    <3>4. RecordsGood(s.a, S3) /\ Records(s.a) = Records(a)
      <4>1. Good(v.a, S2) /\ RecordsGood(v.a, S2) /\ v.a.page_hash \subseteq InUse(v.a)
        BY <1>2, <1>4, <2>4, <2>5
      <4>2. /\ RecordsGood(s.a, S2 \cup {s.cell})
            /\ Records(s.a) = Records(v.a)
            /\ Records(v.a) \subseteq S2
        BY <2>0, <4>1, TakeRecords
      <4> QED
        BY <2>5, <4>2
    <3>5. t # HashType
      BY <1>2, <2>4, <2>6, <2>10
    <3>6. \A p \in InUse(s.a) : CellsAt(S3, p) # {}
      <4>1. \A p : CellsAt(S2, p) \subseteq CellsAt(S3, p)
        BY DEF CellsAt
      <4> QED
        BY <2>7, <3>3, <4>1
    <3> HIDE DEF S3
    <3>7. s.cell \in S3 /\ S2 \subseteq S3 /\ s.cell # v.cell /\ s.cell # u.cell /\ s.cell \notin S
      BY <2>8, <3>3 DEF S1, S2, S3
    <3>8. /\ Good(k, S3)
          /\ RecordsGood(k, S3)
          /\ Records(k) = Records(a) \cup {s.cell}
          /\ InUse(k) = InUse(v.a)
          /\ k.page_hash = v.a.page_hash \cup {v.page}
          /\ k.t = s.a.t
      <4>1. v.page \in InUse(s.a) /\ v.page \notin s.a.page_hash
        <5>1. v.page \notin InUse(u.a) /\ v.page \in InUse(v.a)
          BY <2>4, <2>10
        <5>2. v.page \notin InUse(a)
          BY <1>2, <5>1
        <5>3. s.a.page_hash = InUse(a)
          BY <1>2, <1>4, <2>4, <3>3
        <5> QED
          BY <3>3, <5>1, <5>2, <5>3
      <4>2. s.cell \notin Records(s.a)
        BY <1>3, <3>4, <3>7
      <4> QED
        BY <3>3, <3>4, <3>7, <4>1, <4>2, HashedGood
    <3> HIDE DEF k
    <3>9. /\ Good(h, S3)
          /\ RecordsGood(h, S3)
          /\ Records(h) = Records(k) \cup {v.cell}
          /\ InUse(h) = InUse(k)
          /\ h.page_hash = k.page_hash \cup {u.page}
          /\ h.t = k.t
      <4>1. u.page \in InUse(k) /\ u.page \notin k.page_hash
        <5>1. u.page \in InUse(u.a) /\ u.page \notin InUse(a)
          BY <1>2, <1>7
        <5>2. u.page # v.page
          BY <2>4, <2>10, <5>1
        <5>3. k.page_hash = InUse(a) \cup {v.page}
          <6>1. k.page_hash = v.a.page_hash \cup {v.page}
            BY <3>8
          <6>2. v.a.page_hash = u.a.page_hash
            BY <2>4
          <6> QED
            BY <1>2, <1>4, <6>1, <6>2
        <5>4. InUse(k) = InUse(u.a) \cup {v.page}
          <6>1. InUse(k) = InUse(v.a)
            BY <3>8
          <6> QED
            BY <2>4, <6>1
        <5> QED
          BY <5>1, <5>2, <5>3, <5>4
      <4>2. v.cell \notin Records(k) /\ v.cell \in S3
        BY <1>3, <2>8, <3>7, <3>8
      <4>3. k.t[v.cell[1]] = HashType /\ k.t[u.page] # HashType
        BY <2>4, <3>3, <3>5, <3>8
      <4>4. h = Hashed(k, u.page, v.cell)
        BY <3>1 DEF k
      <4> QED
        BY <3>8, <4>1, <4>2, <4>3, <4>4, HashedGood
    <3>10. h.page_hash = InUse(h)
      BY <1>2, <1>4, <2>4, <3>8, <3>9
    <3>11. Quiet(h, S3)
      BY <3>3, <3>6, <3>8, <3>9, <3>10 DEF Quiet
    <3>12. S \cup {r.cell} \cup {v.cell, s.cell} = S3
      BY <2>2 DEF S1, S2, S3
    <3>13. {v.cell, s.cell} \in SUBSET (Page \X Cell)
      BY <2>4, <3>3
    <3>14. \A q \in InUse(a) : q \in InUse(h) /\ h.t[q] = a.t[q]
      BY <1>2, <2>4, <3>3, <3>8, <3>9
    <3> WITNESS {v.cell, s.cell} \in SUBSET (Page \X Cell)
    <3> QED
      BY <1>2, <2>2, <2>8, <3>7, <3>8, <3>9, <3>11, <3>12, <3>14, ZenonT(60)
  <2> QED
    BY <2>9, <2>10
<1> QED
  BY <1>6, <1>7

\* pool_free_allocator up to its last test: the cell is nobody's any more, and its
\* page counts one less.
LEMMA PutGood ==
  ASSUME NEW a, NEW S, Good(a, S), NEW s \in S
  PROVE  LET b == Put(a, s)
         IN  /\ Good(b, S \ {s})
             /\ InUse(b) = InUse(a)
             /\ b.hash = a.hash
             /\ b.page_hash = a.page_hash
             /\ b.t = a.t
<1> DEFINE p == s[1]
           c == s[2]
           t == a.t[p]
           b == Put(a, s)
           T == S \ {s}
<1>1. a \in Allocator /\ p \in InUse(a) /\ c \in Cell /\ s = <<p, c>>
  BY DEF Good
<1>2. p \in Page /\ t \in Type /\ IsFiniteSet(CellsAt(S, p))
  BY <1>1, CellsAtFinite
<1>3. CellsAt(S, p) # {} /\ c \in CellsAt(S, p) /\ c \notin a.cells[p]
  BY <1>1 DEF Good, Chains, CellsAt
<1> HIDE DEF p, c, t
<1>4. /\ b.pool_list = a.pool_list
      /\ b.free = a.free
      /\ b.used = a.used
      /\ b.cycle = a.cycle
      /\ b.page_hash = a.page_hash
      /\ b.t = a.t
      /\ b.cells = [a.cells EXCEPT ![p] = @ \cup {c}]
      /\ b.allocated = [a.allocated EXCEPT ![p] = @ - 1]
      /\ b.hash = a.hash
      /\ b.page_table = IF a.cells[p] # {} THEN a.page_table
                         ELSE [a.page_table EXCEPT ![t] = @ \cup {p}]
      /\ b.full_table = IF a.cells[p] # {} THEN a.full_table
                         ELSE [a.full_table EXCEPT ![t] = @ \ {p}]
  BY <1>1, <1>2 DEF Put, pool_page_full_2_used, Allocator, p, c, t
<1>5. /\ a.allocated[p] = Cardinality(CellsAt(S, p))
      /\ Cardinality(CellsAt(S, p)) \in Nat
      /\ Cardinality(CellsAt(S, p) \ {c}) = a.allocated[p] - 1
      /\ a.allocated[p] - 1 \in Nat
  <2>1. a.allocated[p] = Cardinality(CellsAt(S, p))
    BY <1>1 DEF Good, Chains
  <2>2. Cardinality(CellsAt(S, p)) \in Nat
    BY <1>2, FS_CardinalityType
  <2>3. /\ Cardinality(CellsAt(S, p) \ {c}) = Cardinality(CellsAt(S, p)) - 1
        /\ IsFiniteSet(CellsAt(S, p) \ {c})
    BY <1>2, <1>3, FS_RemoveElement
  <2>4. Cardinality(CellsAt(S, p) \ {c}) \in Nat
    BY <2>3, FS_CardinalityType
  <2> QED
    BY <2>1, <2>2, <2>3, <2>4
<1>6. b \in Allocator
  <2> DEFINE ce == [a.cells EXCEPT ![p] = @ \cup {c}]
             al == [a.allocated EXCEPT ![p] = @ - 1]
             w == [a.page_table EXCEPT ![t] = @ \cup {p}]
             fu == [a.full_table EXCEPT ![t] = @ \ {p}]
  <2>1. /\ ce \in [Page -> SUBSET Cell]
        /\ w \in [Type -> SUBSET Page]
        /\ fu \in [Type -> SUBSET Page]
        /\ al \in [Page -> Nat]
    BY <1>1, <1>2, <1>5 DEF Allocator
  <2>2. b = IF a.cells[p] # {} THEN [a EXCEPT !.cells = ce, !.allocated = al]
            ELSE [[a EXCEPT !.full_table = fu, !.page_table = w]
                    EXCEPT !.cells = ce, !.allocated = al]
    BY <1>1, <1>2 DEF Put, pool_page_full_2_used, Allocator, p, c, t
  <2> HIDE DEF b, ce, al, w, fu
  <2> QED
    BY <1>1, <2>1, <2>2 DEF Allocator
<1> HIDE DEF b
<1>7. /\ b.cells[p] = a.cells[p] \cup {c}
      /\ b.allocated[p] = a.allocated[p] - 1
      /\ \A q \in Page : q # p => b.cells[q] = a.cells[q] /\ b.allocated[q] = a.allocated[q]
  BY <1>1, <1>2, <1>4 DEF Allocator
<1>8. /\ CellsAt(T, p) = CellsAt(S, p) \ {c}
      /\ \A q \in Page : q # p => CellsAt(T, q) = CellsAt(S, q)
  BY <1>1 DEF CellsAt
<1> HIDE DEF T
<1>9. InUse(a) \subseteq Page
  BY <1>1, InUseIff DEF Allocator
<1>10. a.cells[p] = {} => p \in a.full_table[t] /\ p \notin a.page_table[t]
  <2>1. PICK u \in Type : p \in a.page_table[u] \/ p \in a.full_table[u]
    BY <1>1, InUseIff
  <2> QED
    BY <1>2, <2>1 DEF Good, Lists, t
<1>11. InUse(b) = InUse(a)
  <2> SUFFICES ASSUME NEW q PROVE q \in InUse(b) <=> q \in InUse(a)
    OBVIOUS
  <2>1. CASE a.cells[p] # {}
    BY <1>4, <2>1 DEF InUse
  <2>2. CASE a.cells[p] = {}
    BY <1>1, <1>2, <1>4, <1>10, <2>2, InUseIff DEF Allocator
  <2> QED
    BY <2>1, <2>2
<1>12. Lists(b)
  <2>1. /\ \A q \in Page : PoolOf[q] \in b.pool_list <=> q \in b.free \cup InUse(b)
        /\ b.free \cap InUse(b) = {}
    BY <1>4, <1>11 DEF Good, Lists
  <2>2. ASSUME NEW u \in Type
        PROVE  /\ \A q \in b.page_table[u] : b.t[q] = u /\ b.cells[q] # {}
               /\ \A q \in b.full_table[u] : b.t[q] = u /\ b.cells[q] = {}
    <3>1. /\ a.page_table[u] \subseteq Page
          /\ a.full_table[u] \subseteq Page
          /\ \A q \in a.page_table[u] : a.t[q] = u /\ a.cells[q] # {}
          /\ \A q \in a.full_table[u] : a.t[q] = u /\ a.cells[q] = {}
      BY <1>1 DEF Good, Lists, Allocator
    <3>2. CASE a.cells[p] # {}
      <4>1. p \notin a.full_table[u]
        BY <3>1, <3>2
      <4> QED
        BY <1>4, <1>7, <3>1, <3>2, <4>1
    <3>3. CASE a.cells[p] = {}
      <4>1. /\ b.page_table[u] \subseteq a.page_table[u] \cup {p}
            /\ b.full_table[u] \subseteq a.full_table[u] \ {p}
            /\ p \in b.page_table[u] => u = t
        BY <1>1, <1>2, <1>4, <3>1, <3>3 DEF Allocator, t
      <4> QED
        BY <1>2, <1>4, <1>7, <3>1, <3>3, <4>1 DEF t
    <3> QED
      BY <3>2, <3>3
  <2> QED
    BY <2>1, <2>2 DEF Lists
<1>13. Chains(b, T)
  <2>1. CellsAt(T, p) \cup b.cells[p] = CellsOf[b.t[p]] /\ CellsAt(T, p) \cap b.cells[p] = {}
    BY <1>1, <1>3, <1>4, <1>7, <1>8 DEF Good, Chains
  <2>2. b.allocated[p] = Cardinality(CellsAt(T, p))
    BY <1>5, <1>7, <1>8
  <2>3. ASSUME NEW q \in InUse(a), q # p
        PROVE  /\ CellsAt(T, q) \cup b.cells[q] = CellsOf[b.t[q]]
               /\ CellsAt(T, q) \cap b.cells[q] = {}
               /\ b.allocated[q] = Cardinality(CellsAt(T, q))
    BY <1>4, <1>7, <1>8, <1>9, <2>3 DEF Good, Chains
  <2> QED
    BY <1>11, <2>1, <2>2, <2>3 DEF Chains
<1>14. Pools(b)
  BY <1>4, <1>11 DEF Good, Pools
<1>15. T \subseteq Page \X Cell /\ \A z \in T : z[1] \in InUse(b)
  BY <1>11 DEF Good, T
<1> QED
  BY <1>4, <1>6, <1>11, <1>12, <1>13, <1>14, <1>15 DEF Good, b, T

\* An empty page goes back to the free list of its pool.
LEMMA EmptyPageInGood ==
  ASSUME NEW a, NEW S, Good(a, S), NEW p \in InUse(a), CellsAt(S, p) = {}
  PROVE  LET b == pool_empty_page_in(a, p)
         IN  /\ Good(b, S)
             /\ InUse(b) = InUse(a) \ {p}
             /\ b.hash = a.hash
             /\ b.page_hash = a.page_hash
             /\ b.t = a.t
<1> DEFINE b == pool_empty_page_in(a, p)
           t == a.t[p]
           po == PoolOf[p]
           cy == IF a.used[po] - 1 <= 0 THEN 1 ELSE a.cycle[po]
           U == {q \in InUse(a) : PoolOf[q] = po}
<1>1. /\ a \in Allocator
      /\ p \in Page
      /\ t \in Type
      /\ p \notin a.free
      /\ po \in Pool
      /\ po \in a.pool_list
      /\ CellsOf[t] # {}
      /\ RECYCLE_CYCLE \in Nat \ {0}
  BY CellsAtFinite, PoolAssumption DEF Good, Lists, PoolAssumption
<1> HIDE DEF t, po
<1>2. a.cells[p] = CellsOf[t] /\ a.allocated[p] = 0
  BY FS_EmptySet DEF Good, Chains, t
<1>3. /\ p \in a.page_table[t]
      /\ \A u \in Type : p \notin a.full_table[u]
      /\ \A u \in Type : u # t => p \notin a.page_table[u]
  <2>1. PICK u \in Type : p \in a.page_table[u] \/ p \in a.full_table[u]
    BY InUseIff
  <2> QED
    BY <1>1, <1>2, <2>1 DEF Good, Lists, t
<1>4. /\ b.pool_list = a.pool_list
      /\ b.free = a.free \cup {p}
      /\ b.used = [a.used EXCEPT ![po] = @ - 1]
      /\ b.cycle = [a.cycle EXCEPT ![po] = cy]
      /\ b.page_table = [a.page_table EXCEPT ![t] = @ \ {p}]
      /\ b.full_table = a.full_table
      /\ b.page_hash = a.page_hash
      /\ b.t = a.t
      /\ b.cells = a.cells
      /\ b.allocated = a.allocated
      /\ b.hash = a.hash
  BY <1>1 DEF pool_empty_page_in, Allocator, t, po
<1>5. /\ a.used[po] = Cardinality(U)
      /\ Cardinality(U \ {p}) = Cardinality(U) - 1
      /\ a.used[po] - 1 \in Nat
  <2>1. IsFiniteSet(U) /\ a.used[po] = Cardinality(U)
    BY <1>1, UsedFinite DEF Good, Pools
  <2>2. p \in U
    BY <1>1 DEF po
  <2> HIDE DEF U
  <2>3. /\ Cardinality(U \ {p}) = Cardinality(U) - 1
        /\ IsFiniteSet(U \ {p})
        /\ Cardinality(U) \in Nat
    BY <2>1, <2>2, FS_RemoveElement, FS_CardinalityType
  <2>4. Cardinality(U \ {p}) \in Nat
    BY <2>3, FS_CardinalityType
  <2> QED
    BY <2>1, <2>3, <2>4
<1>6. cy \in Nat /\ cy <= RECYCLE_CYCLE
  <2>1. a.cycle[po] \in Nat /\ a.cycle[po] <= RECYCLE_CYCLE
    BY <1>1 DEF Good, Pools, Allocator
  <2> QED
    BY <1>1, <2>1
<1> HIDE DEF cy
<1>7. b \in Allocator
  <2> DEFINE f == a.free \cup {p}
             u == [a.used EXCEPT ![po] = @ - 1]
             c == [a.cycle EXCEPT ![po] = cy]
             w == [a.page_table EXCEPT ![t] = @ \ {p}]
  <2>1. /\ f \in SUBSET Page
        /\ u \in [Pool -> Nat]
        /\ c \in [Pool -> Nat]
        /\ w \in [Type -> SUBSET Page]
    BY <1>1, <1>5, <1>6 DEF Allocator
  <2>2. b = [a EXCEPT !.page_table = w, !.free = f, !.used = u, !.cycle = c]
    BY <1>1 DEF pool_empty_page_in, Allocator, t, po, cy
  <2> HIDE DEF b, f, u, c, w
  <2> QED
    BY <1>1, <2>1, <2>2 DEF Allocator
<1> HIDE DEF b
<1>8. InUse(b) = InUse(a) \ {p}
  <2> SUFFICES ASSUME NEW q PROVE q \in InUse(b) <=> q \in InUse(a) /\ q # p
    OBVIOUS
  <2>1. ASSUME NEW u \in Type
        PROVE  b.page_table[u] = a.page_table[u] \ {p} /\ b.full_table[u] = a.full_table[u]
    <3>1. CASE u = t
      BY <1>1, <1>4, <3>1 DEF Allocator
    <3>2. CASE u # t
      <4>1. b.page_table[u] = a.page_table[u] /\ b.full_table[u] = a.full_table[u]
        BY <1>1, <1>4, <3>2 DEF Allocator
      <4>2. p \notin a.page_table[u]
        BY <1>3, <3>2
      <4> QED
        BY <4>1, <4>2
    <3> QED
      BY <3>1, <3>2
  <2>2. ASSUME NEW u \in Type
        PROVE  p \notin b.page_table[u] /\ p \notin b.full_table[u]
    <3>1. p \notin a.full_table[u]
      BY <1>3
    <3> QED
      BY <2>1, <3>1
  <2>3. q # p => (q \in InUse(b) <=> q \in InUse(a))
    BY <2>1 DEF InUse
  <2>4. p \notin InUse(b)
    BY <2>2, InUseIff
  <2> QED
    BY <2>3, <2>4
<1>9. Lists(b)
  <2>1. /\ \A q \in Page : PoolOf[q] \in b.pool_list <=> q \in b.free \cup InUse(b)
        /\ b.free \cap InUse(b) = {}
    BY <1>1, <1>4, <1>8 DEF Good, Lists, po
  <2>2. \A u \in Type : b.page_table[u] \subseteq a.page_table[u]
    BY <1>1, <1>4 DEF Allocator
  <2> QED
    BY <1>4, <2>1, <2>2 DEF Good, Lists
<1>10. Chains(b, S)
  BY <1>4, <1>8 DEF Good, Chains
<1>11. Pools(b)
  <2> SUFFICES ASSUME NEW v \in a.pool_list
               PROVE  /\ b.used[v] = Cardinality({q \in InUse(b) : PoolOf[q] = v})
                      /\ b.cycle[v] <= RECYCLE_CYCLE
    BY <1>4 DEF Pools
  <2>1. CASE v = po
    <3>1. {q \in InUse(b) : PoolOf[q] = v} = U \ {p}
      BY <1>8, <2>1
    <3> HIDE DEF U
    <3>2. b.used[v] = a.used[po] - 1 /\ b.cycle[v] = cy
      BY <1>1, <1>4, <2>1 DEF Allocator
    <3> QED
      BY <1>5, <1>6, <3>1, <3>2
  <2>2. CASE v # po
    <3>1. {q \in InUse(b) : PoolOf[q] = v} = {q \in InUse(a) : PoolOf[q] = v}
      BY <1>8, <2>2 DEF po
    <3>2. b.used[v] = a.used[v] /\ b.cycle[v] = a.cycle[v]
      BY <1>1, <1>4, <2>2 DEF Allocator
    <3> QED
      BY <3>1, <3>2 DEF Good, Pools
  <2> QED
    BY <2>1, <2>2
<1>12. \A s \in S : s[1] \in InUse(b)
  BY <1>8 DEF Good, CellsAt
<1> QED
  BY <1>4, <1>7, <1>8, <1>9, <1>10, <1>11, <1>12 DEF Good, b

\* Unlinking the record of a page (list_remove in pool_page_hash_remove).
LEMMA UnlinkGood ==
  ASSUME NEW a, NEW S, Good(a, S), NEW p
  PROVE  LET b == [a EXCEPT !.page_hash = @ \ {p}]
         IN  /\ Good(b, S)
             /\ InUse(b) = InUse(a)
             /\ b.hash = a.hash
             /\ b.page_hash = a.page_hash \ {p}
             /\ b.t = a.t
<1> DEFINE b == [a EXCEPT !.page_hash = @ \ {p}]
           ph == a.page_hash \ {p}
<1>1. a \in Allocator /\ ph \in SUBSET Page
  BY DEF Good, Allocator
<1>2. /\ b.pool_list = a.pool_list
      /\ b.free = a.free
      /\ b.used = a.used
      /\ b.cycle = a.cycle
      /\ b.page_table = a.page_table
      /\ b.full_table = a.full_table
      /\ b.page_hash = ph
      /\ b.t = a.t
      /\ b.cells = a.cells
      /\ b.allocated = a.allocated
      /\ b.hash = a.hash
  BY <1>1 DEF Allocator
<1>3. b = [a EXCEPT !.page_hash = ph]
  OBVIOUS
<1>4. b \in Allocator
  <2> HIDE DEF b, ph
  <2> QED
    BY <1>1, <1>3 DEF Allocator
<1> HIDE DEF b
<1>5. InUse(b) = InUse(a)
  BY <1>2 DEF InUse
<1>6. Lists(b) /\ Chains(b, S) /\ Pools(b)
  BY <1>2, <1>5 DEF Good, Lists, Chains, Pools
<1> QED
  BY <1>2, <1>4, <1>5, <1>6 DEF Good, b

\* A whole release of a cell that is not a record, with the release of the record
\* of its page when the page becomes empty.
LEMMA FreeGood ==
  ASSUME NEW a, NEW S, Quiet(a, S), NEW s \in S, s \notin Records(a)
  PROVE  LET b == pool_free_allocator(a, s)
         IN  \E X \in SUBSET Records(a) :
               /\ Quiet(b, S \ ({s} \cup X))
               /\ Records(b) = Records(a) \ X
               /\ b.t = a.t
               /\ \A q \in InUse(a) : a.t[q] = HashType => q \in InUse(b)
<1> DEFINE b == pool_free_allocator(a, s)
           u == Put(a, s)
           T == S \ {s}
           p == s[1]
<1>1. /\ Good(a, S)
      /\ RecordsGood(a, S)
      /\ a.page_hash = InUse(a)
      /\ \A q \in InUse(a) : CellsAt(S, q) # {}
      /\ p \in InUse(a)
  BY DEF Quiet, Good
<1>2. /\ Good(u, T)
      /\ InUse(u) = InUse(a)
      /\ u.hash = a.hash
      /\ u.page_hash = a.page_hash
      /\ u.t = a.t
  BY <1>1, PutGood
<1>3. \A q \in InUse(a) : a.hash[q] \in T
  BY <1>1 DEF RecordsGood, Records
<1>4. RecordsGood(u, T) /\ Records(u) = Records(a)
  BY <1>1, <1>2, <1>3 DEF RecordsGood, Records
<1>5. \A q \in InUse(a) : q # p => CellsAt(T, q) # {}
  BY <1>1 DEF CellsAt
<1> HIDE DEF T, u
<1>6. CASE u.allocated[p] > 0
  <2>1. b = u
    <3>1. u \in Allocator /\ p \in Page
      BY <1>1, <1>2, CellsAtFinite DEF Good
    <3>2. u.allocated[p] \in Nat
      BY <3>1 DEF Allocator
    <3> QED
      BY <1>6, <3>2 DEF pool_free_allocator, u
  <2>2. CellsAt(T, p) # {}
    <3>1. u.allocated[p] = Cardinality(CellsAt(T, p))
      BY <1>1, <1>2 DEF Good, Chains
    <3> QED
      BY <1>6, <3>1, FS_EmptySet
  <2>3. Quiet(u, T)
    BY <1>1, <1>2, <1>4, <1>5, <2>2 DEF Quiet
  <2>4. S \ ({s} \cup {}) = T
    BY DEF T
  <2> HIDE DEF b
  <2>5. {} \in SUBSET Records(a)
    OBVIOUS
  <2> QED
    BY <1>2, <1>4, <2>1, <2>3, <2>4, <2>5 DEF b
<1>7. CASE ~(u.allocated[p] > 0)
  <2> DEFINE rec == a.hash[p]
             v == [u EXCEPT !.page_hash = @ \ {p}]
             w == Put(v, rec)
             R == T \ {rec}
             x == pool_empty_page_in(w, p)
  <2>1. u.allocated[p] = 0 /\ u.allocated[p] <= 0
    <3>1. u \in Allocator /\ p \in Page
      BY <1>1, <1>2, CellsAtFinite DEF Good
    <3>2. u.allocated[p] \in Nat
      BY <3>1 DEF Allocator
    <3> QED
      BY <1>7, <3>2
  <2>2. CellsAt(T, p) = {}
    <3>1. IsFiniteSet(CellsAt(T, p)) /\ u.allocated[p] = Cardinality(CellsAt(T, p))
      BY <1>1, <1>2, CellsAtFinite DEF Good, Chains
    <3> QED
      BY <2>1, <3>1, FS_EmptySet
  <2>3. b = x
    BY <1>2, <2>1 DEF pool_free_allocator, pool_page_hash_remove, u
  <2> HIDE DEF b
  <2>4. /\ rec \in T
        /\ rec \in Records(a)
        /\ a.t[rec[1]] = HashType
        /\ rec[1] \in InUse(a)
        /\ T \subseteq Page \X Cell
    BY <1>1, <1>2, <1>3 DEF RecordsGood, Records, Good
  <2>5. /\ Good(v, T)
        /\ InUse(v) = InUse(a)
        /\ v.hash = a.hash
        /\ v.page_hash = a.page_hash \ {p}
        /\ v.t = a.t
    <3>1. Good(u, T)
      BY <1>2
    <3>2. /\ Good(v, T)
          /\ InUse(v) = InUse(u)
          /\ v.hash = u.hash
          /\ v.page_hash = u.page_hash \ {p}
          /\ v.t = u.t
      BY <3>1, UnlinkGood
    <3> HIDE DEF v
    <3> QED
      BY <1>2, <3>2
  <2> HIDE DEF v, rec
  <2>6. /\ Good(w, R)
        /\ InUse(w) = InUse(a)
        /\ w.hash = a.hash
        /\ w.page_hash = a.page_hash \ {p}
        /\ w.t = a.t
    BY <2>4, <2>5, PutGood
  <2> HIDE DEF w
  <2>7. CellsAt(R, p) = {}
    BY <2>2 DEF CellsAt
  <2> HIDE DEF R
  <2>8. /\ Good(x, R)
        /\ InUse(x) = InUse(a) \ {p}
        /\ x.hash = a.hash
        /\ x.page_hash = a.page_hash \ {p}
        /\ x.t = a.t
    BY <1>1, <2>6, <2>7, EmptyPageInGood
  <2> HIDE DEF x
  <2>9. rec[1] # p
    BY <2>2, <2>4 DEF CellsAt
  <2>10. a.t[p] # HashType
    BY <1>1, <2>9 DEF RecordsGood, rec
  <2>11. \A q \in InUse(a) : q # p => a.hash[q] \in R
    BY <1>1, <1>3 DEF RecordsGood, R, rec
  <2>12. ASSUME NEW q \in InUse(x)
         PROVE  CellsAt(R, q) # {}
    <3>1. CASE q = rec[1]
      <4>1. a.hash[q] \in R /\ a.hash[q][1] = q
        BY <1>1, <2>4, <2>9, <2>11, <3>1 DEF RecordsGood
      <4> QED
        BY <2>4, <4>1 DEF CellsAt, R
    <3>2. CASE q # rec[1]
      <4>1. PICK c \in CellsAt(T, q) : TRUE
        BY <1>5, <2>8
      <4>2. <<q, c>> \in T /\ <<q, c>> # rec
        BY <3>2, <4>1 DEF CellsAt
      <4> QED
        BY <4>1, <4>2 DEF CellsAt, R
    <3> QED
      BY <3>1, <3>2
  <2>13. RecordsGood(x, R)
    BY <1>1, <2>8, <2>11 DEF RecordsGood
  <2>14. Quiet(x, R)
    BY <1>1, <2>8, <2>12, <2>13 DEF Quiet
  <2>15. Records(x) = Records(a) \ {rec}
    <3>1. Records(x) = {a.hash[q] : q \in a.page_hash \ {p}}
      BY <2>8 DEF Records
    <3>2. \A q \in a.page_hash : q # p => a.hash[q] # rec
      BY <1>1 DEF RecordsGood, rec
    <3> QED
      BY <3>1, <3>2 DEF Records, rec
  <2>16. S \ ({s} \cup {rec}) = R
    BY DEF R, T
  <2>17. {rec} \in SUBSET Records(a)
    BY <2>4
  <2>18. \A q \in InUse(a) : a.t[q] = HashType => q \in InUse(x)
    BY <2>8, <2>10
  <2> QED
    BY <2>3, <2>8, <2>14, <2>15, <2>16, <2>17, <2>18 DEF b
<1> QED
  BY <1>6, <1>7

\* pool_recycle gives back pools of which no page is in use.
LEMMA RecycleGood ==
  ASSUME NEW a, NEW S, Good(a, S)
  PROVE  LET d    == pool_add_cycle(a)
             gone == pool_need_recycle(d)
             b    == [d EXCEPT !.pool_list = @ \ gone,
                               !.free = {p \in d.free : PoolOf[p] \notin gone}]
         IN  /\ Good(b, S)
             /\ InUse(b) = InUse(a)
             /\ b.hash = a.hash
             /\ b.page_hash = a.page_hash
             /\ b.t = a.t
<1> DEFINE d    == pool_add_cycle(a)
           cy   == [po \in Pool |-> IF po \in a.pool_list /\ a.used[po] <= 0
                                    THEN a.cycle[po] + 1 ELSE a.cycle[po]]
           gone == pool_need_recycle(d)
           l    == a.pool_list \ gone
           f    == {p \in a.free : PoolOf[p] \notin gone}
           b    == [d EXCEPT !.pool_list = @ \ gone,
                             !.free = {p \in d.free : PoolOf[p] \notin gone}]
<1>1. a \in Allocator /\ cy \in [Pool -> Nat] /\ l \in SUBSET Pool /\ f \in SUBSET Page
  BY DEF Good, Allocator
<1>2. d = [a EXCEPT !.cycle = cy]
  BY DEF pool_add_cycle
<1>3. d \in Allocator
  <2> HIDE DEF d, cy
  <2> QED
    BY <1>1, <1>2 DEF Allocator
<1>4. /\ b.pool_list = l
      /\ b.free = f
      /\ b.used = a.used
      /\ b.cycle = cy
      /\ b.page_table = a.page_table
      /\ b.full_table = a.full_table
      /\ b.page_hash = a.page_hash
      /\ b.t = a.t
      /\ b.cells = a.cells
      /\ b.allocated = a.allocated
      /\ b.hash = a.hash
  <2> HIDE DEF cy, gone
  <2> QED
    BY <1>1, <1>2 DEF Allocator
<1>5. b \in Allocator
  <2>1. b = [d EXCEPT !.pool_list = l, !.free = f]
    <3>1. d.pool_list = a.pool_list /\ d.free = a.free
      BY <1>1, <1>2 DEF Allocator
    <3> QED
      BY <3>1
  <2> HIDE DEF b, d, l, f
  <2> QED
    BY <1>1, <1>3, <2>1 DEF Allocator
<1>6. \A po \in a.pool_list : po \in gone => a.used[po] <= 0
  <2> SUFFICES ASSUME NEW po \in a.pool_list, po \in gone, ~(a.used[po] <= 0)
               PROVE  FALSE
    OBVIOUS
  <2>1. d.cycle = cy /\ po \in Pool
    <3> HIDE DEF cy, d
    <3> QED
      BY <1>1, <1>2 DEF Allocator
  <2>2. cy[po] = a.cycle[po]
    BY <2>1
  <2>3. d.cycle[po] > RECYCLE_CYCLE
    BY DEF pool_need_recycle
  <2>4. a.cycle[po] <= RECYCLE_CYCLE /\ a.cycle[po] \in Nat /\ RECYCLE_CYCLE \in Nat
    BY <1>1, <2>1, PoolAssumption DEF Good, Pools, Allocator, PoolAssumption
  <2> HIDE DEF cy, d
  <2> QED
    BY <2>1, <2>2, <2>3, <2>4
<1>7. \A po \in l : cy[po] <= RECYCLE_CYCLE
  <2> SUFFICES ASSUME NEW po \in l PROVE cy[po] <= RECYCLE_CYCLE
    OBVIOUS
  <2>1. d.cycle = cy /\ d.pool_list = a.pool_list
    <3> HIDE DEF cy, d
    <3> QED
      BY <1>1, <1>2 DEF Allocator
  <2>2. ~(d.cycle[po] > RECYCLE_CYCLE)
    BY <2>1 DEF pool_need_recycle
  <2>3. cy[po] \in Nat /\ RECYCLE_CYCLE \in Nat
    BY <1>1, PoolAssumption DEF PoolAssumption
  <2> HIDE DEF cy, l, d
  <2> QED
    BY <2>1, <2>2, <2>3
<1> HIDE DEF b, cy, d, gone
<1>8. InUse(b) = InUse(a)
  BY <1>4 DEF InUse
<1>9. \A p \in InUse(a) : p \in Page /\ PoolOf[p] \in a.pool_list /\ PoolOf[p] \notin gone
  <2> SUFFICES ASSUME NEW p \in InUse(a), PoolOf[p] \in gone
               PROVE  FALSE
    BY CellsAtFinite DEF Good, Lists
  <2> DEFINE po == PoolOf[p]
             U == {q \in InUse(a) : PoolOf[q] = po}
  <2>1. po \in a.pool_list /\ po \in Pool
    BY <1>1, CellsAtFinite DEF Good, Lists, Allocator
  <2>2. IsFiniteSet(U) /\ a.used[po] = Cardinality(U) /\ p \in U
    BY <1>1, <2>1, UsedFinite DEF Good, Pools
  <2> HIDE DEF U
  <2>3. Cardinality(U) \in Nat /\ Cardinality(U) # 0
    BY <2>2, FS_CardinalityType, FS_EmptySet
  <2> QED
    BY <1>6, <2>1, <2>2, <2>3
<1>10. Lists(b)
  <2>1. /\ \A q \in Page : PoolOf[q] \in b.pool_list <=> q \in b.free \cup InUse(b)
        /\ b.free \cap InUse(b) = {}
    BY <1>4, <1>8, <1>9 DEF Good, Lists
  <2> QED
    BY <1>4, <2>1 DEF Good, Lists
<1>11. Chains(b, S)
  BY <1>4, <1>8 DEF Good, Chains
<1>12. Pools(b)
  BY <1>4, <1>7, <1>8 DEF Good, Pools
<1> QED
  BY <1>4, <1>5, <1>8, <1>10, <1>11, <1>12 DEF Good, b, d, gone

-----------------------------------------------------------------------------
(* The invariant. *)

\* Both initial allocators, the main thread's and a child's, are in order.
LEMMA InitInv == Init => Inv
<1> SUFFICES ASSUME Init PROVE Inv
  OBVIOUS
<1>1. NoAllocator \in Allocator
  BY DEF NoAllocator, Allocator
<1>2. /\ InUse(NoAllocator) = {}
      /\ NoAllocator.page_hash = {}
      /\ NoAllocator.pool_list = {}
      /\ NoAllocator.free = {}
  BY DEF NoAllocator, InUse
<1>3. Good(NoAllocator, {})
  <2>1. Lists(NoAllocator)
    BY <1>2 DEF Lists, NoAllocator
  <2> QED
    BY <1>1, <1>2, <2>1 DEF Good, Chains, Pools
<1>4. Good(alloc, {}) /\ InUse(alloc) = {} /\ alloc.page_hash = {}
  <2>1. CASE alloc = NoAllocator
    BY <1>2, <1>3, <2>1
  <2>2. ASSUME NEW po \in Pool, alloc = pool_new(NoAllocator, po)
        PROVE  Good(alloc, {}) /\ InUse(alloc) = {} /\ alloc.page_hash = {}
    <3>1. po \in Pool \ NoAllocator.pool_list
      BY <1>2
    <3> QED
      BY <1>2, <1>3, <2>2, <3>1, NewPoolGood
  <2> QED
    BY <2>1, <2>2 DEF Init
<1>5. owned = {} /\ aborted = FALSE
  BY DEF Init
<1>6. Records(alloc) = {} /\ Held = {}
  BY <1>4, <1>5 DEF Records, Held
<1>7. Quiet(alloc, Held)
  BY <1>4, <1>6 DEF Quiet, RecordsGood
<1> QED
  BY <1>4, <1>5, <1>6, <1>7 DEF Inv, TypeOK, Good

\* Every step keeps the invariant.
LEMMA StepInv == Inv /\ [Next]_vars => Inv'
<1> SUFFICES ASSUME Inv, [Next]_vars PROVE Inv'
  OBVIOUS
<1>1. /\ TypeOK
      /\ ~aborted => Quiet(alloc, Held) /\ owned \cap Records(alloc) = {}
  BY DEF Inv
<1>2. Big \cap (Page \X Cell) = {}
  BY PoolAssumption DEF PoolAssumption
<1>3. ASSUME NEW t \in Type, Alloc(t)
      PROVE  Inv'
  <2>1. ~aborted /\ aborted' = aborted /\ Quiet(alloc, Held) /\ owned \cap Records(alloc) = {}
    BY <1>1, <1>3 DEF Alloc
  <2>2. PICK r \in pool_alloc_allocator(alloc, t) :
          alloc' = r.a /\ owned' = owned \cup {r.cell}
    BY <1>3 DEF Alloc
  <2>3. PICK X \in SUBSET (Page \X Cell) :
          /\ Quiet(r.a, Held \cup {r.cell} \cup X)
          /\ Records(r.a) = Records(alloc) \cup X
          /\ r.cell \in (Page \X Cell) \ Held
          /\ r.cell \notin X
          /\ X \cap Held = {}
          /\ \A q \in InUse(alloc) : q \in InUse(r.a) /\ r.a.t[q] = alloc.t[q]
    <3>1. Quiet(alloc, Held)
      BY <2>1
    <3>2. r \in pool_alloc_allocator(alloc, t)
      BY <2>2
    <3> QED
      BY <3>1, <3>2, AllocGood
  <2>4. Held' = Held \cup {r.cell} \cup X
    BY <1>2, <2>2, <2>3 DEF Held
  <2>5. Quiet(alloc', Held')
    BY <2>2, <2>3, <2>4
  <2>6. owned' \cap Records(alloc') = {}
    <3>1. owned \cap X = {}
      BY <1>2, <2>3 DEF Held
    <3> QED
      BY <2>1, <2>2, <2>3, <3>1 DEF Held
  <2>7. TypeOK'
    BY <1>1, <2>1, <2>2, <2>3, <2>5 DEF TypeOK, Quiet, Good, Block
  <2> QED
    BY <2>5, <2>6, <2>7 DEF Inv
<1>4. ASSUME NEW t \in Type, AllocUnhashed(t)
      PROVE  Inv'
  <2>1. ~aborted /\ aborted' = TRUE /\ owned' = owned /\ Good(alloc, Held)
    BY <1>1, <1>4 DEF AllocUnhashed, Quiet
  <2>2. PICK r \in Take(alloc, t) : alloc' = r.a
    BY <1>4 DEF AllocUnhashed, Unhashable
  <2>3. Good(r.a, Held \cup {r.cell})
    BY <2>1, <2>2, TakeGood
  <2>4. TypeOK'
    BY <1>1, <2>1, <2>2, <2>3 DEF TypeOK, Good
  <2> QED
    BY <2>1, <2>4 DEF Inv
<1>5. ASSUME AllocBig
      PROVE  Inv'
  <2>1. PICK b \in Big : owned' = owned \cup {b}
    BY <1>5 DEF AllocBig
  <2>2. alloc' = alloc /\ aborted' = aborted
    BY <1>5 DEF AllocBig
  <2>3. Held' = Held
    BY <2>1, <2>2 DEF Held, Records
  <2>4. Quiet(alloc, Held) => b \notin Records(alloc)
    BY <1>2 DEF Quiet, Good, RecordsGood, Records
  <2> QED
    BY <1>1, <2>1, <2>2, <2>3, <2>4 DEF Inv, TypeOK, Block
<1>6. ASSUME NEW b \in Block, Free(b)
      PROVE  Inv'
  <2>1. ~aborted /\ b \in owned /\ owned' = owned \ {b}
    BY <1>6 DEF Free
  <2>2. Quiet(alloc, Held) /\ owned \cap Records(alloc) = {}
    BY <1>1, <2>1
  <2>3. CASE b \in Big
    <3>1. alloc' = alloc /\ aborted' = FALSE
      BY <1>6, <2>3 DEF Free, pool_is_pool_cell
    <3>2. Held' = Held
      BY <2>1, <2>3, <3>1 DEF Held, Records
    <3>3. Records(alloc') = Records(alloc)
      BY <3>1
    <3> QED
      BY <1>1, <2>1, <2>2, <3>1, <3>2, <3>3 DEF Inv, TypeOK
  <2>4. CASE b \notin Big
    <3>1. b \in Held /\ b \notin Records(alloc)
      BY <2>1, <2>2, <2>4 DEF Held
    <3>2. pool_is_pool_cell(alloc, b)
      BY <2>2, <2>4, <3>1 DEF Quiet, Good, pool_is_pool_cell
    <3>3. alloc' = pool_free_allocator(alloc, b) /\ aborted' = aborted
      BY <1>6, <3>2 DEF Free
    <3>4. PICK X \in SUBSET Records(alloc) :
            /\ Quiet(alloc', Held \ ({b} \cup X))
            /\ Records(alloc') = Records(alloc) \ X
      BY <2>2, <3>1, <3>3, FreeGood
    <3>5. Held' = Held \ ({b} \cup X)
      BY <2>1, <2>2, <3>1, <3>4 DEF Held
    <3>6. owned' \cap Records(alloc') = {}
      BY <2>1, <2>2, <3>4
    <3>7. TypeOK'
      BY <1>1, <2>1, <3>3, <3>4 DEF TypeOK, Quiet, Good
    <3> QED
      BY <3>4, <3>5, <3>6, <3>7 DEF Inv
  <2> QED
    BY <2>3, <2>4
<1>7. ASSUME pool_recycle
      PROVE  Inv'
  <2>1. ~aborted /\ owned' = owned /\ aborted' = aborted
    BY <1>7 DEF pool_recycle
  <2>2. Quiet(alloc, Held) /\ owned \cap Records(alloc) = {}
    BY <1>1, <2>1
  <2>3. /\ Good(alloc', Held)
        /\ InUse(alloc') = InUse(alloc)
        /\ alloc'.hash = alloc.hash
        /\ alloc'.page_hash = alloc.page_hash
        /\ alloc'.t = alloc.t
    <3>1. Good(alloc, Held)
      BY <2>2 DEF Quiet
    <3> DEFINE d == pool_add_cycle(alloc)
               gone == pool_need_recycle(d)
    <3>2. d.free = alloc.free
      BY <3>1 DEF pool_add_cycle, Good, Allocator
    <3>3. alloc' = [d EXCEPT !.pool_list = @ \ gone,
                             !.free = {p \in d.free : PoolOf[p] \notin gone}]
      BY <1>7, <3>2 DEF pool_recycle
    <3> QED
      BY <3>1, <3>3, RecycleGood
  <2>4. Records(alloc') = Records(alloc)
    BY <2>3 DEF Records
  <2>5. Held' = Held
    BY <2>1, <2>4 DEF Held
  <2>6. RecordsGood(alloc', Held)
    BY <2>2, <2>3 DEF Quiet, RecordsGood
  <2>7. Quiet(alloc', Held')
    BY <2>2, <2>3, <2>5, <2>6 DEF Quiet
  <2>8. TypeOK'
    BY <1>1, <2>1, <2>3 DEF TypeOK, Good
  <2> QED
    BY <2>1, <2>2, <2>4, <2>7, <2>8 DEF Inv
<1>8. CASE UNCHANGED vars
  <2>1. Held' = Held /\ Records(alloc)' = Records(alloc)
    BY <1>8 DEF vars, Held, Records
  <2> QED
    BY <1>1, <1>8, <2>1 DEF vars, Inv, TypeOK
<1> QED
  BY <1>3, <1>4, <1>5, <1>6, <1>7, <1>8 DEF Next

\* The invariant holds of every reachable state, whatever the sizes: pages, cells
\* and records of the allocator stay in order through any sequence of calls.
THEOREM Invariant == Spec => []Inv
<1> QED
  BY InitInv, StepInv, PTL DEF Spec

\* The counters of pages and cells never go below zero, and the rest is typed.
THEOREM TypeCorrect == Spec => []TypeOK
<1>1. Inv => TypeOK
  BY DEF Inv
<1> QED
  BY <1>1, Invariant, PTL

\* Every page of a pool the allocator has is on the one list its state says.
THEOREM PagesOnOneList == Spec => []OneListPerPage
<1>1. Inv => OneListPerPage
  <2> SUFFICES ASSUME Inv, ~aborted PROVE OneListPerPage
    BY DEF OneListPerPage
  <2>1. Lists(alloc) /\ alloc \in Allocator
    BY DEF Inv, Quiet, Good
  <2>2. alloc.free \subseteq Page /\ InUse(alloc) \subseteq Page
    BY <2>1, InUseIff DEF Allocator
  <2> QED
    BY <2>1, <2>2 DEF Lists, OneListPerPage
<1> QED
  BY <1>1, Invariant, PTL

\* What Out says of a page is what the invariant says of the cells held there.
LEMMA OutIsHeld ==
  ASSUME Inv, NEW p \in Page
  PROVE  Out(p) = CellsAt(Held, p)
<1>1. \A c \in Cell : <<p, c>> \notin Big
  BY PoolAssumption DEF PoolAssumption
<1> QED
  BY <1>1 DEF Out, CellsAt, Held

\* No cell is handed out while the program or page_hash holds it, and none is lost.
THEOREM CellsServedOnce == Spec => []NoCellServedTwice
<1>1. Inv => NoCellServedTwice
  <2> SUFFICES ASSUME Inv, ~aborted PROVE NoCellServedTwice
    BY DEF NoCellServedTwice
  <2>1. Quiet(alloc, Held) /\ owned \cap Records(alloc) = {} /\ alloc \in Allocator
    BY DEF Inv, Quiet, Good
  <2>2. ASSUME NEW p \in InUse(alloc)
        PROVE  /\ Out(p) \cup alloc.cells[p] = CellsOf[alloc.t[p]]
               /\ Out(p) \cap alloc.cells[p] = {}
    <3>1. p \in Page
      BY <2>1, CellsAtFinite DEF Quiet
    <3> QED
      BY <2>1, <3>1, OutIsHeld DEF Quiet, Good, Chains
  <2> QED
    BY <2>1, <2>2 DEF NoCellServedTwice, Quiet, RecordsGood
<1> QED
  BY <1>1, Invariant, PTL

\* allocated and used count exactly what is out.
THEOREM CountersCount == Spec => []CountsAgree
<1>1. Inv => CountsAgree
  <2> SUFFICES ASSUME Inv, ~aborted PROVE CountsAgree
    BY DEF CountsAgree
  <2>1. Quiet(alloc, Held)
    BY DEF Inv
  <2>2. ASSUME NEW p \in InUse(alloc)
        PROVE  Out(p) # {} /\ alloc.allocated[p] = Cardinality(Out(p))
    <3>1. p \in Page
      BY <2>1, CellsAtFinite DEF Quiet
    <3> QED
      BY <2>1, <3>1, OutIsHeld DEF Quiet, Good, Chains
  <2> QED
    BY <2>1, <2>2 DEF CountsAgree, Quiet, Good, Pools
<1> QED
  BY <1>1, Invariant, PTL

\* pool_free recognises every cell that can be passed to it.
THEOREM CellsKnown == Spec => []CellsAreKnown
<1>1. Inv => CellsAreKnown
  <2> SUFFICES ASSUME Inv, ~aborted, NEW b \in (owned \ Big) \cup Records(alloc)
               PROVE  b[1] \in alloc.page_hash /\ PoolOf[b[1]] \in alloc.pool_list
    BY DEF CellsAreKnown
  <2>1. Quiet(alloc, Held) /\ b \in Held
    BY DEF Inv, Held
  <2>2. b[1] \in InUse(alloc) /\ b[1] \in Page
    BY <2>1, CellsAtFinite DEF Quiet, Good
  <2> QED
    BY <2>1, <2>2 DEF Quiet, Good, Lists
<1> QED
  BY <1>1, Invariant, PTL

\* Pages of records are never given back, so releases nest one level deep.
THEOREM RecordPagesStay == Spec => HashPagesStay
<1> DEFINE Stay == \A p \in alloc.page_hash :
                     alloc.t[p] = HashType => /\ p \in alloc'.page_hash
                                              /\ alloc'.t[p] = HashType
                                              /\ PoolOf[p] \in alloc'.pool_list
<1>1. ASSUME Inv, Inv', Next
      PROVE  Stay
  <2> SUFFICES ASSUME NEW p \in alloc.page_hash, alloc.t[p] = HashType
               PROVE  /\ p \in alloc'.page_hash
                      /\ alloc'.t[p] = HashType
                      /\ PoolOf[p] \in alloc'.pool_list
    OBVIOUS
  <2>1. ~aborted
    BY <1>1 DEF Next, Alloc, AllocUnhashed, AllocBig, Free, pool_recycle
  <2>2. Quiet(alloc, Held) /\ owned \cap Records(alloc) = {} /\ p \in InUse(alloc)
    BY <1>1, <2>1 DEF Inv, Quiet
  <2>3. Good(alloc, Held) /\ p \in Page /\ PoolOf[p] \in alloc.pool_list
    BY <2>2, CellsAtFinite DEF Quiet, Good, Lists
  <2>4. ASSUME Quiet(alloc', Held'), p \in InUse(alloc')
        PROVE  p \in alloc'.page_hash /\ PoolOf[p] \in alloc'.pool_list
    BY <2>3, <2>4 DEF Quiet, Good, Lists
  <2>5. ASSUME NEW t \in Type, Alloc(t)
        PROVE  p \in InUse(alloc') /\ alloc'.t[p] = HashType /\ Quiet(alloc', Held')
    <3>1. PICK r \in pool_alloc_allocator(alloc, t) : alloc' = r.a
      BY <2>5 DEF Alloc
    <3>2. PICK X \in SUBSET (Page \X Cell) :
            /\ Quiet(r.a, Held \cup {r.cell} \cup X)
            /\ Records(r.a) = Records(alloc) \cup X
            /\ r.cell \in (Page \X Cell) \ Held
            /\ r.cell \notin X
            /\ X \cap Held = {}
            /\ \A q \in InUse(alloc) : q \in InUse(r.a) /\ r.a.t[q] = alloc.t[q]
      BY <2>2, AllocGood
    <3>3. ~aborted'
      BY <2>1, <2>5 DEF Alloc
    <3> QED
      BY <1>1, <2>2, <3>1, <3>2, <3>3 DEF Inv
  <2>6. ASSUME NEW t \in Type, AllocUnhashed(t)
        PROVE  /\ p \in alloc'.page_hash
               /\ alloc'.t[p] = HashType
               /\ PoolOf[p] \in alloc'.pool_list
    <3>1. PICK r \in Take(alloc, t) : alloc' = r.a
      BY <2>6 DEF AllocUnhashed, Unhashable
    <3>2. /\ Good(r.a, Held \cup {r.cell})
          /\ InUse(r.a) = InUse(alloc) \cup {r.page}
          /\ r.a.hash = alloc.hash
          /\ r.a.page_hash = alloc.page_hash
          /\ r.a.t[r.page] = t
          /\ \A q \in InUse(alloc) : r.a.t[q] = alloc.t[q]
      BY <2>3, TakeGood
    <3> QED
      BY <2>2, <2>3, <3>1, <3>2 DEF Good, Lists
  <2>7. CASE AllocBig
    BY <2>3, <2>7 DEF AllocBig
  <2>8. ASSUME NEW b \in Block, Free(b)
        PROVE  /\ p \in alloc'.page_hash
               /\ alloc'.t[p] = HashType
               /\ PoolOf[p] \in alloc'.pool_list
    <3>1. CASE pool_is_pool_cell(alloc, b)
      <4>1. alloc' = pool_free_allocator(alloc, b) /\ ~aborted' /\ b \in owned /\ b \notin Big
        BY <2>1, <2>8, <3>1 DEF Free, pool_is_pool_cell
      <4>2. b \in Held /\ b \notin Records(alloc)
        BY <2>2, <4>1 DEF Held
      <4>3. PICK X \in SUBSET Records(alloc) :
              /\ Quiet(alloc', Held \ ({b} \cup X))
              /\ Records(alloc') = Records(alloc) \ X
              /\ alloc'.t = alloc.t
              /\ \A q \in InUse(alloc) : alloc.t[q] = HashType => q \in InUse(alloc')
        BY <2>2, <4>1, <4>2, FreeGood
      <4>4. Quiet(alloc', Held')
        BY <1>1, <4>1 DEF Inv
      <4> QED
        BY <2>2, <2>4, <4>3, <4>4
    <3>2. CASE ~pool_is_pool_cell(alloc, b)
      BY <2>3, <2>8, <3>2 DEF Free
    <3> QED
      BY <3>1, <3>2
  <2>9. ASSUME pool_recycle
        PROVE  p \in InUse(alloc') /\ alloc'.t[p] = HashType /\ Quiet(alloc', Held')
    <3> DEFINE d == pool_add_cycle(alloc)
               gone == pool_need_recycle(d)
    <3>1. d.free = alloc.free
      BY <2>3 DEF pool_add_cycle, Good, Allocator
    <3>2. alloc' = [d EXCEPT !.pool_list = @ \ gone,
                             !.free = {q \in d.free : PoolOf[q] \notin gone}]
      BY <2>9, <3>1 DEF pool_recycle
    <3>3. /\ Good(alloc', Held)
          /\ InUse(alloc') = InUse(alloc)
          /\ alloc'.hash = alloc.hash
          /\ alloc'.page_hash = alloc.page_hash
          /\ alloc'.t = alloc.t
      BY <2>3, <3>2, RecycleGood
    <3>4. ~aborted'
      BY <2>1, <2>9 DEF pool_recycle
    <3> QED
      BY <1>1, <2>2, <3>3, <3>4 DEF Inv
  <2> QED
    BY <1>1, <2>4, <2>5, <2>6, <2>7, <2>8, <2>9 DEF Next
<1>2. Inv /\ Inv' /\ [Next]_vars => [Stay]_vars
  BY <1>1
<1> QED
  BY <1>2, Invariant, PTL DEF Spec, HashPagesStay
=============================================================================
