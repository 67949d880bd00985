-------------------------------- MODULE Pool --------------------------------
(***************************************************************************)
(* The memory allocator of src/pool.c, seen by one thread: allocator =>    *)
(* pool => page => cell.  A page serves cells of one type at a time and is *)
(* on exactly one of three lists: the free list of its pool, page_table of *)
(* its cell type, or full_table of its cell type.  A page in use has a     *)
(* record (page_hash_t) in page_hash, which is how pool_free tells a cell  *)
(* from a block of the C library, and that record is itself a cell of the  *)
(* allocator: allocating a cell may allocate up to two more, and freeing   *)
(* one may free another.                                                   *)
(*                                                                         *)
(* The lists are sets: which page of a list, and which cell of the chain   *)
(* of a page, is served next is left open, so what holds here holds for    *)
(* the orders that list_append and the chain produce.                      *)
(***************************************************************************)
EXTENDS Integers, FiniteSets

CONSTANTS
  Pool,         \* the pools the system has memory for
  SmallPool,    \* those of CHILD_INIT_REQUEST_SIZE, the others are of POOL_REQUEST_SIZE
  Page,         \* the pages of all pools
  PoolOf,       \* page->pool
  Type,         \* cell types
  HashType,     \* the cell type of a page_hash_t
  Cell,         \* names of the cells within a page
  CellsOf,      \* the cells a page of each type is chained into
  Big,          \* blocks of more than MAX_CELL_SIZE bytes, served by the C library
  RECYCLE_CYCLE,
  NULL

PagesOf(po) == {p \in Page : PoolOf[p] = po}

ASSUME PoolAssumption ==
  /\ IsFiniteSet(Page)
  /\ SmallPool \subseteq Pool
  /\ PoolOf \in [Page -> Pool]
  /\ \A po \in Pool : PagesOf(po) # {}
  /\ HashType \in Type
  /\ CellsOf \in [Type -> SUBSET Cell]
  /\ \A t \in Type : IsFiniteSet(CellsOf[t]) /\ CellsOf[t] # {}
  /\ Cardinality(CellsOf[HashType]) >= 2
  /\ Big \cap (Page \X Cell) = {}
  /\ NULL \notin Type \cup (Page \X Cell)
  /\ RECYCLE_CYCLE \in Nat \ {0}

Block == (Page \X Cell) \cup Big

VARIABLES
  alloc,      \* the allocator_t of the thread and the headers of its pools and pages
  owned,      \* the blocks the program holds
  aborted     \* free() of the C library was given a cell of a pool

vars == <<alloc, owned, aborted>>

-----------------------------------------------------------------------------
(* Pools and pages. *)

NoAllocator ==
  [pool_list  |-> {},
   free       |-> {},                          \* pool->free of all pools
   used       |-> [po \in Pool |-> 0],
   cycle      |-> [po \in Pool |-> 0],
   page_table |-> [t \in Type |-> {}],
   full_table |-> [t \in Type |-> {}],
   page_hash  |-> {},                          \* the pages that have a record
   t          |-> [p \in Page |-> NULL],
   cells      |-> [p \in Page |-> {}],         \* the chain that starts at page->free
   allocated  |-> [p \in Page |-> 0],
   hash       |-> [p \in Page |-> NULL]]       \* page->hash, the cell of the record

pool_new(a, po) ==
  [a EXCEPT !.pool_list = @ \cup {po},
            !.free      = @ \cup PagesOf(po),
            !.used[po]  = 0,
            !.cycle[po] = 0]

\* The pools calloc can return: a small one if it is the first of the
\* allocator, none when memory is exhausted.
PoolsToGet(a) == {po \in Pool \ a.pool_list : po \in SmallPool <=> a.pool_list = {}}

pool_page_init(a, p, t) ==
  [a EXCEPT !.t[p]         = t,
            !.allocated[p] = 0,
            !.cells[p]     = CellsOf[t]]

\* Mutant: the page is not counted in its pool.
empty_page_out_uncounted(a, p, t) ==
  [a EXCEPT !.free = @ \ {p}, !.page_table[t] = @ \cup {p}]

pool_empty_page_out(a, p, t) ==
  [a EXCEPT !.free             = @ \ {p},
            !.used[PoolOf[p]]  = @ + 1,
            !.page_table[t]    = @ \cup {p}]

\* Mutant: pool->used is left as it is.
empty_page_in_counted(a, p) ==
  [a EXCEPT !.page_table[a.t[p]] = @ \ {p}, !.free = @ \cup {p}]

pool_empty_page_in(a, p) ==
  [a EXCEPT !.page_table[a.t[p]] = @ \ {p},
            !.free                 = @ \cup {p},
            !.used[PoolOf[p]]      = @ - 1,
            !.cycle[PoolOf[p]]     = IF a.used[PoolOf[p]] - 1 <= 0 THEN 1 ELSE @]

FreshPages(a, t) ==
  {[a |-> pool_page_init(pool_empty_page_out(a, p, t), p, t), page |-> p, need_hash |-> TRUE] :
      p \in a.free}

\* Every way to find a page with a cell of type t; none if calloc returns NULL.
pool_get_page(a, t) ==
  IF a.page_table[t] # {}
    THEN {[a |-> a, page |-> p, need_hash |-> FALSE] : p \in a.page_table[t]}
  ELSE IF a.free # {}
    THEN FreshPages(a, t)
    ELSE UNION {FreshPages(pool_new(a, po), t) : po \in PoolsToGet(a)}

\* Mutant: page->free is not moved on, unless the chain ends with c.
get_cell_kept(a, p, c) ==
  LET t == a.t[p]
      taken == [a EXCEPT !.allocated[p] = @ + 1]
  IN  IF a.cells[p] # {c} THEN taken
      ELSE [taken EXCEPT !.cells[p]      = {},
                         !.page_table[t] = @ \ {p},
                         !.full_table[t] = @ \cup {p}]

\* Serving cell c of page p: the last cell of the chain moves the page to full_table.
pool_get_cell(a, p, c) ==
  LET t == a.t[p]
      taken == [a EXCEPT !.cells[p]     = @ \ {c},
                         !.allocated[p] = @ + 1]
  IN  IF a.cells[p] # {c} THEN taken
      ELSE [taken EXCEPT !.page_table[t] = @ \ {p},
                         !.full_table[t] = @ \cup {p}]

TakenFrom(g) ==
  {[a |-> pool_get_cell(g.a, g.page, c), page |-> g.page, cell |-> <<g.page, c>>,
    need_hash |-> g.need_hash] : c \in g.a.cells[g.page]}

\* Every way to take a cell of type t, the page's record left to add.
Take(a, t) == UNION {TakenFrom(g) : g \in pool_get_page(a, t)}

-----------------------------------------------------------------------------
(* Allocation.  pool_page_hash_add calls pool_alloc_allocator for the      *)
(* record.  If that takes a fresh page, the record of the fresh page is    *)
(* the next cell of the page itself: the recursion ends there, because a   *)
(* page of HashType has at least two cells.                                *)

Hashed(a, p, record) ==
  [a EXCEPT !.page_hash = @ \cup {p}, !.hash[p] = record]

pool_page_hash_add(a, p) ==
  UNION {IF r.need_hash
           THEN {Hashed(Hashed(s.a, r.page, s.cell), p, r.cell) : s \in Take(r.a, HashType)}
           ELSE {Hashed(r.a, p, r.cell)} : r \in Take(a, HashType)}

pool_alloc_allocator(a, t) ==
  UNION {IF r.need_hash
           THEN {[a |-> h, cell |-> r.cell] : h \in pool_page_hash_add(r.a, r.page)}
           ELSE {[a |-> r.a, cell |-> r.cell]} : r \in Take(a, t)}

\* The cells taken from a fresh page whose record could not be allocated.
Unhashable(a, t) == {r \in Take(a, t) : r.need_hash /\ Take(r.a, HashType) = {}}

-----------------------------------------------------------------------------
(* Release. *)

pool_is_pool_cell(a, b) == b \notin Big /\ b[1] \in a.page_hash

\* Mutant: the page stays in full_table.
full_2_used_forgotten(a, p) == a

pool_page_full_2_used(a, p) ==
  [a EXCEPT !.full_table[a.t[p]] = @ \ {p},
            !.page_table[a.t[p]] = @ \cup {p}]

\* pool_free_allocator up to its last test.
Put(a, b) ==
  LET p == b[1]
      u == IF a.cells[p] = {} THEN pool_page_full_2_used(a, p) ELSE a
  IN  [u EXCEPT !.cells[p]     = @ \cup {b[2]},
                !.allocated[p] = @ - 1]

\* The record goes back to its own page, which HashPagesStay keeps in use, so
\* that the nested pool_free_allocator ends with Put.
pool_page_hash_remove(a, p) == Put([a EXCEPT !.page_hash = @ \ {p}], a.hash[p])

\* Mutant: the page goes back with its last cell but one.
free_allocator_early(a, b) ==
  LET u == Put(a, b)
  IN  IF u.allocated[b[1]] <= 1
        THEN pool_empty_page_in(pool_page_hash_remove(u, b[1]), b[1])
        ELSE u

pool_free_allocator(a, b) ==
  LET u == Put(a, b)
  IN  IF u.allocated[b[1]] <= 0
        THEN pool_empty_page_in(pool_page_hash_remove(u, b[1]), b[1])
        ELSE u

-----------------------------------------------------------------------------
(* Actions. *)

\* pool_init for the main thread, pool_make_new_allocator for a child.
Init ==
  /\ \/ \E po \in Pool \ SmallPool : alloc = pool_new(NoAllocator, po)
     \/ alloc = NoAllocator
  /\ owned = {}
  /\ aborted = FALSE

\* An allocation that finds no page returns NULL and leaves no trace.
Alloc(t) ==
  /\ ~aborted
  /\ \E r \in pool_alloc_allocator(alloc, t) :
       /\ alloc' = r.a
       /\ owned' = owned \cup {r.cell}
  /\ UNCHANGED aborted

\* "failed to hash page table.": the cell is given back while its page has no
\* record, so it is taken for a block of the C library.
AllocUnhashed(t) ==
  /\ ~aborted
  /\ \E r \in Unhashable(alloc, t) : alloc' = r.a
  /\ aborted' = TRUE
  /\ UNCHANGED owned

AllocBig ==
  /\ ~aborted
  /\ \E b \in Big \ owned : owned' = owned \cup {b}
  /\ UNCHANGED <<alloc, aborted>>

Free(b) ==
  /\ ~aborted
  /\ b \in owned
  /\ owned' = owned \ {b}
  /\ IF pool_is_pool_cell(alloc, b)
       THEN alloc' = pool_free_allocator(alloc, b) /\ UNCHANGED aborted
       ELSE aborted' = (b \notin Big) /\ UNCHANGED alloc

\* Mutant: a pool in use ages too.
add_cycle_used(a) ==
  [a EXCEPT !.cycle = [po \in Pool |->
     IF po \in a.pool_list THEN a.cycle[po] + 1 ELSE a.cycle[po]]]

pool_add_cycle(a) ==
  [a EXCEPT !.cycle = [po \in Pool |->
     IF po \in a.pool_list /\ a.used[po] <= 0 THEN a.cycle[po] + 1 ELSE a.cycle[po]]]

pool_need_recycle(a) == {po \in a.pool_list : a.cycle[po] > RECYCLE_CYCLE}

\* list_cleanup frees the block of the pool, and with it the pages.  No code
\* calls pool_recycle at this commit; its comment gives it to the interpreter.
pool_recycle ==
  /\ ~aborted
  /\ LET a == pool_add_cycle(alloc)
         gone == pool_need_recycle(a)
     IN  alloc' = [a EXCEPT !.pool_list = @ \ gone,
                            !.free      = {p \in a.free : PoolOf[p] \notin gone}]
  /\ UNCHANGED <<owned, aborted>>

Next ==
  \/ \E t \in Type : Alloc(t) \/ AllocUnhashed(t)
  \/ AllocBig
  \/ \E b \in Block : Free(b)
  \/ pool_recycle

Spec == Init /\ [][Next]_vars

-----------------------------------------------------------------------------
(* Properties. *)

\* The records of the allocator: cells of its own that the program never sees.
Records(a) == {a.hash[p] : p \in a.page_hash}

InUse(a) == UNION {a.page_table[t] \cup a.full_table[t] : t \in Type}

\* The cells of page p that somebody holds.
Out(p) == {c \in Cell : <<p, c>> \in owned \cup Records(alloc)}

Allocator ==
  [pool_list  : SUBSET Pool,
   free       : SUBSET Page,
   used       : [Pool -> Nat],
   cycle      : [Pool -> Nat],
   page_table : [Type -> SUBSET Page],
   full_table : [Type -> SUBSET Page],
   page_hash  : SUBSET Page,
   t          : [Page -> Type \cup {NULL}],
   cells      : [Page -> SUBSET Cell],
   allocated  : [Page -> Nat],
   hash       : [Page -> (Page \X Cell) \cup {NULL}]]

\* Type invariant: the fields of the allocator, its pools and its pages; no
\* counter of pages or cells goes below zero.
TypeOK ==
  /\ alloc \in Allocator
  /\ owned \subseteq Block
  /\ aborted \in BOOLEAN

\* The pages of the pools that the allocator still has are each on exactly one
\* list, the list their type and their chain say, whatever the order of
\* allocations, frees and recyclings (page_table, full_table and pool->free of
\* pool_get_cell, pool_page_full_2_used, pool_empty_page_out and _in).
OneListPerPage ==
  aborted \/
  /\ alloc.free \cup InUse(alloc) = {p \in Page : PoolOf[p] \in alloc.pool_list}
  /\ alloc.free \cap InUse(alloc) = {}
  /\ \A t \in Type :
       /\ \A p \in alloc.page_table[t] : alloc.t[p] = t /\ alloc.cells[p] # {}
       /\ \A p \in alloc.full_table[t] : alloc.t[p] = t /\ alloc.cells[p] = {}

\* No cell is handed out while somebody holds it: neither to the program twice,
\* nor to the program and to page_hash, nor as the record of two pages; and no
\* cell of a page is lost.  The nested allocation of pool_page_hash_add, made
\* between taking a cell and returning it, is what could break it.
NoCellServedTwice ==
  aborted \/
  /\ owned \cap Records(alloc) = {}
  /\ \A p, q \in alloc.page_hash : alloc.hash[p] = alloc.hash[q] => p = q
  /\ \A p \in InUse(alloc) : /\ Out(p) \cup alloc.cells[p] = CellsOf[alloc.t[p]]
                             /\ Out(p) \cap alloc.cells[p] = {}

\* page->allocated and pool->used count what is out, so that a page goes back to
\* its pool with its last cell and not before, and pool_recycle sees a pool as
\* empty only when it is.
CountsAgree ==
  aborted \/
  /\ \A p \in InUse(alloc) : /\ Out(p) # {}
                             /\ alloc.allocated[p] = Cardinality(Out(p))
  /\ \A po \in alloc.pool_list :
       alloc.used[po] = Cardinality({p \in InUse(alloc) : PoolOf[p] = po})

\* Every cell that somebody holds is found in page_hash when it is freed, and its
\* page has not been recycled with its pool: pool_free never mistakes a cell
\* for a block of the C library.
CellsAreKnown ==
  aborted \/
  \A b \in (owned \ Big) \cup Records(alloc) :
    b[1] \in alloc.page_hash /\ PoolOf[b[1]] \in alloc.pool_list

\* A page of records holds its own record, so once it is in use it never goes
\* back to its pool, whose block is then never recycled: the recursion of
\* pool_free_allocator through pool_page_hash_remove ends at depth one.
HashPagesStay ==
  [][\A p \in alloc.page_hash :
       alloc.t[p] = HashType => /\ p \in alloc'.page_hash
                                /\ alloc'.t[p] = HashType
                                /\ PoolOf[p] \in alloc'.pool_list]_vars
=============================================================================
