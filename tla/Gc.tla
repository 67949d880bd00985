--------------------------------- MODULE Gc ---------------------------------
(***************************************************************************)
(* Reference counts (src/object.c), vecs of objects (src/vecobject.c) and  *)
(* the generational collector (src/gc.c) of one interpreter thread.        *)
(*                                                                         *)
(* The objects are vecs, the only container whose elements can be of any   *)
(* type; an element that is no container is VOID, because the collector    *)
(* skips untracked objects.  "held" counts the references of variables and *)
(* of the operand stack, which an opcode takes and leaves one at a time.   *)
(* The C recursion of traverse and free is RECURSIVE here; where the C     *)
(* code would never return, touch freed memory, or walk off a list, the    *)
(* heap gets a fault and the program is over.                              *)
(***************************************************************************)
EXTENDS Integers, FiniteSets, Sequences, SequencesExt

CONSTANTS
  Obj,          \* the vecs
  NSlots,       \* elements of a vec
  VOID,         \* an element that is no container
  Threshold,    \* generation_t.threshold by generation
  MaxHeld,      \* bound: references of variables and stack to one object
  MaxCount      \* bound: objects tracked since the last collection

GEN_NUM     == 3
Gen         == 0..GEN_NUM - 1
Reachable   == GEN_NUM          \* the two lists on the stack of gc_collect_gen
Unreachable == GEN_NUM + 1
List        == 0..Unreachable
Slots       == 1..NSlots

ASSUME GcAssumption ==
  /\ IsFiniteSet(Obj)
  /\ VOID \notin Obj
  /\ NSlots \in Nat
  /\ Threshold \in [Gen -> Nat]
  /\ MaxHeld \in Nat /\ MaxCount \in Nat

VARIABLES
  heap,     \* the objects and g_generation_list
  held      \* references to each object from variables and the stack

vars == <<heap, held>>

Fault(h, f) == [h EXCEPT !.fault = IF @ = "none" THEN f ELSE @]
Failed(h)   == h.fault # "none"

Unlink(h, o) == [h EXCEPT !.list = [l \in List |-> Remove(@[l], o)]]

-----------------------------------------------------------------------------
(* Reference counts. *)

object_ref(h, o) ==
  IF o = VOID THEN h
  ELSE IF o \notin h.alive THEN Fault(h, "dangling")
  ELSE [h EXCEPT !.ref[o] = @ + 1]

gc_track(h, o) ==
  [h EXCEPT !.list[0]   = Append(@, o),
            !.count[0]  = @ + 1,
            !.status[o] = "reachable"]

\* Mutant: the node stays on its generation list.
gc_untrack_linked(h, o) ==
  [h EXCEPT !.count[0]  = IF @ > 0 THEN @ - 1 ELSE @,
            !.status[o] = "untracked"]

\* Mutant: no test for a positive count.
gc_untrack_below(h, o) ==
  [Unlink(h, o) EXCEPT !.count[0] = @ - 1, !.status[o] = "untracked"]

gc_untrack(h, o) ==
  [Unlink(h, o) EXCEPT !.count[0]  = IF @ > 0 THEN @ - 1 ELSE @,
                       !.status[o] = "untracked"]

RECURSIVE object_unref(_, _)

\* vecobject_op_free, then pool_free.
object_free(h, o) ==
  LET Element(g, i) == IF h.slot[o][i] = o THEN g ELSE object_unref(g, h.slot[o][i])
      emptied == FoldLeft(Element, h, [i \in Slots |-> i])
  IN  [gc_untrack(emptied, o) EXCEPT !.alive    = @ \ {o},
                                     !.slot[o]  = [i \in Slots |-> VOID],
                                     !.gc_ref[o] = 0]

\* A count that is not positive before the decrement means that o is being
\* freed already: object_free would start over.
object_unref(h, o) ==
  IF o = VOID \/ Failed(h) THEN h
  ELSE IF o \notin h.alive THEN Fault(h, "dangling")
  ELSE IF h.ref[o] <= 0 THEN Fault(h, "overflow")
  ELSE LET g == [h EXCEPT !.ref[o] = @ - 1]
       IN  IF g.ref[o] <= 0 THEN object_free(g, o) ELSE g

-----------------------------------------------------------------------------
(* vecobject_traverse: the elements of an element are visited before the   *)
(* element itself, and nothing remembers what has been visited.            *)

Elements(h, S) == {h.slot[o][i] : o \in S, i \in Slots} \ {VOID}

RECURSIVE Closure(_, _)
Closure(h, S) ==
  IF Elements(h, S) \subseteq S THEN S ELSE Closure(h, S \cup Elements(h, S))

\* The traversal of o never returns.
Endless(h, o) == \E p \in Closure(h, {o}) : p \in Closure(h, Elements(h, {p}))

\* The objects that the traversal of o passes to its callback, in order.
RECURSIVE Visits(_, _)
Visits(h, o) ==
  LET VisitsOf(e) == IF e = VOID THEN <<>> ELSE Append(Visits(h, e), e)
  IN  FlattenSeq([i \in Slots |-> VisitsOf(h.slot[o][i])])

\* The traversal with gc_object_unref_fun, which lets go of every element.
RECURSIVE TraverseUnref(_, _)
TraverseUnref(h, o) ==
  LET Element(g, i) ==
        IF g.slot[o][i] = VOID \/ Failed(g) THEN g
        ELSE [object_unref(TraverseUnref(g, g.slot[o][i]), g.slot[o][i])
                EXCEPT !.slot[o][i] = VOID]
  IN  FoldLeft(Element, h, [i \in Slots |-> i])

-----------------------------------------------------------------------------
(* Collection. *)

gc_list_merge(h, young, old) ==
  [h EXCEPT !.list[old] = h.list[young] \o @, !.list[young] = <<>>]

\* Mutant: the counts of the last collection are used again.
gc_update_ref_stale(h, gen) == h

gc_update_ref(h, gen) ==
  [h EXCEPT !.gc_ref = [o \in Obj |-> IF Contains(h.list[gen], o) THEN h.ref[o] ELSE @[o]]]

gc_object_sub_ref_fun(h, o) ==
  [h EXCEPT !.gc_ref[o] = IF @ > 0 THEN @ - 1 ELSE @]

gc_sub_ref_fun(h, o) == FoldLeft(gc_object_sub_ref_fun, h, Visits(h, o))

gc_object_recover_fun(h, o) ==
  IF h.gc_ref[o] <= 0
    THEN [h EXCEPT !.gc_ref[o] = 1]
  ELSE IF h.status[o] = "unreachable"
    THEN [Unlink(h, o) EXCEPT !.list[Reachable] = Append(@, o),
                              !.status[o]       = "reachable"]
    ELSE h

gc_get_unreachable_fun(h, o) ==
  IF h.gc_ref[o] > 0
    THEN FoldLeft(gc_object_recover_fun, h, Visits(h, o))
    ELSE [Unlink(h, o) EXCEPT !.list[Unreachable] = Append(@, o),
                              !.status[o]         = "unreachable"]

\* list_foreach reads the next node before it calls gc_get_unreachable_fun; if
\* the call moves that node to the reachable list, the walk goes on there, never
\* meets the head of its own list and takes the head of the other for an object.
RECURSIVE gc_get_unreachable(_, _, _)
gc_get_unreachable(h, gen, o) ==
  LET L == h.list[gen]
      last == Last(L) = o
      next == L[CHOOSE n \in 2..Len(L) : L[n - 1] = o]
      g == gc_get_unreachable_fun(h, o)
  IN  IF last THEN g
      ELSE IF ~Contains(g.list[gen], next) THEN Fault(g, "derailed")
      ELSE gc_get_unreachable(g, gen, next)

RECURSIVE gc_free_unreachable(_, _)
gc_free_unreachable(h, old) ==
  IF h.list[Unreachable] = <<>> \/ Failed(h) THEN h
  ELSE LET o == Head(h.list[Unreachable])
           g == object_unref(TraverseUnref(object_ref(h, o), o), o)
           stays == g.list[Unreachable] # <<>> /\ Head(g.list[Unreachable]) = o
       IN  gc_free_unreachable(
             IF stays THEN [Unlink(g, o) EXCEPT !.list[old] = Append(@, o)] ELSE g, old)

\* Merge generations, update gc_ref, find root objects.
Rooted(h, gen) ==
  LET counted == [h EXCEPT !.count = [g \in Gen |-> IF g <= gen THEN 0
                                                    ELSE IF g = gen + 1 THEN @[g] + 1
                                                    ELSE @[g]]]
      Merge(g, young) == gc_list_merge(g, young, gen)
      merged == FoldLeft(Merge, counted, [i \in 1..gen |-> i - 1])
      updated == gc_update_ref(merged, gen)
  IN  IF \E o \in ToSet(updated.list[gen]) : Endless(updated, o)
        THEN Fault(updated, "overflow")
        ELSE FoldLeft(gc_sub_ref_fun, updated, updated.list[gen])

gc_collect_gen(h, gen) ==
  LET rooted == Rooted(h, gen)
      found == IF rooted.list[gen] = <<>> THEN rooted
               ELSE gc_get_unreachable(rooted, gen, Head(rooted.list[gen]))
      freed == gc_free_unreachable(gc_list_merge(found, Reachable, gen), gen)
  IN  IF Failed(rooted) THEN rooted
      ELSE IF Failed(found) THEN found
      ELSE IF ~Failed(freed) /\ gen + 1 < GEN_NUM
        THEN gc_list_merge(freed, gen, gen + 1)
        ELSE freed

OverThreshold(h) == {g \in Gen : h.count[g] > Threshold[g]}

-----------------------------------------------------------------------------
(* Actions. *)

Init ==
  /\ heap = [alive  |-> {},
             ref    |-> [o \in Obj |-> 0],
             slot   |-> [o \in Obj |-> [i \in Slots |-> VOID]],
             list   |-> [l \in List |-> <<>>],
             count  |-> [g \in Gen |-> 0],
             status |-> [o \in Obj |-> "untracked"],
             gc_ref |-> [o \in Obj |-> 0],
             fault  |-> "none"]
  /\ held = [o \in Obj |-> 0]

\* The references that a vec literal with elements es takes from the stack.
Operands(es, o) == Cardinality({i \in Slots : es[i] = o})

\* OP_MAKE_VEC: a vec of void elements is tracked, then each element is taken
\* from the stack: object_ipindex counts it and object_unref lets the stack go.
MakeVec(o, es) ==
  /\ ~Failed(heap)
  /\ o \notin heap.alive
  /\ \A e \in Obj : Operands(es, e) <= held[e]
  /\ heap.count[0] < MaxCount
  /\ LET new == gc_track([heap EXCEPT !.alive = @ \cup {o}, !.ref[o] = 0], o)
     IN  heap' = object_ref([new EXCEPT !.slot[o] = es], o)
  /\ held' = [e \in Obj |-> IF e = o THEN 1 ELSE held[e] - Operands(es, e)]

\* OP_LOAD_VAR of a variable that holds o.
LoadVar(o) ==
  /\ ~Failed(heap)
  /\ held[o] \in 1..MaxHeld - 1
  /\ heap' = object_ref(heap, o)
  /\ held' = [held EXCEPT ![o] = @ + 1]

\* OP_LOAD_INDEX: the vec is let go of before its element is counted.
LoadIndex(o, i) ==
  /\ ~Failed(heap)
  /\ held[o] > 0
  /\ LET r == heap.slot[o][i]
     IN  /\ r # VOID => held[r] < MaxHeld
         /\ heap' = object_ref(object_unref(heap, o), r)
         /\ held' = [e \in Obj |-> held[e] - (IF e = o THEN 1 ELSE 0) + (IF e = r THEN 1 ELSE 0)]

\* Mutant: the old element keeps its reference.
ipindex_keeps_prev(h, o, i, e) == object_ref([h EXCEPT !.slot[o][i] = e], e)

\* The write to v[pos]: the new element is counted before the old one goes.
vecobject_op_ipindex(h, o, i, e) ==
  object_unref(object_ref([h EXCEPT !.slot[o][i] = e], e), h.slot[o][i])

\* OP_STORE_INDEX: vecobject_op_ipindex, then the operands are let go of, then
\* the result, which is the stored object, is counted and pushed.
StoreIndex(o, i, e) ==
  /\ ~Failed(heap)
  /\ held[o] > 0
  /\ e # VOID => held[e] > (IF e = o THEN 1 ELSE 0)
  /\ LET stored == vecobject_op_ipindex(heap, o, i, e)
     IN  heap' = object_ref(object_unref(object_unref(stored, o), e), e)
  /\ held' = [held EXCEPT ![o] = @ - 1]

\* OP_POP_STACK, or the end of a variable's block.
PopStack(o) ==
  /\ ~Failed(heap)
  /\ held[o] > 0
  /\ heap' = object_unref(heap, o)
  /\ held' = [held EXCEPT ![o] = @ - 1]

\* OP_LEAVE_BLOCK and OP_RETURN call the collector now and then; it takes the
\* oldest generation that is over its threshold.
gc_collect ==
  /\ ~Failed(heap)
  /\ OverThreshold(heap) # {}
  /\ heap' = gc_collect_gen(heap, Max(OverThreshold(heap)))
  /\ UNCHANGED held

Next ==
  \/ \E o \in Obj :
       \/ \E es \in [Slots -> Obj \cup {VOID}] : MakeVec(o, es)
       \/ LoadVar(o)
       \/ \E i \in Slots : LoadIndex(o, i)
       \/ \E i \in Slots, e \in Obj \cup {VOID} : StoreIndex(o, i, e)
       \/ PopStack(o)
  \/ gc_collect

Spec == Init /\ [][Next]_vars

-----------------------------------------------------------------------------
(* Properties. *)

\* Type invariant: counts are natural numbers and lists hold objects.
TypeOK ==
  /\ heap.alive \subseteq Obj
  /\ heap.ref \in [Obj -> Nat]
  /\ heap.slot \in [Obj -> [Slots -> Obj \cup {VOID}]]
  /\ \A l \in List : ToSet(heap.list[l]) \subseteq Obj
  /\ heap.count \in [Gen -> Nat]
  /\ heap.status \in [Obj -> {"untracked", "reachable", "unreachable"}]
  /\ heap.gc_ref \in [Obj -> Nat]
  /\ heap.fault \in {"none", "overflow", "dangling", "derailed"}
  /\ held \in [Obj -> 0..MaxHeld]

References(o) ==
  held[o] + Cardinality({<<p, i>> \in heap.alive \X Slots : heap.slot[p][i] = o})

\* The count of every object is the number of variables, stack entries and
\* elements that refer to it, none refers to a freed object, and an object
\* without references is gone, whatever collections let go of.
RefsExact ==
  ~Failed(heap) => \A o \in Obj :
    IF o \in heap.alive THEN heap.ref[o] = References(o) /\ heap.ref[o] > 0
    ELSE References(o) = 0

\* Between collections every object is on exactly one generation list, once, and
\* freed ones are on none: each unlink and append of gc_untrack, recover and
\* free_unreachable leaves the lists a partition.
TrackedOnce ==
  ~Failed(heap) =>
    LET all == FlattenSeq([l \in 1..Unreachable + 1 |-> heap.list[l - 1]])
    IN  /\ IsInjective(all)
        /\ ToSet(all) = heap.alive
        /\ heap.list[Reachable] = <<>> /\ heap.list[Unreachable] = <<>>

Contained(o) == \E p \in heap.alive : o \in Elements(heap, {p})

\* A collection frees no object that a variable or the stack holds, and leaves
\* the elements of a held object alone if no container holds it too.
RootsSurvive ==
  [][gc_collect => \A o \in Obj :
       held[o] > 0 /\ ~Failed(heap') =>
         /\ o \in heap'.alive
         /\ ~Contained(o) => heap'.slot[o] = heap.slot[o]]_vars

\* What the program can still get at.
Live == Closure(heap, {o \in Obj : held[o] > 0})

\* What "Collect unreachable objects" (gc.c) says: a collection leaves every
\* object that can still be reached from a variable, and its elements, alone.
LiveDataKept ==
  [][gc_collect => \A o \in Live :
       ~Failed(heap') => o \in heap'.alive /\ heap'.slot[o] = heap.slot[o]]_vars
=============================================================================
