------------------------------- MODULE Threads -------------------------------
(***************************************************************************)
(* thread.c with thread_pthread.h, the thread builtins of builtin.c, and   *)
(* the two allocators of a thread in pool.c.  A koa thread creates, joins, *)
(* detaches and cancels others; a child gets a copy of its arguments in an *)
(* allocator of its own, shares the globals of the main program, and       *)
(* leaves its result, as bytes, in its context.                            *)
(*                                                                         *)
(* A use of memory that is gone, a block given to a wrong allocator and a  *)
(* pthread call on an id that is no more may kill the process (crashed).   *)
(* misuse collects what the program did that it should not have to expect  *)
(* to survive.                                                             *)
(***************************************************************************)
EXTENDS Naturals, FiniteSets

CONSTANTS
  Thread,   \* the main thread and those that programs create, each once
  Main,
  Id,       \* pthread_t values: used again when a thread is gone
  Data,     \* results that cross from a child to its parent
  Enough,   \* bound: the kinds of misuse, but "left", after which a run is followed no more
  None

ASSUME ThreadsAssumption ==
  /\ Main \in Thread
  /\ None \notin Thread \cup Id \cup Data
  /\ Enough \in Nat

VARIABLES
  pc,        \* where each thread is
  new,       \* the child that it is creating
  on,        \* the id that it is joining
  found,     \* the context that g_thread_context had for that id
  contexts,  \* g_thread_context of each thread
  second,    \* g_second_allocator of each thread
  id,        \* the id of each thread
  pth,       \* how pthread keeps it: "joinable", "detached" or "joined"
  cancelled, \* the threads with a pending cancellation
  parent,    \* who created it
  context,   \* thread_context_t of each child: "none", "alive" or "freed"
  ret,       \* its ret_binary
  pools,     \* its allocator: "none", "alive" or "freed"
  global,    \* whose allocator has the object in a global variable; None: a const
  returned,  \* what its function returned
  misuse,
  crashed

vars == <<pc, new, on, found, contexts, second, id, pth, cancelled, parent, context, ret,
          pools, global, returned, misuse, crashed>>
creation == <<new, second, parent>>
joining == <<on, found, contexts>>
os == <<id, pth, cancelled>>
memory == <<context, ret, pools>>

Live == {"born", "run", "copy", "spawn", "enter", "join", "dump", "free"}

TypeOK ==
  /\ pc \in [Thread -> Live \cup {"none", "ended"}]
  /\ new \in [Thread -> Thread \cup {None}]
  /\ on \in [Thread -> Id \cup {None}]
  /\ found \in [Thread -> Thread \cup {None}]
  /\ contexts \in [Thread -> [Id -> Thread \cup {None}]]
  /\ second \in [Thread -> Thread \cup {None}]
  /\ id \in [Thread -> Id \cup {None}]
  /\ pth \in [Thread -> {"none", "joinable", "detached", "joined"}]
  /\ cancelled \subseteq Thread
  /\ parent \in [Thread -> Thread \cup {None}]
  /\ context \in [Thread -> {"none", "alive", "freed"}]
  /\ ret \in [Thread -> Data \cup {None}]
  /\ pools \in [Thread -> {"none", "alive", "freed"}]
  /\ global \in Thread \cup {None}
  /\ returned \in [Thread -> Data \cup {None}]
  /\ misuse \subseteq {"args", "global", "id", "left", "failed"}
  /\ crashed \in BOOLEAN

Init ==
  /\ pc = [t \in Thread |-> IF t = Main THEN "run" ELSE "none"]
  /\ new = [t \in Thread |-> None]
  /\ on = [t \in Thread |-> None]
  /\ found = [t \in Thread |-> None]
  /\ contexts = [t \in Thread |-> [i \in Id |-> None]]
  /\ second = [t \in Thread |-> None]
  /\ id = [t \in Thread |-> None]
  /\ pth = [t \in Thread |-> "none"]
  /\ cancelled = {}
  /\ parent = [t \in Thread |-> None]
  /\ context = [t \in Thread |-> "none"]
  /\ ret = [t \in Thread |-> None]
  /\ pools = [t \in Thread |-> IF t = Main THEN "alive" ELSE "none"]
  /\ global = None
  /\ returned = [t \in Thread |-> None]
  /\ misuse = {}
  /\ crashed = FALSE

Goto(t, place) == pc' = [pc EXCEPT ![t] = place]

\* The locals of thread_join are gone.
Leave(t) == on' = [on EXCEPT ![t] = None] /\ found' = [found EXCEPT ![t] = None]

Misused(what) == misuse' = misuse \cup what

\* The process dies, or goes on by luck.
MayCrash(gone) == crashed' \in IF gone THEN BOOLEAN ELSE {FALSE}

-----------------------------------------------------------------------------
(* The end of a thread.                                                      *)

\* Children that nobody has joined.
Unjoined(t) == \E u \in Thread : parent[u] = t /\ pth[u] = "joinable"

\* The function of t returns d, or fails: d is None then, and when its value has no
\* dump or the dump cannot be read.
Finish(t, d) ==
  /\ pc' = [pc EXCEPT ![t] = IF t = Main THEN "free" ELSE "dump"]
  /\ returned' = [returned EXCEPT ![t] = d]
  /\ Misused(IF Unjoined(t) THEN {"left"} ELSE {})

Return(t) ==
  /\ pc[t] = "run"
  /\ \E d \in Data \cup {None} : Finish(t, d)
  /\ UNCHANGED <<creation, joining, os, memory, global, crashed>>

\* The result is copied out of the thread's memory, its own table is given up.
Dump(t) ==
  /\ pc[t] = "dump"
  /\ ret' = [ret EXCEPT ![t] = returned[t]]
  /\ contexts' = [contexts EXCEPT ![t] = [i \in Id |-> None]]
  /\ Goto(t, "free")
  /\ MayCrash(context[t] # "alive")
  /\ UNCHANGED <<creation, on, found, os, context, pools, global, returned, misuse>>

\* pool_free_all, pool_allocator_free; for main, the frames and the code, then exit.
Free(t) ==
  /\ pc[t] = "free"
  /\ pools' = [pools EXCEPT ![t] = "freed"]
  /\ Goto(t, "ended")
  /\ MayCrash(t # Main /\ context[t] # "alive")
  /\ UNCHANGED <<creation, joining, os, context, ret, global, returned, misuse>>

\* pthread_cancel takes effect where a thread prints or joins: it just stops.
Cancelled(t) ==
  /\ t \in cancelled
  /\ pc[t] \in {"run", "join"}
  /\ Goto(t, "ended") /\ Leave(t)
  /\ cancelled' = cancelled \ {t}
  /\ Misused(IF Unjoined(t) THEN {"left"} ELSE {})
  /\ UNCHANGED <<creation, contexts, id, pth, memory, global, returned, crashed>>

-----------------------------------------------------------------------------
(* thread_create.                                                            *)

\* The context, the allocator, and the switch to it; code_check_args has accepted
\* the arguments.
thread_create(t, c) ==
  /\ pc[t] = "run"
  /\ context[c] = "none" /\ c # Main
  /\ context' = [context EXCEPT ![c] = "alive"]
  /\ pools' = [pools EXCEPT ![c] = "alive"]
  /\ second' = [second EXCEPT ![t] = c]
  /\ new' = [new EXCEPT ![t] = c]
  /\ Goto(t, "copy")
  /\ UNCHANGED <<parent, joining, os, ret, global, returned, misuse, crashed>>

\* Mutant: the allocator is only recovered when the child runs.
copy_args_unrecovered(t) ==
  /\ pc[t] = "copy"
  /\ Goto(t, "spawn")
  /\ UNCHANGED <<creation, joining, os, memory, global, returned, misuse, crashed>>

\* Mutant: every copy frees a temporary.
copy_args_temporary(t) ==
  /\ pc[t] = "copy"
  /\ second' = [second EXCEPT ![t] = None]
  /\ crashed' = (second[t] # None)
  /\ Goto(t, "spawn")
  /\ UNCHANGED <<new, parent, joining, os, memory, global, returned, misuse>>

\* The copy of the arguments, untracked; the allocator is recovered.
copy_args(t) ==
  /\ pc[t] = "copy"
  /\ second' = [second EXCEPT ![t] = None]
  /\ Goto(t, "spawn")
  /\ UNCHANGED <<new, parent, joining, os, memory, global, returned, misuse, crashed>>

\* A copy that frees something: a dict's list of pairs, or what was copied of a vec
\* before an element that has no copy.  pool_free gives the block to both
\* allocators, and the one that does not know it to free ().
copy_args_frees(t) ==
  /\ pc[t] = "copy"
  /\ crashed' = (second[t] # None)
  /\ Misused({"args"})
  /\ UNCHANGED <<pc, creation, joining, os, memory, global, returned>>

\* pthread has a thread for this id.
Known(u) == pth[u] = "joinable" \/ (pth[u] = "detached" /\ pc[u] # "ended")

Holders(i) == {u \in Thread : id[u] = i /\ Known(u)}

_thread_create(t) ==
  /\ pc[t] = "spawn"
  /\ \E i \in Id :
       /\ Holders(i) = {}
       /\ id' = [id EXCEPT ![new[t]] = i]
  /\ pth' = [pth EXCEPT ![new[t]] = "joinable"]
  /\ parent' = [parent EXCEPT ![new[t]] = t]
  /\ pc' = [pc EXCEPT ![t] = "enter", ![new[t]] = "born"]
  /\ UNCHANGED <<new, second, joining, cancelled, memory, global, returned, misuse, crashed>>

\* No thread: the pools of the allocator are left.
_thread_create_fails(t) ==
  /\ pc[t] = "spawn"
  /\ context' = [context EXCEPT ![new[t]] = "freed"]
  /\ new' = [new EXCEPT ![t] = None]
  /\ Goto(t, "run")
  /\ UNCHANGED <<second, parent, joining, os, ret, pools, global, returned, misuse, crashed>>

\* Mutant: an entry that is there stays.
enter_context_kept(t) ==
  /\ pc[t] = "enter"
  /\ contexts' = IF contexts[t][id[new[t]]] = None
                   THEN [contexts EXCEPT ![t][id[new[t]]] = new[t]] ELSE contexts
  /\ new' = [new EXCEPT ![t] = None]
  /\ Goto(t, "run")
  /\ UNCHANGED <<second, parent, on, found, os, memory, global, returned, misuse, crashed>>

\* The child may be at its end already.
enter_context(t) ==
  /\ pc[t] = "enter"
  /\ contexts' = [contexts EXCEPT ![t][id[new[t]]] = new[t]]
  /\ new' = [new EXCEPT ![t] = None]
  /\ Goto(t, "run")
  /\ MayCrash(context[new[t]] # "alive")
  /\ UNCHANGED <<second, parent, on, found, os, memory, global, returned, misuse>>

\* pool_set_allocator, gc_init, an empty g_thread_context.
thread_func(t) ==
  /\ pc[t] = "born"
  /\ Goto(t, "run")
  /\ UNCHANGED <<creation, joining, os, memory, global, returned, misuse, crashed>>

-----------------------------------------------------------------------------
(* thread_join, thread_detach, thread_cancel.                                *)

\* A child of t that it may still join.
Joinable(t, i) == \E u \in Thread : parent[u] = t /\ id[u] = i /\ pth[u] = "joinable"

\* A missing key is the null object, which is not NULL: the join goes on.
thread_join(t, i) ==
  /\ pc[t] = "run"
  /\ on' = [on EXCEPT ![t] = i]
  /\ found' = [found EXCEPT ![t] = contexts[t][i]]
  /\ Misused(IF Joinable(t, i) THEN {} ELSE {"id"})
  /\ Goto(t, "join")
  /\ UNCHANGED <<creation, contexts, os, memory, global, returned, crashed>>

\* Mutant: the join does not wait.
joined_at_once(t) == pc[t] = "join" /\ \E u \in Holders(on[t]) \ {t} : pth[u] = "joinable"

\* Mutant: the join waits for a result.
joined_with_result(t) ==
  /\ pc[t] = "join"
  /\ \E u \in Holders(on[t]) \ {t} : pth[u] = "joinable" /\ pc[u] = "ended" /\ ret[u] # None

Joined(t) == pc[t] = "join" /\ \E u \in Holders(on[t]) \ {t} : pth[u] = "joinable" /\ pc[u] = "ended"

\* pthread_join returns when the thread has ended; the context is the one found
\* before.
join_result(t) ==
  /\ Joined(t)
  /\ pth' = [u \in Thread |-> IF u \in Holders(on[t]) THEN "joined" ELSE pth[u]]
  /\ found[t] # None /\ ret[found[t]] # None
  /\ contexts' = [contexts EXCEPT ![t][on[t]] = None]
  /\ context' = [context EXCEPT ![found[t]] = "freed"]
  /\ MayCrash(context[found[t]] # "alive")
  /\ Goto(t, "run") /\ Leave(t)
  /\ UNCHANGED <<creation, id, cancelled, ret, pools, global, returned, misuse>>

\* The child has left no result: the join is NULL without an error, which ends the
\* caller, or in a try makes it handle an exception that is not there.
join_nothing(t) ==
  /\ Joined(t)
  /\ pth' = [u \in Thread |-> IF u \in Holders(on[t]) THEN "joined" ELSE pth[u]]
  /\ found[t] # None /\ ret[found[t]] = None
  /\ contexts' = [contexts EXCEPT ![t][on[t]] = None]
  /\ context' = [context EXCEPT ![found[t]] = "freed"]
  /\ pc' = [pc EXCEPT ![t] = IF t = Main THEN "free" ELSE "dump"]
  /\ returned' = [returned EXCEPT ![t] = None]
  /\ Misused({"failed"} \cup IF \E u \in Thread : parent[u] = t /\ pth'[u] = "joinable" THEN {"left"} ELSE {})
  /\ MayCrash(TRUE)
  /\ Leave(t)
  /\ UNCHANGED <<creation, id, cancelled, ret, pools, global>>

\* What follows the value of the null object is taken for an address.
join_null(t) ==
  /\ Joined(t)
  /\ found[t] = None
  /\ crashed' = TRUE
  /\ UNCHANGED <<pc, creation, joining, os, memory, global, returned, misuse>>

\* pthread_join refuses a detached thread and the caller itself, and may refuse a
\* thread that is being joined or an id that is no thread's.
JoinRefused(t) ==
  /\ pc[t] = "join"
  /\ \/ Holders(on[t]) = {}
     \/ \E u \in Holders(on[t]) : u = t \/ pth[u] = "detached"
     \/ \E q \in Thread \ {t} : pc[q] = "join" /\ on[q] = on[t]

\* Mutant: the error path gives the context up, too.
join_error_frees(t) ==
  /\ JoinRefused(t)
  /\ context' = [u \in Thread |-> IF u = found[t] THEN "freed" ELSE context[u]]
  /\ Goto(t, "run") /\ Leave(t)
  /\ UNCHANGED <<creation, contexts, os, ret, pools, global, returned, misuse, crashed>>

\* An error, which is caught or ends the caller.
join_error(t) ==
  /\ JoinRefused(t)
  /\ \/ Goto(t, "run") /\ UNCHANGED <<returned, misuse>>
     \/ Finish(t, None)
  /\ MayCrash(Holders(on[t]) = {} \/ \A u \in Holders(on[t]) : u # t /\ pth[u] # "detached")
  /\ Leave(t)
  /\ UNCHANGED <<creation, contexts, os, memory, global>>

\* Neither asks g_thread_context.
thread_detach(t, i) ==
  /\ pc[t] = "run"
  /\ pth' = [u \in Thread |-> IF u \in Holders(i) THEN "detached" ELSE pth[u]]
  /\ Misused({"left"} \cup IF Joinable(t, i) THEN {} ELSE {"id"})
  /\ MayCrash(Holders(i) = {})
  /\ UNCHANGED <<pc, creation, joining, id, cancelled, memory, global, returned>>

thread_cancel(t, i) ==
  /\ pc[t] = "run"
  /\ cancelled' = cancelled \cup {u \in Holders(i) : pc[u] # "ended"}
  /\ Misused(IF Joinable(t, i) THEN {} ELSE {"id"})
  /\ MayCrash(Holders(i) = {})
  /\ UNCHANGED <<pc, creation, joining, id, pth, memory, global, returned>>

-----------------------------------------------------------------------------
(* The globals of main, which its children use without a lock.               *)

\* The object that was there is released by the allocator of t.
StoreGlobal(t) ==
  /\ pc[t] = "run"
  /\ \E owner \in {t, None} :
       /\ global' = owner
       /\ Misused(IF global \notin {t, None} \/ (owner = t /\ t # Main) THEN {"global"} ELSE {})
  /\ MayCrash(global \notin {t, None})
  /\ UNCHANGED <<pc, creation, joining, os, memory, returned>>

LoadGlobal(t) ==
  /\ pc[t] = "run"
  /\ global # None /\ pools[global] = "freed"
  /\ MayCrash(TRUE)
  /\ UNCHANGED <<pc, creation, joining, os, memory, global, returned, misuse>>

\* Main has freed the code and the globals, and the others run on until it exits.
CodeGone(t) ==
  /\ pc[Main] = "free" /\ t # Main /\ pc[t] \in Live
  /\ crashed' = TRUE
  /\ UNCHANGED <<pc, creation, joining, os, memory, global, returned, misuse>>

Step(t) ==
  \/ Return(t) \/ Dump(t) \/ Free(t) \/ Cancelled(t)
  \/ \E c \in Thread : thread_create(t, c)
  \/ copy_args(t) \/ copy_args_frees(t) \/ _thread_create(t) \/ _thread_create_fails(t)
  \/ enter_context(t) \/ thread_func(t)
  \/ join_result(t) \/ join_nothing(t) \/ join_null(t) \/ join_error(t)
  \/ \E i \in Id : thread_join(t, i) \/ thread_detach(t, i) \/ thread_cancel(t, i)
  \/ StoreGlobal(t) \/ LoadGlobal(t) \/ CodeGone(t)

Running == ~crashed /\ pc[Main] # "ended" /\ Cardinality(misuse \ {"left"}) < Enough

Next == Running /\ \E t \in Thread : Step(t)

\* The threads of the system are scheduled, and their functions come to an end.
Progress(t) ==
  \/ Return(t) \/ Dump(t) \/ Free(t)
  \/ copy_args(t) \/ _thread_create(t) \/ _thread_create_fails(t) \/ enter_context(t) \/ thread_func(t)
  \/ join_result(t) \/ join_nothing(t) \/ join_null(t) \/ join_error(t)

Spec == Init /\ [][Next]_vars

FairSpec == Spec /\ \A t \in Thread : WF_vars(Running /\ Progress(t))

-----------------------------------------------------------------------------
(* Properties.                                                               *)

\* The allocators that a thread takes memory from, or gives it to.
Uses(t) ==
  (IF pc[t] \in Live \ {"born"} THEN {t} ELSE {}) \cup ({second[t]} \ {None})

\* pool.c has no lock: no allocator is ever used by two threads, not even while a
\* parent copies the arguments of its child into it.
AllocatorExclusive == \A t, u \in Thread : t # u => Uses(t) \cap Uses(u) = {}

\* The context that a child writes its result to is not freed before the child has
\* ended, whatever ids are joined, detached and used again meanwhile.
ContextOutlivesChild == \A t \in Thread \ {Main} : pc[t] \in Live => context[t] = "alive"

\* What a join gives is what the thread that it waited for has returned, unless it
\* was given an id that is not a child's.
JoinGetsResult ==
  [][\A t \in Thread : join_result(t) /\ "id" \notin misuse =>
       found[t] \in Holders(on[t]) /\ ret[found[t]] = returned[found[t]]]_vars

\* When nobody leaves children that have not been joined, nobody is left when main
\* frees the code: a join of a child is a join of all that the child started.
DescendantsEnded ==
  pc[Main] \in {"free", "ended"} /\ "left" \notin misuse =>
    \A t \in Thread \ {Main} : pc[t] \notin Live

\* A program dies only of dicts or nulls as arguments, of objects that children put
\* in globals, of ids that are not those of its children, of children that nobody
\* joins, or of a failed child.
CrashHasCause == crashed => misuse # {}

\* Joins end: threads wait for each other from parent to child only.
JoinsEnd == \A t \in Thread : pc[t] = "join" ~> pc[t] # "join" \/ ~Running \/ misuse # {}

=============================================================================
