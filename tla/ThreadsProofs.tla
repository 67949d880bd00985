--------------------------- MODULE ThreadsProofs ---------------------------
(* Proofs about Threads, for any number of threads, ids and results. *)
EXTENDS Threads, TLAPS

-----------------------------------------------------------------------------
(* The inductive invariant.                                                  *)

Creating(t) == pc[t] \in {"copy", "spawn", "enter"}

\* A thread has a second allocator only while it copies arguments.
SecondIsNew == \A t \in Thread : second[t] # None => pc[t] = "copy" /\ second[t] = new[t]

\* A child under creation has one creator, and does not run before it is spawned.
NewIsOwn ==
  /\ \A t \in Thread : Creating(t) => new[t] \in Thread \ {Main} /\ context[new[t]] # "none"
  /\ \A t \in Thread : pc[t] \in {"copy", "spawn"} => pc[new[t]] = "none" /\ context[new[t]] = "alive"
  /\ \A t \in Thread : pc[t] = "enter" => pc[new[t]] # "none"
  /\ \A t, u \in Thread : Creating(t) /\ Creating(u) /\ new[t] = new[u] => t = u

\* Who has been spawned has a context and an id.
Spawned ==
  \A c \in Thread \ {Main} : pc[c] # "none" => context[c] # "none" /\ pth[c] # "none" /\ id[c] \in Id

\* pthread gives an id to one thread at a time, and joins a thread that has ended.
IdsOfOne == \A u, v \in Thread : Known(u) /\ Known(v) /\ id[u] = id[v] => u = v
JoinedEnded == \A c \in Thread : pth[c] = "joined" => pc[c] = "ended"

\* An entry is for a child with that id.
Entries ==
  \A t \in Thread : \A i \in Id : contexts[t][i] # None =>
    contexts[t][i] # Main /\ id[contexts[t][i]] = i /\ pc[contexts[t][i]] # "none"

\* Nobody changes the entry that a join has found.
FoundIsEntry ==
  \A t \in Thread : pc[t] = "join" => on[t] \in Id /\ found[t] = contexts[t][on[t]]

MainRuns == pc[Main] # "none" /\ pth[Main] = "none"

Hand == SecondIsNew /\ NewIsOwn /\ Spawned /\ MainRuns
Table == IdsOfOne /\ JoinedEnded /\ Entries /\ FoundIsEntry /\ ContextOutlivesChild

Inv == TypeOK /\ Hand /\ Table

-----------------------------------------------------------------------------

LEMMA InvInit == Init => Inv
<1> SUFFICES ASSUME Init PROVE Inv
  OBVIOUS
<1> USE ThreadsAssumption DEF Init
<1>1. TypeOK
  BY DEF TypeOK, Live
<1>2. Hand
  BY DEF Hand, SecondIsNew, NewIsOwn, Spawned, MainRuns, Creating
<1>3. \A t \in Thread : pth[t] = "none" /\ pc[t] # "join" /\ \A i \in Id : contexts[t][i] = None
  OBVIOUS
<1>4. \A t \in Thread \ {Main} : pc[t] \notin Live
  BY DEF Live
<1>5. Table
  BY <1>3, <1>4 DEF Table, IdsOfOne, JoinedEnded, Entries, FoundIsEntry, ContextOutlivesChild, Known
<1> QED BY <1>1, <1>2, <1>5 DEF Inv

LEMMA TypeStep == TypeOK /\ [Next]_vars => TypeOK'
<1> SUFFICES ASSUME TypeOK, [Next]_vars PROVE TypeOK'
  OBVIOUS
<1> USE ThreadsAssumption DEF TypeOK, Live, Goto, Leave, Finish, Misused, MayCrash, creation, joining, os, memory
<1>1. ASSUME NEW t \in Thread, Step(t) PROVE TypeOK'
  <2>1. CASE Return(t)
    BY <2>1 DEF Return
  <2>2. CASE Dump(t)
    BY <2>2 DEF Dump
  <2>3. CASE Free(t)
    BY <2>3 DEF Free
  <2>4. CASE Cancelled(t)
    BY <2>4 DEF Cancelled
  <2>5. ASSUME NEW c \in Thread, thread_create(t, c) PROVE TypeOK'
    BY <2>5 DEF thread_create
  <2>6. CASE copy_args(t) \/ copy_args_frees(t)
    <3>1. CASE copy_args(t)
      BY <3>1 DEF copy_args
    <3>2. CASE copy_args_frees(t)
      <4>1. crashed' \in BOOLEAN
        BY <3>2 DEF copy_args_frees
      <4> QED BY <3>2, <4>1 DEF copy_args_frees
    <3> QED BY <2>6, <3>1, <3>2
  <2>7. CASE _thread_create(t)
    <3>1. PICK i \in Id : id' = [id EXCEPT ![new[t]] = i]
      BY <2>7 DEF _thread_create
    <3>2. id' \in [Thread -> Id \cup {None}]
      BY <3>1
    <3>3. pth' \in [Thread -> {"none", "joinable", "detached", "joined"}]
      BY <2>7 DEF _thread_create
    <3>4. pc' \in [Thread -> Live \cup {"none", "ended"}] /\ parent' \in [Thread -> Thread \cup {None}]
      BY <2>7 DEF _thread_create
    <3> QED BY <2>7, <3>2, <3>3, <3>4 DEF _thread_create
  <2>8. CASE _thread_create_fails(t)
    BY <2>8 DEF _thread_create_fails
  <2>9. CASE enter_context(t)
    BY <2>9 DEF enter_context
  <2>10. CASE thread_func(t)
    BY <2>10 DEF thread_func
  <2>11. CASE join_result(t)
    BY <2>11 DEF join_result
  <2>12. CASE join_nothing(t)
    BY <2>12 DEF join_nothing
  <2>13. CASE join_null(t)
    BY <2>13 DEF join_null
  <2>14. CASE join_error(t)
    <3>1. CASE Finish(t, None)
      BY <2>14, <3>1 DEF join_error
    <3>2. CASE Goto(t, "run") /\ UNCHANGED <<returned, misuse>>
      BY <2>14, <3>2 DEF join_error
    <3> QED BY <2>14, <3>1, <3>2 DEF join_error
  <2>15. ASSUME NEW i \in Id, thread_join(t, i) PROVE TypeOK'
    BY <2>15 DEF thread_join
  <2>16. ASSUME NEW i \in Id, thread_detach(t, i) PROVE TypeOK'
    BY <2>16 DEF thread_detach
  <2>17. ASSUME NEW i \in Id, thread_cancel(t, i) PROVE TypeOK'
    BY <2>17 DEF thread_cancel, Holders
  <2>18. CASE StoreGlobal(t)
    <3>1. PICK owner \in {t, None} :
            /\ global' = owner
            /\ misuse' = misuse \cup IF global \notin {t, None} \/ (owner = t /\ t # Main)
                                      THEN {"global"} ELSE {}
      BY <2>18 DEF StoreGlobal
    <3>2. misuse' \subseteq {"args", "global", "id", "left", "failed"}
      BY <3>1
    <3>3. global' \in Thread \cup {None}
      BY <3>1
    <3>4. crashed' \in BOOLEAN
      BY <2>18 DEF StoreGlobal
    <3> QED BY <2>18, <3>2, <3>3, <3>4 DEF StoreGlobal
  <2>19. CASE LoadGlobal(t) \/ CodeGone(t)
    BY <2>19 DEF LoadGlobal, CodeGone
  <2> QED
    BY <1>1, <2>1, <2>2, <2>3, <2>4, <2>5, <2>6, <2>7, <2>8, <2>9, <2>10, <2>11, <2>12, <2>13,
       <2>14, <2>15, <2>16, <2>17, <2>18, <2>19 DEF Step
<1>2. CASE UNCHANGED vars
  BY <1>2 DEF vars
<1> QED BY <1>1, <1>2 DEF Next

\* The fields keep their types, for any threads, ids and results.
THEOREM TypeCorrect == Spec => []TypeOK
<1>1. Init => TypeOK
  BY InvInit DEF Inv
<1> QED BY <1>1, TypeStep, PTL DEF Spec

-----------------------------------------------------------------------------
(* Preservation of Inv.                                                      *)

LEMMA StepKeeps ==
  ASSUME Inv, TypeOK', NEW t \in Thread, Step(t)
  PROVE  Hand' /\ Table'
<1> USE ThreadsAssumption DEF Inv, TypeOK, Live, Goto, Leave, Finish, Misused, creation, joining, os, memory
<1> USE DEF Hand, SecondIsNew, NewIsOwn, Spawned, MainRuns, Creating
<1> USE DEF Table, IdsOfOne, JoinedEnded, Entries, FoundIsEntry, ContextOutlivesChild, Known
<1>1. CASE Return(t)
  <2>1. Hand'
    BY <1>1 DEF Return
  <2>2. Table'
    BY <1>1 DEF Return
  <2> QED BY <2>1, <2>2
<1>2. CASE Dump(t)
  <2>1. Hand'
    BY <1>2 DEF Dump
  <2>2. Table'
    BY <1>2 DEF Dump
  <2> QED BY <2>1, <2>2
<1>3. CASE Free(t)
  <2>1. Hand'
    BY <1>3 DEF Free
  <2>2. Table'
    BY <1>3 DEF Free
  <2> QED BY <2>1, <2>2
<1>4. CASE Cancelled(t)
  <2>1. Hand'
    BY <1>4 DEF Cancelled
  <2>2. Table'
    BY <1>4 DEF Cancelled
  <2> QED BY <2>1, <2>2
<1>5. ASSUME NEW c \in Thread, thread_create(t, c) PROVE Hand' /\ Table'
  <2>1. Hand'
    BY <1>5 DEF thread_create
  <2>2. Table'
    BY <1>5 DEF thread_create
  <2> QED BY <2>1, <2>2
<1>6. CASE copy_args(t)
  <2>1. Hand'
    BY <1>6 DEF copy_args
  <2>2. Table'
    BY <1>6 DEF copy_args
  <2> QED BY <2>1, <2>2
<1>7. CASE copy_args_frees(t) \/ join_null(t) \/ StoreGlobal(t) \/ LoadGlobal(t) \/ CodeGone(t)
  <2>1. UNCHANGED <<pc, new, second, context, pth, id, contexts, on, found>>
    BY <1>7 DEF copy_args_frees, join_null, StoreGlobal, LoadGlobal, CodeGone
  <2>2. Hand'
    BY <2>1
  <2>3. Table'
    BY <2>1
  <2> QED BY <2>2, <2>3
<1>8. CASE _thread_create(t)
  <2> DEFINE n == new[t]
  <2>1. n \in Thread \ {Main} /\ n # t /\ pc[t] = "spawn" /\ pc[n] = "none" /\ context[n] # "none"
    BY <1>8 DEF _thread_create
  <2>2. context[n] = "alive"
    BY <1>8, <2>1 DEF _thread_create
  <2>3. PICK i \in Id : Holders(i) = {} /\ id' = [id EXCEPT ![n] = i]
    BY <1>8 DEF _thread_create
  <2>4. pth' = [pth EXCEPT ![n] = "joinable"] /\ pc' = [pc EXCEPT ![t] = "enter", ![n] = "born"]
    BY <1>8 DEF _thread_create
  <2>5. UNCHANGED <<new, second, context, contexts, on, found>>
    BY <1>8 DEF _thread_create
  <2> HIDE DEF n
  <2>6. \A u \in Thread : pth[u] = "none" => ~Known(u)
    OBVIOUS
  <2>7. Hand'
    <3>1. pc' = [v \in Thread |-> IF v = n THEN "born" ELSE IF v = t THEN "enter" ELSE pc[v]]
      BY <2>1, <2>4
    <3>2. SecondIsNew'
      BY <2>1, <2>5, <3>1
    <3>3. \A v \in Thread : Creating(v) /\ new[v] = n => v = t
      BY <2>1 DEF n
    <3>4. NewIsOwn'
      BY <2>1, <2>5, <3>1, <3>3 DEF n
    <3>5. Spawned'
      BY <2>1, <2>3, <2>4, <2>5, <3>1
    <3>6. MainRuns'
      BY <2>1, <2>4, <3>1
    <3> QED BY <3>2, <3>4, <3>5, <3>6
  <2>8. IdsOfOne'
    BY <2>1, <2>3, <2>4 DEF Holders
  <2>9. JoinedEnded' /\ Entries' /\ FoundIsEntry' /\ ContextOutlivesChild'
    BY <2>1, <2>2, <2>3, <2>4, <2>5
  <2> QED BY <2>7, <2>8, <2>9
<1>9. CASE _thread_create_fails(t)
  <2>1. Hand'
    BY <1>9 DEF _thread_create_fails
  <2>2. Table'
    BY <1>9 DEF _thread_create_fails
  <2> QED BY <2>1, <2>2
<1>10. CASE enter_context(t)
  <2>1. Hand'
    BY <1>10 DEF enter_context
  <2>2. Table'
    BY <1>10 DEF enter_context
  <2> QED BY <2>1, <2>2
<1>11. CASE thread_func(t)
  <2>1. Hand'
    BY <1>11 DEF thread_func
  <2>2. Table'
    BY <1>11 DEF thread_func
  <2> QED BY <2>1, <2>2
<1>12. CASE join_result(t) \/ join_nothing(t)
  <2> DEFINE f == found[t]
  <2>1. f \in Thread \ {Main} /\ on[t] \in Id /\ f = contexts[t][on[t]] /\ id[f] = on[t] /\ pc[f] # "none"
    <3>1. pc[t] = "join" /\ f # None
      BY <1>12 DEF join_result, join_nothing, Joined
    <3>2. on[t] \in Id /\ f = contexts[t][on[t]]
      BY <3>1
    <3>3. f # Main /\ id[f] = on[t] /\ pc[f] # "none"
      BY <3>1, <3>2
    <3>4. f \in Thread
      BY <3>1
    <3> QED BY <3>2, <3>3, <3>4
  <2>2. PICK u \in Holders(on[t]) : u # t /\ pth[u] = "joinable" /\ pc[u] = "ended"
    BY <1>12 DEF join_result, join_nothing, Joined
  <2>3. \A v \in Thread : v \in Holders(on[t]) => v = u
    BY <2>2 DEF Holders
  <2>4. pc[f] = "ended"
    <3>1. CASE Known(f)
      BY <3>1, <2>1, <2>2, <2>3 DEF Holders
    <3>2. CASE ~Known(f)
      BY <3>2, <2>1
    <3> QED BY <3>1, <3>2
  <2>5. pth' = [v \in Thread |-> IF v = u THEN "joined" ELSE pth[v]]
    <3>1. pth' = [v \in Thread |-> IF v \in Holders(on[t]) THEN "joined" ELSE pth[v]]
      BY <1>12 DEF join_result, join_nothing
    <3>2. \A v \in Thread : v \in Holders(on[t]) <=> v = u
      BY <2>2, <2>3
    <3> QED BY <3>1, <3>2
  <2>6. /\ contexts' = [contexts EXCEPT ![t][on[t]] = None]
        /\ context' = [context EXCEPT ![f] = "freed"]
        /\ UNCHANGED <<new, second, id>> /\ Leave(t) /\ pc[t] = "join"
    BY <1>12 DEF join_result, join_nothing, Joined
  <2>7. PICK place \in {"run", "dump", "free"} : pc' = [pc EXCEPT ![t] = place] /\ (t = Main => place # "none")
    BY <1>12 DEF join_result, join_nothing
  <2>8. u \in Thread /\ f # t /\ u # t
    BY <2>1, <2>2, <2>4, <2>6 DEF Holders
  <2> HIDE DEF f
  <2>9. SecondIsNew' /\ NewIsOwn' /\ MainRuns'
    BY <2>1, <2>2, <2>5, <2>6, <2>7, <2>8
  <2>10. Spawned'
    BY <2>1, <2>5, <2>6, <2>7
  <2>11. IdsOfOne'
    BY <2>5, <2>6, <2>7, <2>8
  <2>12. JoinedEnded' /\ FoundIsEntry'
    BY <2>2, <2>5, <2>6, <2>7, <2>8
  <2>13. Entries'
    BY <2>1, <2>6, <2>7
  <2>14. ContextOutlivesChild'
    BY <2>4, <2>6, <2>7
  <2> QED BY <2>9, <2>10, <2>11, <2>12, <2>13, <2>14
<1>13. CASE join_error(t)
  <2>1. PICK place \in {"run", "dump", "free"} : pc' = [pc EXCEPT ![t] = place]
    BY <1>13 DEF join_error
  <2>2. UNCHANGED <<new, second, context, pth, id, contexts>> /\ Leave(t) /\ pc[t] = "join"
    BY <1>13 DEF join_error, JoinRefused
  <2>3. Hand'
    BY <2>1, <2>2
  <2>4. Table'
    BY <2>1, <2>2
  <2> QED BY <2>3, <2>4
<1>14. ASSUME NEW i \in Id, thread_join(t, i) PROVE Hand' /\ Table'
  <2>1. Hand'
    BY <1>14 DEF thread_join
  <2>2. Table'
    BY <1>14 DEF thread_join
  <2> QED BY <2>1, <2>2
<1>15. ASSUME NEW i \in Id, thread_detach(t, i) PROVE Hand' /\ Table'
  <2>1. Hand'
    BY <1>15 DEF thread_detach, Holders
  <2>2. Table'
    BY <1>15 DEF thread_detach, Holders
  <2> QED BY <2>1, <2>2
<1>16. ASSUME NEW i \in Id, thread_cancel(t, i) PROVE Hand' /\ Table'
  <2>1. Hand'
    BY <1>16 DEF thread_cancel
  <2>2. Table'
    BY <1>16 DEF thread_cancel
  <2> QED BY <2>1, <2>2
<1> QED
  BY <1>1, <1>2, <1>3, <1>4, <1>5, <1>6, <1>7, <1>8, <1>9, <1>10, <1>11, <1>12, <1>13, <1>14,
     <1>15, <1>16 DEF Step

\* Every step keeps the invariant.
LEMMA InvStep == Inv /\ [Next]_vars => Inv'
<1> SUFFICES ASSUME Inv, [Next]_vars PROVE Inv'
  OBVIOUS
<1>1. TypeOK'
  BY TypeStep DEF Inv
<1>2. ASSUME NEW t \in Thread, Step(t) PROVE Hand' /\ Table'
  BY <1>1, <1>2, StepKeeps
<1>3. CASE UNCHANGED vars
  <2>1. UNCHANGED <<pc, new, second, context, pth, id, contexts, on, found>>
    BY <1>3 DEF vars
  <2>2. Hand'
    BY <2>1 DEF Inv, Hand, SecondIsNew, NewIsOwn, Spawned, MainRuns, Creating
  <2>3. Table'
    BY <2>1 DEF Inv, Table, IdsOfOne, JoinedEnded, Entries, FoundIsEntry, ContextOutlivesChild, Known
  <2> QED BY <1>1, <2>2, <2>3 DEF Inv
<1> QED BY <1>1, <1>2, <1>3 DEF Next, Inv

LEMMA Invariance == Spec => []Inv
BY InvInit, InvStep, PTL DEF Spec

\* No allocator is used by two threads, for any threads, ids and results: a child's
\* is its parent's until the arguments are in it.
THEOREM AllocatorsExclusive == Spec => []AllocatorExclusive
<1>1. Inv => AllocatorExclusive
  BY ThreadsAssumption DEF Inv, TypeOK, Hand, SecondIsNew, NewIsOwn, Creating, AllocatorExclusive, Uses, Live
<1> QED BY <1>1, Invariance, PTL

\* The context of a child outlives it, for any threads, ids and results.
THEOREM ContextsOutlive == Spec => []ContextOutlivesChild
<1>1. Inv => ContextOutlivesChild
  BY DEF Inv, Table
<1> QED BY <1>1, Invariance, PTL

-----------------------------------------------------------------------------
(* The families of threads, what joins find, and what a crash needs.         *)

\* Who has children has run, and was there before them.
Parents ==
  /\ parent[Main] = None
  /\ \A c \in Thread : pc[c] = "none" => parent[c] = None /\ pth[c] = "none"
  /\ \A c \in Thread \ {Main} : pc[c] # "none" =>
       parent[c] \in Thread /\ parent[c] # c /\ pc[parent[c]] \notin {"none", "born"}

\* Going from child to parent comes to main: every set of children has one whose
\* parent is not in it.
Rooted ==
  \A S \in SUBSET {c \in Thread \ {Main} : pc[c] # "none"} :
    S # {} => \E c \in S : parent[c] \notin S

\* The entries of a thread are its own children, with contexts that nobody has freed.
OwnEntries ==
  /\ \A t \in Thread : \A k \in Id : contexts[t][k] # None =>
       parent[contexts[t][k]] = t /\ context[contexts[t][k]] = "alive"
  /\ \A t \in Thread : pc[t] = "enter" => parent[new[t]] = t /\ context[new[t]] = "alive"

\* A child that can still be joined has an entry, unless it is just being entered.
Busy == {"run", "copy", "spawn", "enter", "join", "dump"}
Registered ==
  /\ \A u \in Thread : pth[u] = "joinable" /\ parent[u] # None =>
       LET t == parent[u] IN
         pc[t] \in Busy /\ (pc[t] = "enter" => new[t] # u) => contexts[t][id[u]] = u
  /\ \A t, u \in Thread :
       pc[t] = "enter" /\ parent[u] = t /\ pth[u] = "joinable" /\ id[u] = id[new[t]] => u = new[t]

\* A result is in the context when its thread has copied it there, and stays.
Results == \A u \in Thread : ret[u] # None => ret[u] = returned[u] /\ pc[u] \in {"free", "ended"}

\* As long as threads join only children of theirs, what a join has found is the
\* child that it waits for.
FoundIsChild ==
  "id" \notin misuse =>
    \A t \in Thread : pc[t] = "join" =>
      /\ found[t] \in Thread /\ parent[found[t]] = t
      /\ id[found[t]] = on[t] /\ pth[found[t]] = "joinable"

\* As long as nobody leaves a child, the children of a thread that is done are
\* joined.
ChildrenJoined ==
  "left" \notin misuse =>
    /\ \A c \in Thread : pth[c] # "detached"
    /\ \A c \in Thread : parent[c] # None /\ pc[parent[c]] \in {"dump", "free", "ended"} => pth[c] = "joined"

MainEnds == pc[Main] \notin {"born", "dump"} /\ (pools[Main] = "freed" => pc[Main] = "ended")
OwnGlobal == global \notin {None, Main} => "global" \in misuse

Family == Parents /\ Rooted /\ ChildrenJoined
Joins == OwnEntries /\ Registered /\ Results /\ FoundIsChild
Causes == MainEnds /\ OwnGlobal

All == Inv /\ Family /\ Joins /\ Causes /\ CrashHasCause

LEMMA AllInit == Init => All
<1> SUFFICES ASSUME Init PROVE All
  OBVIOUS
<1> USE ThreadsAssumption DEF Init
<1>1. Family
  BY DEF Family, Parents, Rooted, ChildrenJoined
<1>2. Joins
  BY DEF Joins, OwnEntries, Registered, Results, FoundIsChild, Busy
<1>3. Causes /\ CrashHasCause
  BY DEF Causes, MainEnds, OwnGlobal, CrashHasCause
<1> QED BY <1>1, <1>2, <1>3, InvInit DEF All

-----------------------------------------------------------------------------
(* Preservation of the families.                                             *)

\* Only _thread_create makes a thread, or a child of a thread; nobody goes back.
LEMMA Moves ==
  ASSUME Inv, TypeOK', NEW t \in Thread, Step(t), ~_thread_create(t)
  PROVE  /\ parent' = parent
         /\ \A c \in Thread : /\ pc'[c] = "none" <=> pc[c] = "none"
                              /\ pc[c] \notin {"none", "born"} => pc'[c] \notin {"none", "born"}
                              /\ pth[c] = "none" => pth'[c] = "none"
<1> DEFINE Moved == parent' = parent /\ \A c \in Thread :
             /\ pc'[c] = "none" <=> pc[c] = "none"
             /\ pc[c] \notin {"none", "born"} => pc'[c] \notin {"none", "born"}
             /\ pth[c] = "none" => pth'[c] = "none"
<1> USE DEF Inv, TypeOK, Goto, Finish, creation, os, Known
<1>1. CASE Return(t) \/ Dump(t) \/ Free(t) \/ Cancelled(t)
  BY <1>1 DEF Return, Dump, Free, Cancelled
<1>2. CASE \E c \in Thread : thread_create(t, c)
  BY <1>2 DEF thread_create
<1>3. CASE copy_args(t) \/ copy_args_frees(t) \/ _thread_create_fails(t)
  BY <1>3 DEF copy_args, copy_args_frees, _thread_create_fails
<1>4. CASE enter_context(t) \/ thread_func(t)
  BY <1>4 DEF enter_context, thread_func
<1>5. CASE join_result(t) \/ join_nothing(t)
  <2>1. pc[t] = "join" /\ pth' = [u \in Thread |-> IF u \in Holders(on[t]) THEN "joined" ELSE pth[u]]
    BY <1>5 DEF join_result, join_nothing, Joined
  <2>2. parent' = parent /\ \E place \in {"run", "dump", "free"} : pc' = [pc EXCEPT ![t] = place]
    BY <1>5 DEF join_result, join_nothing
  <2> QED BY <2>1, <2>2 DEF Holders
<1>6. CASE join_null(t)
  BY <1>6 DEF join_null
<1>7. CASE join_error(t)
  <2>1. pc[t] = "join" /\ parent' = parent /\ pth' = pth
    BY <1>7 DEF join_error, JoinRefused
  <2>2. \E place \in {"run", "dump", "free"} : pc' = [pc EXCEPT ![t] = place]
    BY <1>7 DEF join_error
  <2> QED BY <2>1, <2>2
<1>8. ASSUME NEW i \in Id, thread_join(t, i) \/ thread_cancel(t, i) PROVE Moved
  BY <1>8 DEF thread_join, thread_cancel
<1>9. ASSUME NEW i \in Id, thread_detach(t, i) PROVE Moved
  BY <1>9 DEF thread_detach, Holders
<1>10. CASE StoreGlobal(t) \/ LoadGlobal(t) \/ CodeGone(t)
  BY <1>10 DEF StoreGlobal, LoadGlobal, CodeGone
<1> QED
  BY <1>1, <1>2, <1>3, <1>4, <1>5, <1>6, <1>7, <1>8, <1>9, <1>10 DEF Step

LEMMA TreeStep ==
  ASSUME Inv, Parents, Rooted, TypeOK', NEW t \in Thread, Step(t)
  PROVE  Parents' /\ Rooted'
<1> USE ThreadsAssumption DEF Inv, TypeOK
<1>1. CASE ~_thread_create(t)
  <2>1. /\ parent' = parent
        /\ \A c \in Thread : /\ pc'[c] = "none" <=> pc[c] = "none"
                             /\ pc[c] \notin {"none", "born"} => pc'[c] \notin {"none", "born"}
                             /\ pth[c] = "none" => pth'[c] = "none"
    BY <1>1, Moves
  <2>2. Parents'
    BY <2>1 DEF Parents
  <2>3. Rooted'
    BY <2>1 DEF Rooted
  <2> QED BY <2>2, <2>3
<1>2. CASE _thread_create(t)
  <2> DEFINE c == new[t]
  <2>1. /\ c \in Thread \ {Main} /\ c # t /\ pc[t] = "spawn" /\ pc[c] = "none"
        /\ parent' = [parent EXCEPT ![c] = t] /\ pth' = [pth EXCEPT ![c] = "joinable"]
        /\ pc' = [pc EXCEPT ![t] = "enter", ![c] = "born"]
    BY <1>2 DEF _thread_create, Hand, NewIsOwn, Creating
  <2> HIDE DEF c
  <2>2. Parents'
    BY <2>1 DEF Parents
  \* The new child has no children.  Without it, a set is one of those before; with
  \* nothing else, its parent is not in it.
  <2>3. ASSUME NEW S \in SUBSET {u \in Thread \ {Main} : pc'[u] # "none"}, S # {}
        PROVE  \E u \in S : parent'[u] \notin S
    <3>1. \A u \in Thread \ {c} : parent'[u] = parent[u]
      BY <2>1
    <3>0. ASSUME NEW u \in Thread PROVE parent[u] # c
      <4>1. CASE u = Main \/ pc[u] = "none"
        <5>1. parent[u] = None
          BY <4>1 DEF Parents
        <5> QED BY <5>1, <2>1
      <4>2. CASE u # Main /\ pc[u] # "none"
        <5>1. pc[parent[u]] # "none"
          BY <4>2 DEF Parents
        <5> QED BY <5>1, <2>1
      <4> QED BY <4>1, <4>2
    <3>2. S \ {c} \in SUBSET {u \in Thread \ {Main} : pc[u] # "none"}
      BY <2>1
    <3>3. CASE S \ {c} = {}
      BY <2>1, <2>3, <3>3
    <3>4. CASE S \ {c} # {}
      <4>1. PICK u \in S \ {c} : parent[u] \notin S \ {c}
        BY <3>2, <3>4 DEF Rooted
      <4> QED BY <4>1, <3>1, <3>0
    <3> QED BY <3>3, <3>4
  <2>4. Rooted'
    BY <2>3 DEF Rooted
  <2> QED BY <2>2, <2>4
<1> QED BY <1>1, <1>2

LEMMA ChildrenJoinedStep ==
  ASSUME Inv, Parents, ChildrenJoined, TypeOK', NEW t \in Thread, Step(t)
  PROVE  ChildrenJoined'
<1> USE ThreadsAssumption DEF Inv, TypeOK, Goto, Misused, creation, os, ChildrenJoined, Parents, Unjoined
<1>1. CASE Return(t)
  BY <1>1 DEF Return, Finish, Hand, Spawned
<1>2. CASE Dump(t) \/ Free(t)
  BY <1>2 DEF Dump, Free
<1>3. CASE Cancelled(t)
  BY <1>3 DEF Cancelled, Hand, Spawned
<1>4. CASE \E c \in Thread : thread_create(t, c)
  BY <1>4 DEF thread_create
<1>5. CASE copy_args(t) \/ copy_args_frees(t) \/ _thread_create_fails(t)
  BY <1>5 DEF copy_args, copy_args_frees, _thread_create_fails
<1>6. CASE _thread_create(t)
  BY <1>6 DEF _thread_create, Hand, NewIsOwn, Creating
<1>7. CASE enter_context(t) \/ thread_func(t)
  BY <1>7 DEF enter_context, thread_func
<1>8. CASE join_result(t)
  BY <1>8 DEF join_result
<1>9. CASE join_nothing(t)
  BY <1>9 DEF join_nothing, Hand, Spawned
<1>10. CASE join_null(t)
  BY <1>10 DEF join_null
<1>11. CASE join_error(t)
  BY <1>11 DEF join_error, JoinRefused, Finish, Hand, Spawned
<1>12. ASSUME NEW i \in Id, thread_join(t, i) \/ thread_detach(t, i) \/ thread_cancel(t, i)
       PROVE  ChildrenJoined'
  BY <1>12 DEF thread_join, thread_detach, thread_cancel
<1>13. CASE StoreGlobal(t) \/ LoadGlobal(t) \/ CodeGone(t)
  <2>1. UNCHANGED <<pc, parent, pth>> /\ misuse \subseteq misuse'
    BY <1>13 DEF StoreGlobal, LoadGlobal, CodeGone
  <2> QED BY <2>1
<1> QED
  BY <1>1, <1>2, <1>3, <1>4, <1>5, <1>6, <1>7, <1>8, <1>9, <1>10, <1>11, <1>12, <1>13 DEF Step

-----------------------------------------------------------------------------
(* Preservation of what joins find.                                          *)

\* Steps that only move objects about.
Quiet(t) == copy_args_frees(t) \/ join_null(t) \/ StoreGlobal(t) \/ LoadGlobal(t) \/ CodeGone(t)

LEMMA QuietKeeps ==
  ASSUME NEW t \in Thread, Quiet(t)
  PROVE  /\ UNCHANGED <<pc, new, parent, on, found, contexts, id, pth, context, ret, returned>>
         /\ misuse \subseteq misuse'
<1> USE DEF creation, joining, os, memory, Misused
<1>1. CASE copy_args_frees(t) \/ join_null(t)
  BY <1>1 DEF copy_args_frees, join_null
<1>2. CASE StoreGlobal(t)
  BY <1>2 DEF StoreGlobal
<1>3. CASE LoadGlobal(t) \/ CodeGone(t)
  BY <1>3 DEF LoadGlobal, CodeGone
<1> QED BY <1>1, <1>2, <1>3 DEF Quiet

LEMMA OwnEntriesStep ==
  ASSUME Inv, Parents, OwnEntries, TypeOK', NEW t \in Thread, Step(t)
  PROVE  OwnEntries'
<1> USE ThreadsAssumption DEF Inv, TypeOK, Goto, Leave, Misused, creation, joining, os, memory, OwnEntries
<1>1. CASE Return(t) \/ Dump(t) \/ Free(t) \/ Cancelled(t)
  <2>1. CASE Return(t)
    BY <2>1 DEF Return, Finish
  <2>2. CASE Dump(t)
    BY <2>2 DEF Dump
  <2>3. CASE Free(t)
    BY <2>3 DEF Free
  <2>4. CASE Cancelled(t)
    BY <2>4 DEF Cancelled
  <2> QED BY <1>1, <2>1, <2>2, <2>3, <2>4
<1>2. CASE \E c \in Thread : thread_create(t, c)
  BY <1>2 DEF thread_create, Hand, NewIsOwn, Creating, Table, Entries
<1>3. CASE copy_args(t)
  BY <1>3 DEF copy_args
<1>4. CASE _thread_create(t)
  BY <1>4 DEF _thread_create, Hand, NewIsOwn, Creating, Table, Entries
<1>5. CASE _thread_create_fails(t)
  BY <1>5 DEF _thread_create_fails, Hand, NewIsOwn, Creating, Table, Entries
<1>6. CASE enter_context(t) \/ thread_func(t)
  <2>1. CASE enter_context(t)
    BY <2>1 DEF enter_context, Hand, NewIsOwn, Creating, Spawned
  <2>2. CASE thread_func(t)
    BY <2>2 DEF thread_func
  <2> QED BY <1>6, <2>1, <2>2
<1>7. CASE join_result(t)
  BY <1>7 DEF join_result, Joined, Table, FoundIsEntry, Entries
<1>8. CASE join_nothing(t)
  BY <1>8 DEF join_nothing, Joined, Table, FoundIsEntry, Entries
<1>9. CASE join_error(t)
  BY <1>9 DEF join_error, Finish, JoinRefused
<1>10. ASSUME NEW i \in Id, thread_join(t, i) \/ thread_detach(t, i) \/ thread_cancel(t, i) PROVE OwnEntries'
  BY <1>10 DEF thread_join, thread_detach, thread_cancel
<1>11. CASE Quiet(t)
  BY <1>11, QuietKeeps
<1> QED
  BY <1>1, <1>2, <1>3, <1>4, <1>5, <1>6, <1>7, <1>8, <1>9, <1>10, <1>11 DEF Step, Quiet

LEMMA RegisteredStep ==
  ASSUME Inv, Parents, Registered, TypeOK', NEW t \in Thread, Step(t)
  PROVE  Registered'
<1> USE ThreadsAssumption DEF Inv, TypeOK, Goto, Leave, Misused, creation, joining, os, memory, Registered, Busy
<1>1. CASE Return(t) \/ Dump(t) \/ Free(t) \/ Cancelled(t)
  <2>1. CASE Return(t)
    BY <2>1 DEF Return, Finish
  <2>2. CASE Dump(t)
    BY <2>2 DEF Dump
  <2>3. CASE Free(t)
    BY <2>3 DEF Free
  <2>4. CASE Cancelled(t)
    BY <2>4 DEF Cancelled
  <2> QED BY <1>1, <2>1, <2>2, <2>3, <2>4
<1>2. CASE \E c \in Thread : thread_create(t, c)
  BY <1>2 DEF thread_create
<1>3. CASE copy_args(t)
  BY <1>3 DEF copy_args
<1>4. CASE _thread_create(t)
  BY <1>4 DEF _thread_create, Hand, NewIsOwn, Creating, Holders, Known, Parents
<1>5. CASE _thread_create_fails(t)
  BY <1>5 DEF _thread_create_fails
<1>6. CASE enter_context(t)
  BY <1>6 DEF enter_context, Hand, NewIsOwn, Creating, Spawned
<1>7. CASE thread_func(t)
  BY <1>7 DEF thread_func, Parents
<1>8. CASE join_result(t)
  BY <1>8 DEF join_result, Joined, Table, IdsOfOne, Holders, Known
<1>9. CASE join_nothing(t)
  BY <1>9 DEF join_nothing, Joined, Table, IdsOfOne, Holders, Known
<1>10. CASE join_error(t)
  BY <1>10 DEF join_error, Finish, JoinRefused
<1>11. ASSUME NEW i \in Id, thread_join(t, i) \/ thread_cancel(t, i) PROVE Registered'
  BY <1>11 DEF thread_join, thread_cancel
<1>12. ASSUME NEW i \in Id, thread_detach(t, i) PROVE Registered'
  BY <1>12 DEF thread_detach
<1>13. CASE Quiet(t)
  BY <1>13, QuietKeeps
<1> QED
  BY <1>1, <1>2, <1>3, <1>4, <1>5, <1>6, <1>7, <1>8, <1>9, <1>10, <1>11, <1>12, <1>13 DEF Step, Quiet

LEMMA ResultsStep ==
  ASSUME Inv, Results, TypeOK', NEW t \in Thread, Step(t)
  PROVE  Results'
<1> USE ThreadsAssumption DEF Inv, TypeOK, Goto, Leave, Misused, creation, joining, os, memory, Results
<1>1. CASE Return(t)
  BY <1>1 DEF Return, Finish
<1>2. CASE Dump(t) \/ Free(t)
  <2>1. CASE Dump(t)
    BY <2>1 DEF Dump
  <2>2. CASE Free(t)
    BY <2>2 DEF Free
  <2> QED BY <1>2, <2>1, <2>2
<1>3. CASE Cancelled(t)
  BY <1>3 DEF Cancelled
<1>4. CASE \E c \in Thread : thread_create(t, c)
  BY <1>4 DEF thread_create
<1>5. CASE copy_args(t)
  BY <1>5 DEF copy_args
<1>6. CASE _thread_create(t)
  <2>1. \A u \in Thread : pc[u] \in {"free", "ended"} => pc'[u] = pc[u]
    BY <1>6 DEF _thread_create, Hand, NewIsOwn, Creating
  <2> QED BY <1>6, <2>1 DEF _thread_create
<1>7. CASE _thread_create_fails(t)
  BY <1>7 DEF _thread_create_fails
<1>8. CASE enter_context(t) \/ thread_func(t)
  <2>1. CASE enter_context(t)
    BY <2>1 DEF enter_context
  <2>2. CASE thread_func(t)
    BY <2>2 DEF thread_func
  <2> QED BY <1>8, <2>1, <2>2
<1>9. CASE join_result(t)
  BY <1>9 DEF join_result, Joined
<1>10. CASE join_nothing(t)
  BY <1>10 DEF join_nothing, Joined
<1>11. CASE join_error(t)
  BY <1>11 DEF join_error, Finish, JoinRefused
<1>12. ASSUME NEW i \in Id, thread_join(t, i) \/ thread_detach(t, i) \/ thread_cancel(t, i) PROVE Results'
  BY <1>12 DEF thread_join, thread_detach, thread_cancel
<1>13. CASE Quiet(t)
  BY <1>13, QuietKeeps
<1> QED
  BY <1>1, <1>2, <1>3, <1>4, <1>5, <1>6, <1>7, <1>8, <1>9, <1>10, <1>11, <1>12, <1>13 DEF Step, Quiet

LEMMA FoundIsChildStep ==
  ASSUME Inv, Parents, Registered, FoundIsChild, TypeOK', NEW t \in Thread, Step(t)
  PROVE  FoundIsChild'
<1> USE ThreadsAssumption DEF Inv, TypeOK, Goto, Leave, Misused, creation, joining, os, memory, FoundIsChild
<1>1. CASE Return(t) \/ Dump(t) \/ Free(t)
  BY <1>1 DEF Return, Dump, Free, Finish
<1>2. CASE Cancelled(t)
  BY <1>2 DEF Cancelled
<1>3. CASE \E c \in Thread : thread_create(t, c)
  BY <1>3 DEF thread_create
<1>4. CASE copy_args(t)
  BY <1>4 DEF copy_args
<1>5. CASE _thread_create(t)
  BY <1>5 DEF _thread_create, Hand, NewIsOwn, Creating, Parents
<1>6. CASE _thread_create_fails(t)
  BY <1>6 DEF _thread_create_fails
<1>7. CASE enter_context(t) \/ thread_func(t)
  BY <1>7 DEF enter_context, thread_func
<1>8. CASE join_result(t)
  BY <1>8 DEF join_result, Joined, Table, IdsOfOne, Holders, Known
<1>9. CASE join_nothing(t)
  BY <1>9 DEF join_nothing, Joined, Table, IdsOfOne, Holders, Known
<1>10. CASE join_error(t)
  BY <1>10 DEF join_error, Finish, JoinRefused
<1>11. ASSUME NEW i \in Id, thread_join(t, i) PROVE FoundIsChild'
  <2>1. ASSUME "id" \notin misuse'
        PROVE  /\ "id" \notin misuse
               /\ \E u \in Thread : parent[u] = t /\ id[u] = i /\ pth[u] = "joinable"
    BY <1>11, <2>1 DEF thread_join, Joinable
  <2>2. \A u \in Thread : parent[u] = t /\ id[u] = i /\ pth[u] = "joinable" => contexts[t][i] = u
    <3>1. pc[t] = "run" /\ t # None
      BY <1>11 DEF thread_join
    <3> QED BY <3>1 DEF Registered, Busy
  <2> QED BY <1>11, <2>1, <2>2 DEF thread_join
<1>12. ASSUME NEW i \in Id, thread_detach(t, i) PROVE FoundIsChild'
  BY <1>12 DEF thread_detach, Joinable, Table, IdsOfOne, Holders, Known
<1>13. ASSUME NEW i \in Id, thread_cancel(t, i) PROVE FoundIsChild'
  BY <1>13 DEF thread_cancel
<1>14. CASE Quiet(t)
  BY <1>14, QuietKeeps
<1> QED
  BY <1>1, <1>2, <1>3, <1>4, <1>5, <1>6, <1>7, <1>8, <1>9, <1>10, <1>11, <1>12, <1>13, <1>14 DEF Step, Quiet

-----------------------------------------------------------------------------
(* What a crash needs.                                                       *)

LEMMA NoneLeft == Inv /\ Family => DescendantsEnded
<1> SUFFICES ASSUME Inv, Family, pc[Main] \in {"free", "ended"}, "left" \notin misuse
             PROVE  \A t \in Thread \ {Main} : pc[t] \notin Live
  BY DEF DescendantsEnded
<1> USE ThreadsAssumption DEF Inv, TypeOK, Family
<1> DEFINE Left == {t \in Thread \ {Main} : pc[t] \in Live}
<1>1. ASSUME Left # {} PROVE FALSE
  <2>1. Left \in SUBSET {t \in Thread \ {Main} : pc[t] # "none"}
    BY DEF Live
  <2>2. PICK c \in Left : parent[c] \notin Left
    BY <1>1, <2>1 DEF Rooted
  <2>3. c \in Thread \ {Main} /\ pc[c] \in Live /\ parent[c] \in Thread /\ pc[parent[c]] # "none"
    BY <2>1, <2>2 DEF Parents
  <2>4. pc[parent[c]] \in {"free", "ended"}
    BY <2>2, <2>3 DEF Live
  <2>5. pth[c] = "joined"
    BY <2>3, <2>4 DEF ChildrenJoined
  <2>6. pc[c] = "ended"
    BY <2>3, <2>5 DEF Table, JoinedEnded
  <2> QED BY <2>3, <2>6 DEF Live
<1> QED BY <1>1

LEMMA CausesStep ==
  ASSUME Inv, Causes, TypeOK', NEW t \in Thread, Step(t)
  PROVE  Causes'
<1> USE ThreadsAssumption DEF Inv, TypeOK, Goto, Misused, creation, joining, os, memory, Causes, MainEnds, OwnGlobal
<1>1. CASE Return(t)
  BY <1>1 DEF Return, Finish
<1>2. CASE Dump(t)
  BY <1>2 DEF Dump
<1>3. CASE Free(t)
  BY <1>3 DEF Free
<1>4. CASE Cancelled(t)
  BY <1>4 DEF Cancelled
<1>5. CASE \E c \in Thread : thread_create(t, c)
  BY <1>5 DEF thread_create
<1>6. CASE copy_args(t)
  BY <1>6 DEF copy_args
<1>7. CASE _thread_create(t)
  BY <1>7 DEF _thread_create, Hand, NewIsOwn, Creating
<1>8. CASE _thread_create_fails(t)
  BY <1>8 DEF _thread_create_fails
<1>9. CASE enter_context(t)
  BY <1>9 DEF enter_context
<1>10. CASE thread_func(t)
  BY <1>10 DEF thread_func
<1>11. CASE join_result(t)
  BY <1>11 DEF join_result, Joined
<1>12. CASE join_nothing(t)
  BY <1>12 DEF join_nothing, Joined
<1>13. CASE join_error(t)
  BY <1>13 DEF join_error, JoinRefused, Finish
<1>14. ASSUME NEW i \in Id, thread_join(t, i) \/ thread_detach(t, i) \/ thread_cancel(t, i) PROVE Causes'
  BY <1>14 DEF thread_join, thread_detach, thread_cancel
<1>15. CASE copy_args_frees(t) \/ join_null(t)
  BY <1>15 DEF copy_args_frees, join_null
<1>16. CASE StoreGlobal(t)
  BY <1>16 DEF StoreGlobal
<1>17. CASE LoadGlobal(t) \/ CodeGone(t)
  BY <1>17 DEF LoadGlobal, CodeGone
<1> QED
  BY <1>1, <1>2, <1>3, <1>4, <1>5, <1>6, <1>7, <1>8, <1>9, <1>10, <1>11, <1>12, <1>13, <1>14,
     <1>15, <1>16, <1>17 DEF Step

LEMMA CrashStep ==
  ASSUME Inv, Family, Joins, Causes, TypeOK', Running, NEW t \in Thread, Step(t)
  PROVE  crashed' => misuse' # {}
<1> SUFFICES ASSUME crashed', misuse' = {} PROVE FALSE
  OBVIOUS
<1> USE ThreadsAssumption DEF Inv, TypeOK, Running, Misused, MayCrash
<1>1. CASE Dump(t) \/ Free(t)
  <2>1. pc[t] \in Live
    BY <1>1 DEF Dump, Free, Live
  <2>2. t # Main => context[t] = "alive"
    BY <2>1 DEF Table, ContextOutlivesChild
  <2>3. CASE Dump(t)
    BY <2>2, <2>3 DEF Dump, Causes, MainEnds
  <2>4. CASE Free(t)
    BY <2>2, <2>4 DEF Free
  <2> QED BY <1>1, <2>3, <2>4
<1>2. CASE enter_context(t)
  BY <1>2 DEF enter_context, Joins, OwnEntries
<1>3. CASE join_result(t)
  <2>1. contexts[t][on[t]] = found[t] /\ found[t] # None /\ on[t] \in Id
    BY <1>3 DEF join_result, Joined, Table, FoundIsEntry
  <2>2. context[found[t]] = "alive"
    BY <2>1 DEF Joins, OwnEntries
  <2> QED BY <1>3, <2>2 DEF join_result
<1>4. CASE join_nothing(t) \/ copy_args_frees(t)
  BY <1>4 DEF join_nothing, copy_args_frees
\* Without a misused id a join has found its child, which is not detached, nor the
\* thread itself, and nobody else waits for it.
<1>5. CASE join_null(t) \/ join_error(t)
  <2>1. misuse = {} /\ pc[t] = "join"
    <3>1. CASE join_null(t)
      BY <3>1 DEF join_null, Joined
    <3>2. CASE join_error(t)
      <4>1. misuse \subseteq misuse'
        BY <3>2 DEF join_error, Finish
      <4> QED BY <3>2, <4>1 DEF join_error, JoinRefused
    <3> QED BY <1>5, <3>1, <3>2
  <2>2. /\ found[t] \in Thread /\ parent[found[t]] = t
        /\ id[found[t]] = on[t] /\ pth[found[t]] = "joinable"
    BY <2>1 DEF Joins, FoundIsChild
  <2>3. CASE join_null(t)
    BY <2>2, <2>3 DEF join_null
  <2>4. CASE join_error(t)
    <3>1. found[t] \in Holders(on[t]) /\ \A u \in Holders(on[t]) : u = found[t]
      BY <2>2 DEF Holders, Known, Table, IdsOfOne
    <3>2. found[t] # t
      BY <2>1, <2>2 DEF Family, Parents
    <3>3. PICK q \in Thread \ {t} : pc[q] = "join" /\ on[q] = on[t]
      BY <2>2, <2>4, <3>1, <3>2 DEF join_error, JoinRefused
    <3>4. /\ found[q] \in Thread /\ parent[found[q]] = q
          /\ id[found[q]] = on[t] /\ pth[found[q]] = "joinable"
      BY <2>1, <3>3 DEF Joins, FoundIsChild
    <3>5. found[q] = found[t]
      BY <2>2, <3>4 DEF Known, Table, IdsOfOne
    <3> QED BY <2>2, <3>3, <3>4, <3>5
  <2> QED BY <1>5, <2>3, <2>4
<1>6. ASSUME NEW i \in Id, thread_detach(t, i) \/ thread_cancel(t, i) PROVE FALSE
  <2>1. Joinable(t, i)
    BY <1>6 DEF thread_detach, thread_cancel
  <2>2. Holders(i) # {}
    BY <2>1 DEF Joinable, Holders, Known
  <2> QED BY <1>6, <2>2 DEF thread_detach, thread_cancel
<1>7. CASE StoreGlobal(t)
  BY <1>7 DEF StoreGlobal
\* Main's objects live as long as main, and others are in no global.
<1>8. CASE LoadGlobal(t)
  <2>1. misuse = {} /\ global # None /\ pools[global] = "freed"
    BY <1>8 DEF LoadGlobal
  <2>2. global = Main
    BY <2>1 DEF Causes, OwnGlobal
  <2> QED BY <2>1, <2>2 DEF Causes, MainEnds
<1>9. CASE CodeGone(t)
  <2>1. misuse = {} /\ pc[Main] = "free" /\ t # Main /\ pc[t] \in Live
    BY <1>9 DEF CodeGone
  <2> QED BY <2>1, NoneLeft DEF DescendantsEnded
<1>10. CASE crashed' = crashed
  BY <1>10
<1>11. CASE Return(t) \/ Cancelled(t) \/ \E c \in Thread : thread_create(t, c)
  BY <1>10, <1>11 DEF Return, Cancelled, thread_create
<1>12. CASE copy_args(t) \/ _thread_create(t) \/ _thread_create_fails(t) \/ thread_func(t)
  BY <1>10, <1>12 DEF copy_args, _thread_create, _thread_create_fails, thread_func
<1>13. ASSUME NEW i \in Id, thread_join(t, i) PROVE FALSE
  BY <1>10, <1>13 DEF thread_join
<1> QED
  BY <1>1, <1>2, <1>3, <1>4, <1>5, <1>6, <1>7, <1>8, <1>9, <1>11, <1>12, <1>13 DEF Step

LEMMA AllStep == All /\ [Next]_vars => All'
<1> SUFFICES ASSUME All, [Next]_vars PROVE All'
  OBVIOUS
<1>1. Inv' /\ TypeOK'
  BY InvStep DEF All, Inv
<1>2. ASSUME Running, NEW t \in Thread, Step(t) PROVE All'
  <2>1. Family'
    BY <1>1, <1>2, TreeStep, ChildrenJoinedStep DEF All, Family
  <2>2. Joins'
    BY <1>1, <1>2, OwnEntriesStep, RegisteredStep, ResultsStep, FoundIsChildStep DEF All, Joins, Family
  <2>3. Causes'
    BY <1>1, <1>2, CausesStep DEF All
  <2>4. CrashHasCause'
    BY <1>1, <1>2, CrashStep DEF All, CrashHasCause
  <2> QED BY <1>1, <2>1, <2>2, <2>3, <2>4 DEF All
<1>3. CASE UNCHANGED vars
  <2>1. Family'
    BY <1>3 DEF All, Family, Parents, Rooted, ChildrenJoined, vars
  <2>2. Joins'
    BY <1>3 DEF All, Joins, OwnEntries, Registered, Results, FoundIsChild, Busy, vars
  <2>3. Causes' /\ CrashHasCause'
    BY <1>3 DEF All, Causes, MainEnds, OwnGlobal, CrashHasCause, vars
  <2> QED BY <1>1, <2>1, <2>2, <2>3 DEF All
<1> QED BY <1>2, <1>3 DEF Next

LEMMA Complete == Spec => []All
BY AllInit, AllStep, PTL DEF Spec

\* When nobody leaves children unjoined, none is left when main frees the code, for
\* any threads, ids and results: a set of threads that are left would have one whose
\* parent is done without it.
THEOREM NoDescendantLeft == Spec => []DescendantsEnded
<1>1. All => DescendantsEnded
  BY NoneLeft DEF All
<1> QED BY <1>1, Complete, PTL

\* A process dies only of what its program misused, for any threads, ids and results.
THEOREM CrashesHaveCauses == Spec => []CrashHasCause
<1>1. All => CrashHasCause
  BY DEF All
<1> QED BY <1>1, Complete, PTL

\* A join of a child gives what the child has returned, for any threads, ids and
\* results, however ids are used again meanwhile.
THEOREM JoinsGetResults == Spec => JoinGetsResult
<1> DEFINE Given == \A t \in Thread : join_result(t) /\ "id" \notin misuse =>
                      found[t] \in Holders(on[t]) /\ ret[found[t]] = returned[found[t]]
<1>1. ASSUME All, [Next]_vars PROVE [Given]_vars
  <2>1. ASSUME NEW t \in Thread, join_result(t), "id" \notin misuse
        PROVE  found[t] \in Holders(on[t]) /\ ret[found[t]] = returned[found[t]]
    <3>1. pc[t] = "join" /\ found[t] # None /\ ret[found[t]] # None
      BY <2>1 DEF join_result, Joined
    <3>2. found[t] \in Thread /\ id[found[t]] = on[t] /\ pth[found[t]] = "joinable"
      BY <1>1, <2>1, <3>1 DEF All, Joins, FoundIsChild
    <3> QED BY <1>1, <3>1, <3>2 DEF Holders, Known, All, Joins, Results
  <2> QED BY <2>1
<1>2. All /\ [Next]_vars => [Given]_vars
  BY <1>1
<1> QED BY <1>2, Complete, PTL DEF Spec, JoinGetsResult

=============================================================================
