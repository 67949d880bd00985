--------------------------- MODULE ProgramProofs ---------------------------
(* Proofs about Program, for any processes, texts, parts and times. *)
EXTENDS Program, TLAPS

-----------------------------------------------------------------------------
(* The inductive invariant.                                                  *)

\* A run that is under way has seen the source as it is.
SeenSource == \A p \in Proc : Busy(p) => saw[p] = source

\* What a process holds on its way to running it.
HoldsSource ==
  \A p \in Proc :
    /\ pc[p] \in {"open", "write"} => text[p] = source
    /\ pc[p] = "load" => text[p] = IF at[p] = 1 THEN Nothing ELSE source

OneWriter == \A p, q \in Proc : Writing(p) /\ Writing(q) => p = q

\* The file is read only while it is newer.
LoadsNewer == \A p \in Proc : pc[p] = "load" => misc_file_is_older

\* A newer file, and one that is written, is a beginning of the source's program.
Beginning ==
  misc_file_is_older \/ (\E p \in Proc : Writing(p)) =>
    /\ \A i \in 1..Parts : file[i] \in {source, Nothing}
    /\ \A i, j \in 1..Parts : i <= j /\ file[j] # Nothing => file[i] # Nothing

\* Who writes has written all before its place.
Written == \A p \in Proc : Writing(p) => \A i \in 1..Parts : i < at[p] => file[i] = source

\* Nothing has been read or written before a process begins to.
Starts == \A p \in Proc : pc[p] \in {"idle", "parse", "open"} => at[p] = 1 /\ text[p] # Mixed

Idle == \A p \in Proc : pc[p] \in {"idle", "parse"} => text[p] = Nothing

Calm ==
  /\ SeenSource /\ HoldsSource /\ OneWriter /\ LoadsNewer /\ Beginning /\ Written

Inv ==
  /\ TypeOK /\ Starts /\ Idle
  /\ ~clash => Calm
  /\ RunsTheSource
  /\ WholeUnlessCut
  /\ RefusedForACause

-----------------------------------------------------------------------------

\* A process saves a text.
Saves == \A p \in Proc : pc[p] \in {"open", "write"} => text[p] \in Text

LEMMA TypeStep == TypeOK /\ Saves /\ [Next]_vars => TypeOK' /\ Saves'
<1> SUFFICES ASSUME TypeOK, Saves, [Next]_vars PROVE TypeOK' /\ Saves'
  OBVIOUS
<1> USE ProgramAssumption DEF TypeOK, Saves, author, cache, NoTime
<1>1. CASE Edit
  BY <1>1 DEF Edit
<1>2. CASE Tick
  BY <1>2 DEF Tick
<1>3. ASSUME NEW p \in Proc, Run(p) PROVE TypeOK' /\ Saves'
  <2>1. CASE parser_load_file(p)
    BY <2>1 DEF parser_load_file
  <2>2. CASE NoAccess(p)
    BY <2>2 DEF NoAccess
  <2>3. CASE Parse(p)
    BY <2>3 DEF Parse
  <2>4. CASE OpenToSave(p)
    BY <2>4 DEF OpenToSave
  <2>5. CASE OpenFails(p)
    BY <2>5 DEF OpenFails
  <2>6. CASE code_save_binary(p)
    <3>1. file' \in [1..Parts -> Text \cup {Nothing}]
      BY <2>6 DEF code_save_binary
    <3>2. b_mtim' = now /\ now' = now
      BY <2>6 DEF code_save_binary
    <3>3. at' \in [Proc -> 1..Parts]
      BY <2>6 DEF code_save_binary
    <3>4. Saves' /\ pc' \in [Proc -> {"idle", "load", "parse", "open", "write", "ran", "denied", "syntax", "refused"}]
      BY <2>6 DEF code_save_binary
    <3> QED BY <2>6, <3>1, <3>2, <3>3, <3>4 DEF code_save_binary
  <2>7. CASE WriteFails(p)
    BY <2>7 DEF WriteFails
  <2>8. CASE code_load_binary(p)
    <3>1. Joined(p) \in Text \cup {Nothing, Mixed}
      BY DEF Joined
    <3>2. met' \subseteq Proc
      BY <2>8 DEF code_load_binary
    <3>3. /\ pc' \in [Proc -> {"idle", "load", "parse", "open", "write", "ran", "denied", "syntax", "refused"}]
          /\ text' \in [Proc -> Text \cup {Nothing, Mixed}]
          /\ \A q \in Proc : q # p => pc'[q] = pc[q] /\ text'[q] = text[q]
          /\ pc'[p] \notin {"open", "write"}
      BY <2>8, <3>1 DEF code_load_binary
    <3>4. at' \in [Proc -> 1..Parts]
      BY <2>8 DEF code_load_binary
    <3> QED BY <2>8, <3>2, <3>3, <3>4 DEF code_load_binary
  <2>9. CASE End(p)
    BY <2>9 DEF End, Gone
  <2>10. CASE Crash(p)
    BY <2>10 DEF Crash, Gone, Writing
  <2> QED
    BY <1>3, <2>1, <2>2, <2>3, <2>4, <2>5, <2>6, <2>7, <2>8, <2>9, <2>10 DEF Run
<1>4. CASE UNCHANGED vars
  BY <1>4 DEF vars
<1> QED BY <1>1, <1>2, <1>3, <1>4 DEF Next

LEMMA TypeInit == Init => TypeOK /\ Saves
<1> SUFFICES ASSUME Init PROVE TypeOK /\ Saves
  OBVIOUS
<1> USE ProgramAssumption DEF Init, NoTime
<1>1. now \in Nat /\ s_mtim \in 0..now /\ b_mtim \in {NoTime} \cup 0..now
  OBVIOUS
<1>2. file \in [1..Parts -> Text \cup {Nothing}]
  OBVIOUS
<1>3. at \in [Proc -> 1..Parts]
  OBVIOUS
<1> QED BY <1>1, <1>2, <1>3 DEF TypeOK, Saves

\* The types are right at the beginning and after every step.
THEOREM TypeCorrect == Spec => []TypeOK
<1> DEFINE TInv == TypeOK /\ Saves
<1>1. Init => TInv
  BY TypeInit
<1>2. TInv /\ [Next]_vars => TInv'
  BY TypeStep
<1> QED BY <1>1, <1>2, PTL DEF Spec

-----------------------------------------------------------------------------

\* What a reader joins is the source, when nothing has clashed.
LEMMA JoinsSource ==
  ASSUME TypeOK, Calm, NEW p \in Proc, pc[p] = "load", ~AtEnd(at[p])
  PROVE  Joined(p) = source
<1>1. at[p] \in 1..Parts /\ source \in Text /\ Nothing \notin Text
  BY ProgramAssumption DEF TypeOK
<1>2. file[at[p]] = source
  BY <1>1 DEF Calm, LoadsNewer, Beginning, AtEnd
<1>3. text[p] = IF at[p] = 1 THEN Nothing ELSE source
  BY DEF Calm, HoldsSource
<1> QED BY <1>1, <1>2, <1>3 DEF Joined

LEMMA InvInit == Init => Inv
<1> SUFFICES ASSUME Init PROVE Inv
  OBVIOUS
<1>1. TypeOK
  BY TypeInit
<1>2. Starts /\ Idle /\ RunsTheSource /\ RefusedForACause
  BY ProgramAssumption DEF Init, Starts, Idle, RunsTheSource, RefusedForACause
<1>3. Calm /\ WholeUnlessCut
  BY ProgramAssumption DEF Init, Calm, SeenSource, HoldsSource, OneWriter, LoadsNewer, Beginning,
    Written, WholeUnlessCut, Busy, Writing, misc_file_is_older, NoTime
<1> QED BY <1>1, <1>2, <1>3 DEF Inv

\* An edit in the middle of a run is a clash; otherwise the file becomes old.
LEMMA EditStep == Inv /\ TypeOK' /\ Edit => Inv'
<1> SUFFICES ASSUME Inv, TypeOK', Edit PROVE Inv'
  OBVIOUS
<1>1. Starts' /\ Idle'
  BY DEF Inv, Edit, Starts, Idle
<1>2. ~clash' => ~clash /\ \A p \in Proc : ~Busy(p)
  BY DEF Edit
<1>3. ~misc_file_is_older'
  BY DEF Inv, TypeOK, Edit, cache, misc_file_is_older, NoTime
<1>4. ~clash' => Calm'
  BY <1>2, <1>3 DEF Edit, Calm, SeenSource, HoldsSource, OneWriter, LoadsNewer, Beginning, Written,
    Busy, Writing
<1>5. RunsTheSource' /\ RefusedForACause' /\ WholeUnlessCut'
  BY <1>2, <1>3 DEF Inv, Edit, RunsTheSource, RefusedForACause, WholeUnlessCut
<1> QED BY <1>1, <1>4, <1>5 DEF Inv

LEMMA RunStep ==
  ASSUME Inv, TypeOK', NEW p \in Proc, Run(p)
  PROVE  Inv'
<1> USE DEF author, cache
<1>1. CASE parser_load_file(p)
  <2>1. Starts' /\ Idle'
    BY <1>1 DEF Inv, TypeOK, Starts, Idle, parser_load_file
  <2>2. ~clash' => Calm'
    BY <1>1 DEF Inv, TypeOK, Starts, Idle, parser_load_file, Calm, SeenSource, HoldsSource, OneWriter,
      LoadsNewer, Beginning, Written, Busy, Writing, misc_file_is_older
  <2>3. RunsTheSource' /\ RefusedForACause'
    BY <1>1 DEF Inv, TypeOK, parser_load_file, RunsTheSource, RefusedForACause
  <2>4. WholeUnlessCut'
    BY <1>1 DEF Inv, TypeOK, parser_load_file, WholeUnlessCut, Writing, misc_file_is_older
  <2> QED BY <2>1, <2>2, <2>3, <2>4 DEF Inv
<1>2. CASE NoAccess(p)
  <2>1. Starts' /\ Idle'
    BY <1>2 DEF Inv, TypeOK, Starts, Idle, NoAccess
  <2>2. ~clash' => Calm'
    BY <1>2 DEF Inv, TypeOK, NoAccess, Calm, SeenSource, HoldsSource, OneWriter,
      LoadsNewer, Beginning, Written, Busy, Writing, misc_file_is_older
  <2>3. RunsTheSource' /\ RefusedForACause'
    BY <1>2 DEF Inv, TypeOK, NoAccess, RunsTheSource, RefusedForACause
  <2>4. WholeUnlessCut'
    BY <1>2 DEF Inv, TypeOK, NoAccess, WholeUnlessCut, Writing, misc_file_is_older
  <2> QED BY <2>1, <2>2, <2>3, <2>4 DEF Inv
<1>3. CASE Parse(p)
  <2>1. Starts' /\ Idle'
    BY <1>3, ProgramAssumption DEF Inv, TypeOK, Starts, Idle, Parse
  <2>2. ~clash' => Calm'
    BY <1>3 DEF Inv, TypeOK, Parse, Calm, SeenSource, HoldsSource, OneWriter,
      LoadsNewer, Beginning, Written, Busy, Writing, misc_file_is_older
  <2>3. RunsTheSource' /\ RefusedForACause'
    BY <1>3 DEF Inv, TypeOK, Parse, RunsTheSource, RefusedForACause
  <2>4. WholeUnlessCut'
    BY <1>3 DEF Inv, TypeOK, Parse, WholeUnlessCut, Writing, misc_file_is_older
  <2> QED BY <2>1, <2>2, <2>3, <2>4 DEF Inv
<1>4. CASE OpenToSave(p)
  <2>1. Starts' /\ Idle'
    BY <1>4 DEF Inv, TypeOK, Starts, Idle, OpenToSave
  <2>2. ~clash' => ~clash /\ \A q \in Proc : ~Writing(q)
    BY <1>4 DEF OpenToSave
  <2>3. \A i \in 1..Parts : file'[i] = Nothing
    BY <1>4 DEF OpenToSave
  <2>4. /\ pc' = [pc EXCEPT ![p] = "write"]
        /\ pc[p] = "open" /\ at[p] = 1
        /\ b_mtim' = now /\ s_mtim' = s_mtim
        /\ UNCHANGED <<now, source, saw, text, at, met, cut>>
    BY <1>4 DEF OpenToSave, Inv, Starts
  <2>5. ~clash' => Calm'
    <3> SUFFICES ASSUME ~clash' PROVE Calm'
      OBVIOUS
    <3>1. Calm
      BY <2>2 DEF Inv
    <3>2. SeenSource' /\ HoldsSource'
      BY <2>4, <3>1 DEF Inv, TypeOK, Calm, SeenSource, HoldsSource, Busy
    <3>3. OneWriter'
      BY <2>2, <2>4 DEF Inv, TypeOK, OneWriter, Writing
    <3>4. LoadsNewer'
      BY <2>4, <3>1 DEF Inv, TypeOK, Calm, LoadsNewer, misc_file_is_older, NoTime
    <3>5. Beginning' /\ Written'
      BY <2>2, <2>3, <2>4 DEF Inv, TypeOK, Beginning, Written, Writing
    <3> QED BY <3>2, <3>3, <3>4, <3>5 DEF Calm
  <2>6. RunsTheSource' /\ RefusedForACause'
    BY <2>2, <2>4 DEF Inv, TypeOK, RunsTheSource, RefusedForACause
  <2>7. Writing(p)'
    BY <2>4 DEF Inv, TypeOK, Writing
  <2>8. WholeUnlessCut'
    BY <2>7 DEF WholeUnlessCut
  <2> QED BY <2>1, <2>5, <2>6, <2>8 DEF Inv
<1>5. CASE OpenFails(p)
  <2>1. Starts' /\ Idle'
    BY <1>5 DEF Inv, TypeOK, Starts, Idle, OpenFails
  <2>2. ~clash' => Calm'
    BY <1>5 DEF Inv, TypeOK, OpenFails, Calm, SeenSource, HoldsSource, OneWriter,
      LoadsNewer, Beginning, Written, Busy, Writing, misc_file_is_older
  <2>3. RunsTheSource' /\ RefusedForACause'
    BY <1>5 DEF Inv, TypeOK, OpenFails, RunsTheSource, RefusedForACause, Calm, SeenSource, HoldsSource, Busy
  <2>4. WholeUnlessCut'
    BY <1>5 DEF Inv, TypeOK, OpenFails, WholeUnlessCut, Writing, misc_file_is_older
  <2> QED BY <2>1, <2>2, <2>3, <2>4 DEF Inv
<1>6. CASE code_save_binary(p)
  <2>1. Starts' /\ Idle'
    BY <1>6 DEF Inv, TypeOK, Starts, Idle, code_save_binary
  <2>2. /\ file' = [file EXCEPT ![at[p]] = text[p]]
        /\ b_mtim' = now /\ Writing(p)
        /\ UNCHANGED <<now, source, s_mtim, saw, text, met, clash, cut>>
        /\ at[p] \in 1..Parts
        /\ at[p] = Parts => pc' = [pc EXCEPT ![p] = "ran"] /\ at' = at
        /\ at[p] # Parts => at' = [at EXCEPT ![p] = @ + 1] /\ pc' = pc
    BY <1>6 DEF code_save_binary, Inv, TypeOK, Writing
  <2>3. \A q \in Proc : q # p => pc'[q] = pc[q] /\ at'[q] = at[q]
    BY <2>2 DEF Inv, TypeOK
  <2>4. pc'[p] = IF at[p] = Parts THEN "ran" ELSE "write"
    BY <2>2 DEF Inv, TypeOK, Writing
  <2>5. at'[p] = IF at[p] = Parts THEN Parts ELSE at[p] + 1
    BY <2>2 DEF Inv, TypeOK
  <2>6. ~clash' => Calm'
    <3> SUFFICES ASSUME ~clash' PROVE Calm'
      OBVIOUS
    <3>1. Calm
      BY <2>2 DEF Inv
    <3>2. text[p] = source
      BY <2>2, <3>1 DEF Calm, HoldsSource, Writing
    <3>3. SeenSource' /\ HoldsSource'
      BY <2>2, <2>3, <2>4, <2>5, <3>1 DEF Calm, SeenSource, HoldsSource, Busy, Writing
    <3>4. OneWriter'
      BY <2>2, <2>3, <2>4, <3>1 DEF Calm, OneWriter, Writing
    <3>5. LoadsNewer'
      BY <2>2, <2>3, <2>4, <3>1 DEF Inv, TypeOK, Calm, LoadsNewer, misc_file_is_older, NoTime
    <3>6. \A i \in 1..Parts : file'[i] = IF i = at[p] THEN source ELSE file[i]
      BY <2>2, <3>2 DEF Inv, TypeOK
    <3>7. /\ \A i \in 1..Parts : file[i] \in {source, Nothing}
          /\ \A i, j \in 1..Parts : i <= j /\ file[j] # Nothing => file[i] # Nothing
          /\ \A i \in 1..Parts : i < at[p] => file[i] = source
      BY <2>2, <3>1 DEF Calm, Beginning, Written
    <3>8. source # Nothing
      BY ProgramAssumption DEF Inv, TypeOK
    <3>9. Beginning'
      BY <2>2, <3>6, <3>7, <3>8 DEF Beginning
    <3>10. Written'
      BY <2>2, <2>3, <2>4, <2>5, <3>1, <3>6, <3>7 DEF Calm, OneWriter, Written, Writing
    <3> QED BY <3>3, <3>4, <3>5, <3>9, <3>10 DEF Calm
  <2>7. RunsTheSource'
    <3> SUFFICES ASSUME ~clash, NEW q \in Proc, pc'[q] = "ran" PROVE text[q] = saw[q]
      BY <2>2 DEF RunsTheSource
    <3>1. CASE q = p
      BY <2>2, <3>1 DEF Inv, Calm, SeenSource, HoldsSource, Busy, Writing
    <3>2. CASE q # p
      BY <2>3, <3>2 DEF Inv, RunsTheSource
    <3> QED BY <3>1, <3>2
  <2>8. RefusedForACause'
    BY <2>2, <2>3, <2>4 DEF Inv, RefusedForACause
  <2>9. WholeUnlessCut'
    <3> SUFFICES ASSUME ~clash, at[p] = Parts PROVE \A i \in 1..Parts : file'[i] = source
      BY <2>2, <2>4 DEF WholeUnlessCut, Writing
    <3>1. text[p] = source /\ \A i \in 1..Parts : i < Parts => file[i] = source
      BY <2>2 DEF Inv, Calm, HoldsSource, Written, Writing
    <3> QED BY <2>2, <3>1 DEF Inv, TypeOK
  <2> QED BY <2>1, <2>6, <2>7, <2>8, <2>9 DEF Inv
<1>7. CASE WriteFails(p)
  <2>1. Starts' /\ Idle'
    BY <1>7 DEF Inv, TypeOK, Starts, Idle, WriteFails
  <2>2. ~clash' => Calm'
    BY <1>7 DEF Inv, TypeOK, WriteFails, Calm, SeenSource, HoldsSource, OneWriter,
      LoadsNewer, Beginning, Written, Busy, Writing, misc_file_is_older
  <2>3. RunsTheSource' /\ RefusedForACause' /\ WholeUnlessCut'
    BY <1>7 DEF Inv, TypeOK, WriteFails, RunsTheSource, RefusedForACause, WholeUnlessCut, Calm,
      SeenSource, HoldsSource, Busy
  <2> QED BY <2>1, <2>2, <2>3 DEF Inv
<1>8. CASE code_load_binary(p)
  <2>1. /\ pc[p] = "load" /\ at[p] \in 1..Parts
        /\ UNCHANGED <<now, source, s_mtim, file, b_mtim, saw, clash, cut>>
        /\ \A q \in Proc : q # p => pc'[q] = pc[q] /\ at'[q] = at[q] /\ text'[q] = text[q]
        /\ pc'[p] \in {"load", "ran", "refused"}
        /\ pc'[p] # "refused" => ~AtEnd(at[p])
        /\ pc'[p] = "load" => at'[p] = at[p] + 1 /\ text'[p] = Joined(p)
        /\ pc'[p] = "ran" => text'[p] = Joined(p)
        /\ pc'[p] = "refused" => AtEnd(at[p]) \/ (~AtEnd(at[p]) /\ Joined(p) \in Fielded \cup {Mixed})
        /\ met \subseteq met'
        /\ (\E q \in Proc : Writing(q)) => p \in met'
    BY <1>8 DEF code_load_binary, Inv, TypeOK
  <2>2. Starts' /\ Idle'
    BY <2>1 DEF Inv, Starts, Idle
  <2>3. ~clash /\ ~AtEnd(at[p]) => Joined(p) = source
    BY <2>1, JoinsSource DEF Inv
  <2>4. ~clash' => Calm'
    BY <2>1, <2>3 DEF Inv, Calm, SeenSource, HoldsSource, OneWriter,
      LoadsNewer, Beginning, Written, Busy, Writing, misc_file_is_older
  <2>5. RunsTheSource'
    BY <2>1, <2>3 DEF Inv, Calm, SeenSource, RunsTheSource, Busy
  <2>6. WholeUnlessCut'
    <3>1. \A q \in Proc : Writing(q) => Writing(q)'
      BY <2>1 DEF Writing
    <3> QED BY <2>1, <3>1 DEF Inv, WholeUnlessCut, misc_file_is_older
  <2>7. RefusedForACause'
    <3> SUFFICES ASSUME ~clash, ~cut, pc'[p] = "refused" PROVE saw[p] \in Fielded \/ p \in met'
      BY <2>1 DEF Inv, RefusedForACause
    <3>1. saw[p] = source /\ source \in Text /\ Nothing \notin Text /\ Mixed \notin Text
      BY <2>1, ProgramAssumption DEF Inv, TypeOK, Calm, SeenSource, Busy
    <3>2. CASE AtEnd(at[p])
      <4>1. file[at[p]] # source
        BY <3>1, <3>2 DEF AtEnd
      <4>2. misc_file_is_older
        BY <2>1 DEF Inv, Calm, LoadsNewer
      <4> QED BY <2>1, <4>1, <4>2 DEF Inv, WholeUnlessCut
    <3>3. CASE ~AtEnd(at[p])
      BY <2>1, <2>3, <3>1, <3>3
    <3> QED BY <3>2, <3>3
  <2> QED BY <2>2, <2>4, <2>5, <2>6, <2>7 DEF Inv
<1>9. CASE End(p) \/ Crash(p)
  <2>1. /\ pc' = [pc EXCEPT ![p] = "idle"]
        /\ saw' = [saw EXCEPT ![p] = Nothing]
        /\ text' = [text EXCEPT ![p] = Nothing]
        /\ at' = [at EXCEPT ![p] = 1]
        /\ met' = met \ {p}
        /\ UNCHANGED <<now, source, s_mtim, file, b_mtim, clash>>
    BY <1>9 DEF End, Crash, Gone
  <2>2. (Writing(p) => cut') /\ (cut => cut')
    <3>1. CASE End(p)
      BY <3>1 DEF End, Writing
    <3>2. CASE Crash(p)
      BY <3>2, Zenon DEF Crash
    <3> QED BY <1>9, <3>1, <3>2
  <2>3. Starts' /\ Idle'
    BY <2>1, ProgramAssumption DEF Inv, TypeOK, Starts, Idle
  <2>4. ~clash' => Calm'
    BY <2>1 DEF Inv, TypeOK, Calm, SeenSource, HoldsSource, OneWriter,
      LoadsNewer, Beginning, Written, Busy, Writing, misc_file_is_older
  <2>5. RunsTheSource' /\ RefusedForACause'
    BY <2>1, <2>2 DEF Inv, TypeOK, RunsTheSource, RefusedForACause
  <2>6. WholeUnlessCut'
    BY <2>1, <2>2 DEF Inv, TypeOK, WholeUnlessCut, Writing, misc_file_is_older
  <2> QED BY <2>3, <2>4, <2>5, <2>6 DEF Inv
<1> QED BY <1>1, <1>2, <1>3, <1>4, <1>5, <1>6, <1>7, <1>8, <1>9 DEF Run

LEMMA InvStep == Inv /\ TypeOK' /\ [Next]_vars => Inv'
<1> SUFFICES ASSUME Inv, TypeOK', [Next]_vars PROVE Inv'
  OBVIOUS
<1>1. CASE Edit
  BY <1>1, EditStep
<1>2. CASE Tick
  BY <1>2 DEF Tick, cache, Inv, Starts, Idle, Calm, SeenSource, HoldsSource, OneWriter, LoadsNewer,
    Beginning, Written, RunsTheSource, WholeUnlessCut, RefusedForACause, Busy, Writing, misc_file_is_older
<1>3. ASSUME NEW p \in Proc, Run(p) PROVE Inv'
  BY <1>3, RunStep
<1>4. CASE UNCHANGED vars
  BY <1>4 DEF vars, Inv, Starts, Idle, Calm, SeenSource, HoldsSource, OneWriter, LoadsNewer,
    Beginning, Written, RunsTheSource, WholeUnlessCut, RefusedForACause, Busy, Writing, misc_file_is_older
<1> QED BY <1>1, <1>2, <1>3, <1>4 DEF Next

LEMMA Invariance == Spec => []Inv
<1>1. Spec => []TypeOK
  BY TypeCorrect
<1> QED BY <1>1, InvInit, InvStep, PTL DEF Spec

\* What runs is the source as the run found it.
THEOREM SourceRuns == Spec => []RunsTheSource
BY Invariance, PTL DEF Inv

\* Without a cut, the file is complete whenever it counts as newer and nobody writes.
THEOREM FileWhole == Spec => []WholeUnlessCut
BY Invariance, PTL DEF Inv

\* A refusal has one of the three causes.
THEOREM RefusalHasCause == Spec => []RefusedForACause
BY Invariance, PTL DEF Inv

\* A broken file survives every step that is not the author's or a writer's.
THEOREM NoWayBack == Spec => BrokenStays
<1>1. TypeOK /\ [Next]_vars =>
        [Broken /\ (\A p \in Proc : pc[p] \notin {"parse", "open", "write"}) =>
           Broken' \/ s_mtim' = now]_vars
  <2> SUFFICES ASSUME Next, Broken, \A p \in Proc : pc[p] \notin {"parse", "open", "write"}
               PROVE  Broken' \/ s_mtim' = now
    OBVIOUS
  <2>1. CASE Edit
    BY <2>1 DEF Edit
  <2>2. CASE Tick
    BY <2>2 DEF Tick, cache, Broken, misc_file_is_older
  <2>3. ASSUME NEW p \in Proc, Run(p) PROVE UNCHANGED <<file, b_mtim, s_mtim>>
    BY <2>3 DEF Run, parser_load_file, NoAccess, Parse, OpenToSave, OpenFails, code_save_binary,
      WriteFails, code_load_binary, End, Crash, Gone, author, cache
  <2> QED BY <2>1, <2>2, <2>3 DEF Next, Broken, misc_file_is_older
<1>2. Spec => []TypeOK
  BY TypeCorrect
<1> QED BY <1>1, <1>2, PTL DEF Spec, BrokenStays

=============================================================================
