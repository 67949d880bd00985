------------------------------ MODULE Program ------------------------------
(***************************************************************************)
(* The ".b" file as a cache of the compiler: parser_load_file of           *)
(* parser.c, with parser_check_binary, and code_save_binary and            *)
(* code_load_binary of code.c as they meet the file system.  Several koa   *)
(* processes run one source file, which its author edits.                  *)
(*                                                                         *)
(* A text stands for its compiled program too.  The file is written and    *)
(* read in parts, by the buffers of stdio; Binary shows what this module   *)
(* takes from the contents: a complete file gives back its program, but    *)
(* for the texts in Fielded, and a beginning of it is refused.             *)
(***************************************************************************)
EXTENDS Integers

CONSTANTS
  Proc,     \* koa processes
  Text,     \* what the source file may say
  Bad,      \* texts that do not compile
  Fielded,  \* texts with a field in a struct or union
  Parts,    \* parts of a ".b" file
  MaxTime,  \* bound: ticks of the clock of the file system
  Nothing,  \* beyond the end of the file
  Mixed     \* made of parts of different texts

ASSUME ProgramAssumption ==
  /\ Bad \subseteq Text
  /\ Fielded \subseteq Text
  /\ Parts \in Nat \ {0}
  /\ MaxTime \in Nat
  /\ Nothing \notin Text
  /\ Mixed \notin Text \cup {Nothing}

VARIABLES
  now,      \* the clock
  source,   \* the text of the source file
  s_mtim,   \* its time of modification
  file,     \* the parts of the ".b" file
  b_mtim,   \* its time of modification, NoTime without a file
  pc,       \* where each process is
  saw,      \* the source when the process started
  text,     \* the text that it compiles, or the one it has read so far
  at,       \* the part that it writes or reads next
  met,      \* the processes that read the file while another wrote it
  clash,    \* the author saved in the middle of a run, or two processes wrote
  cut       \* a process left the file before its end

vars == <<now, source, s_mtim, file, b_mtim, pc, saw, text, at, met, clash, cut>>
cache == <<file, b_mtim>>
author == <<now, source, s_mtim>>

NoTime == -1

\* Mutant: a file of the same tick counts as newer.
file_not_older == b_mtim >= s_mtim

\* misc_file_is_older: the clock may not have moved between two writes, and then
\* the file does not count as newer.
misc_file_is_older == b_mtim > s_mtim

Busy(p) == pc[p] \in {"load", "parse", "open", "write"}
Writing(p) == pc[p] = "write"

TypeOK ==
  /\ now \in Nat /\ s_mtim \in 0..now /\ b_mtim \in {NoTime} \cup 0..now
  /\ source \in Text
  /\ file \in [1..Parts -> Text \cup {Nothing}]
  /\ pc \in [Proc -> {"idle", "load", "parse", "open", "write", "ran", "denied", "syntax", "refused"}]
  /\ saw \in [Proc -> Text \cup {Nothing}]
  /\ text \in [Proc -> Text \cup {Nothing, Mixed}]
  /\ at \in [Proc -> 1..Parts]
  /\ met \subseteq Proc
  /\ clash \in BOOLEAN /\ cut \in BOOLEAN

Init ==
  /\ now = 0
  /\ source \in Text /\ s_mtim = 0
  /\ file = [i \in 1..Parts |-> Nothing] /\ b_mtim = NoTime
  /\ pc = [p \in Proc |-> "idle"]
  /\ saw = [p \in Proc |-> Nothing]
  /\ text = [p \in Proc |-> Nothing]
  /\ at = [p \in Proc |-> 1]
  /\ met = {}
  /\ clash = FALSE /\ cut = FALSE

-----------------------------------------------------------------------------
(* One run of koa.                                                           *)

\* Up to the choice by bin_stat.
parser_load_file(p) ==
  /\ pc[p] = "idle"
  /\ pc' = [pc EXCEPT ![p] = IF misc_file_is_older THEN "load" ELSE "parse"]
  /\ saw' = [saw EXCEPT ![p] = source]
  /\ UNCHANGED <<author, cache, text, at, met, clash, cut>>

\* No access to the source, or to a ".b" file that is there.
NoAccess(p) ==
  /\ pc[p] = "idle"
  /\ pc' = [pc EXCEPT ![p] = "denied"]
  /\ UNCHANGED <<author, cache, saw, text, at, met, clash, cut>>

\* Mutant: the ".b" file is opened before the parser knows that it can be written.
parse_opens_first(p) ==
  /\ pc[p] = "parse"
  /\ text' = [text EXCEPT ![p] = source]
  /\ pc' = [pc EXCEPT ![p] = IF source \in Bad THEN "syntax" ELSE "open"]
  /\ file' = [i \in 1..Parts |-> Nothing]
  /\ b_mtim' = now
  /\ UNCHANGED <<author, saw, at, met, clash, cut>>

\* The source is opened and parsed.
Parse(p) ==
  /\ pc[p] = "parse"
  /\ text' = [text EXCEPT ![p] = source]
  /\ pc' = [pc EXCEPT ![p] = IF source \in Bad THEN "syntax" ELSE "open"]
  /\ UNCHANGED <<author, cache, saw, at, met, clash, cut>>

\* fopen with "wb" empties the file; two processes may do so and write on, each at
\* its own place.
OpenToSave(p) ==
  /\ pc[p] = "open"
  /\ file' = [i \in 1..Parts |-> Nothing]
  /\ b_mtim' = now
  /\ pc' = [pc EXCEPT ![p] = "write"]
  /\ clash' = (clash \/ \E q \in Proc : Writing(q))
  /\ UNCHANGED <<author, saw, text, at, met, cut>>

\* The caller does not look at the result of code_save_binary: the program runs.
OpenFails(p) ==
  /\ pc[p] = "open"
  /\ pc' = [pc EXCEPT ![p] = "ran"]
  /\ UNCHANGED <<author, cache, saw, text, at, met, clash, cut>>

\* Mutant: the last part stays in the buffer.
save_unflushed(p) ==
  /\ pc[p] = "write"
  /\ file' = IF at[p] = Parts THEN file ELSE [file EXCEPT ![at[p]] = text[p]]
  /\ b_mtim' = now
  /\ IF at[p] = Parts
       THEN pc' = [pc EXCEPT ![p] = "ran"] /\ at' = at
       ELSE at' = [at EXCEPT ![p] = @ + 1] /\ pc' = pc
  /\ UNCHANGED <<author, saw, text, met, clash, cut>>

\* Mutant: the last part is not the end.
save_beyond(p) ==
  /\ pc[p] = "write"
  /\ file' = [file EXCEPT ![at[p]] = text[p]]
  /\ b_mtim' = now
  /\ IF at[p] > Parts
       THEN pc' = [pc EXCEPT ![p] = "ran"] /\ at' = at
       ELSE at' = [at EXCEPT ![p] = @ + 1] /\ pc' = pc
  /\ UNCHANGED <<author, saw, text, met, clash, cut>>

code_save_binary(p) ==
  /\ pc[p] = "write"
  /\ file' = [file EXCEPT ![at[p]] = text[p]]
  /\ b_mtim' = now
  /\ IF at[p] = Parts
       THEN pc' = [pc EXCEPT ![p] = "ran"] /\ at' = at
       ELSE at' = [at EXCEPT ![p] = @ + 1] /\ pc' = pc
  /\ UNCHANGED <<author, saw, text, met, clash, cut>>

\* fwrite writes less than it was given; the file stays as it is.
WriteFails(p) ==
  /\ pc[p] = "write"
  /\ pc' = [pc EXCEPT ![p] = "ran"]
  /\ cut' = TRUE
  /\ UNCHANGED <<author, cache, saw, text, at, met, clash>>

\* The end of the file before the end of the program; a part that was jumped over
\* reads as zeros instead, which no header is.
AtEnd(i) == file[i] = Nothing /\ (i = 1 \/ \A j \in i..Parts : file[j] = Nothing)

Joined(p) ==
  LET t == IF file[at[p]] = Nothing THEN Mixed ELSE file[at[p]]
  IN  IF at[p] = 1 \/ text[p] = t THEN t ELSE Mixed

\* Mutant: a file that cannot be read is removed.
load_unlinks(p) ==
  /\ pc[p] = "load"
  /\ AtEnd(at[p])
  /\ pc' = [pc EXCEPT ![p] = "refused"]
  /\ b_mtim' = NoTime
  /\ UNCHANGED <<author, file, saw, text, at, met, clash, cut>>

code_load_binary(p) ==
  /\ pc[p] = "load"
  /\ met' = IF \E q \in Proc : Writing(q) THEN met \cup {p} ELSE met
  /\ \/ /\ AtEnd(at[p])
        /\ pc' = [pc EXCEPT ![p] = "refused"]
        /\ UNCHANGED <<text, at>>
     \/ /\ ~AtEnd(at[p])
        /\ text' = [text EXCEPT ![p] = Joined(p)]
        /\ \/ at[p] < Parts /\ at' = [at EXCEPT ![p] = @ + 1] /\ pc' = pc
           \/ /\ at[p] = Parts /\ at' = at
              /\ Joined(p) \notin Fielded
              /\ pc' = [pc EXCEPT ![p] = "ran"]
           \/ /\ at[p] = Parts /\ at' = at
              /\ Joined(p) \in Fielded \cup {Mixed}
              /\ pc' = [pc EXCEPT ![p] = "refused"]
  /\ UNCHANGED <<author, cache, saw, clash, cut>>

Gone(p) ==
  /\ pc' = [pc EXCEPT ![p] = "idle"]
  /\ saw' = [saw EXCEPT ![p] = Nothing]
  /\ text' = [text EXCEPT ![p] = Nothing]
  /\ at' = [at EXCEPT ![p] = 1]
  /\ met' = met \ {p}
  /\ UNCHANGED <<author, cache, clash>>

\* The program has run, or the error was printed.
End(p) ==
  /\ pc[p] \in {"ran", "denied", "syntax", "refused"}
  /\ Gone(p)
  /\ UNCHANGED cut

\* The process is killed.
Crash(p) ==
  /\ Busy(p)
  /\ Gone(p)
  /\ cut' = (cut \/ Writing(p))

-----------------------------------------------------------------------------
(* The author, and time.                                                     *)

Edit ==
  /\ source' \in Text
  /\ s_mtim' = now
  /\ clash' = (clash \/ \E p \in Proc : Busy(p))
  /\ UNCHANGED <<now, cache, pc, saw, text, at, met, cut>>

Tick ==
  /\ now < MaxTime
  /\ now' = now + 1
  /\ UNCHANGED <<source, s_mtim, cache, pc, saw, text, at, met, clash, cut>>

Run(p) ==
  \/ parser_load_file(p) \/ NoAccess(p) \/ Parse(p) \/ OpenToSave(p) \/ OpenFails(p)
  \/ code_save_binary(p) \/ WriteFails(p) \/ code_load_binary(p) \/ End(p) \/ Crash(p)

Next == Edit \/ Tick \/ \E p \in Proc : Run(p)

Spec == Init /\ [][Next]_vars

-----------------------------------------------------------------------------
(* Properties.                                                               *)

\* Whether it was compiled or loaded, what runs is the source as it was when the
\* run started, after any edits, crashes and failed writes and with readers beside
\* a writer, unless an edit fell into a run or two processes wrote at once.
RunsTheSource ==
  ~clash => \A p \in Proc : pc[p] = "ran" => text[p] = saw[p]

\* A file that is newer than the source and that nobody writes is complete, unless
\* a process was stopped while it wrote.
WholeUnlessCut ==
  ~clash /\ ~cut /\ misc_file_is_older /\ (\A p \in Proc : ~Writing(p)) =>
    \A i \in 1..Parts : file[i] = source

\* A source that compiles is refused for one of three reasons only: fields, a file
\* cut short, or another process that was writing it just then.
RefusedForACause ==
  ~clash /\ ~cut => \A p \in Proc : pc[p] = "refused" => saw[p] \in Fielded \/ p \in met

\* Newer than the source, and not a program.
Broken == misc_file_is_older /\ \E i \in 1..Parts : file[i] = Nothing

\* There is no way back from a broken file to the source: whoever runs the program
\* fails, and the file stays as it is until the author saves again.
BrokenStays ==
  [][Broken /\ (\A p \in Proc : pc[p] \notin {"parse", "open", "write"}) =>
       Broken' \/ s_mtim' = now]_vars

=============================================================================
