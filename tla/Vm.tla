--------------------------------- MODULE Vm ---------------------------------
(***************************************************************************)
(* The stack machine: frames and their blocks (frame.c), the operand stack *)
(* (stack.c), the activations of interpreter_play and what an error does   *)
(* to all three (interpreter.c).  The program is any table of code; values *)
(* are abstract, so a condition may go either way and an operation that    *)
(* can report an error may do so.                                          *)
(*                                                                         *)
(* One step is one opcode, or the tail of OP_CALL_FUNC after the callee's  *)
(* interpreter_play returned 0.                                            *)
(***************************************************************************)
EXTENDS Integers, Sequences, FiniteSets

CONSTANTS
    Codes,      \* the programs: tables function name -> [ops, args, void]
    Global,     \* the name of the top-level code
    NULL

OpcodeSet == [op : STRING, para : Nat, name : STRING]

ASSUME CodesAssumption ==
    \A c \in Codes :
        /\ Global \in DOMAIN c
        /\ \A f \in DOMAIN c :
              /\ f \in STRING
              /\ c[f].args \in BOOLEAN /\ c[f].void \in BOOLEAN
              /\ c[f].ops \in Seq(OpcodeSet)

VARIABLES
    code,    \* the program that runs
    frames,  \* g_current and its uppers, innermost first
    g_s,     \* the operand stack, top last
    plays,   \* the code parameter of the running interpreter_plays, innermost first
    status   \* see Statuses

vars == <<code, frames, g_s, plays, status>>

(***************************************************************************)
(* "run": the innermost interpreter_play runs; "failed": the interpreter_- *)
(* play that OP_CALL_FUNC called has returned 0; "ended": the outermost    *)
(* one has returned; "crashed": a NULL was dereferenced.                   *)
(***************************************************************************)
Statuses == {"run", "failed", "ended", "crashed"}

(***************************************************************************)
(* Values, told apart as far as the control flow does.                     *)
(***************************************************************************)
Value(type, of, at) == [type |-> type, of |-> of, at |-> at]
Obj == Value("obj", NULL, 0)
Vec == Value("vec", NULL, 0)
Func(f) == Value("func", f, 0)
Exception(f, at) == Value("exception", f, at)

Current == Head(frames)
TopBlock(f) == Head(f.blocks)
Drop(s, n) == SubSeq(s, 1, Len(s) - n)
Cut(s, n) == IF Len(s) > n THEN SubSeq(s, 1, n) ELSE s

(***************************************************************************)
(* frame.c                                                                 *)
(***************************************************************************)
IsCatched(blocks) == blocks # <<>> /\ Head(blocks).catched

\* Mutant: a block inside a try is not marked.
enter_block_uncaught(f, out, bottom) ==
    [f EXCEPT !.blocks = <<[out |-> out, bottom |-> bottom, catched |-> out > 0]>> \o @]

frame_enter_block(f, out, bottom) ==
    [f EXCEPT !.blocks = <<[out |-> out, bottom |-> bottom,
                            catched |-> out > 0 \/ IsCatched(@)]>> \o @]

frame_leave_block(f) == [f EXCEPT !.blocks = Tail(@)]

\* Mutant: the exception of a new frame is whatever the cell held.
frame_new_uncleared(c, bottom) ==
    frame_enter_block([code |-> c, esp |-> 0, bottom |-> bottom, blocks |-> <<>>,
                       exception |-> Value("uncleared", "", 0)], 0, bottom)

frame_new(c, bottom) ==
    frame_enter_block([code |-> c, esp |-> 0, bottom |-> bottom,
                       blocks |-> <<>>, exception |-> NULL], 0, bottom)

\* Mutant: an exception that is already there is kept.
frame_set_exception_once(f, e) ==
    IF f.exception = NULL THEN [f EXCEPT !.exception = e] ELSE f

frame_set_exception(f, e) == [f EXCEPT !.exception = e]

(***************************************************************************)
(* Leaves blocks up to and including the innermost one entered by a try,   *)
(* and continues behind the LEAVE_BLOCK of its body.                       *)
(***************************************************************************)
InnermostTry(f) ==
    CHOOSE i \in DOMAIN f.blocks :
        f.blocks[i].out > 0 /\ \A j \in 1 .. i - 1 : f.blocks[j].out = 0

\* Mutant: the block of the try stays.
recover_block_kept(f) ==
    LET i == InnermostTry(f)
    IN  [f EXCEPT !.esp = f.blocks[i].out + 1,
                  !.blocks = SubSeq(f.blocks, i, Len(f.blocks))]

frame_recover_exception(f) ==
    LET i == InnermostTry(f)
    IN  [f EXCEPT !.esp = f.blocks[i].out + 1,
                  !.blocks = SubSeq(f.blocks, i + 1, Len(f.blocks))]

(***************************************************************************)
(* Error handling, on a pair m of frames and operand stack.                *)
(***************************************************************************)
Machine(fs, s) == [frames |-> fs, g_s |-> s]

(***************************************************************************)
(* Dereferences g_current and its current block.                           *)
(***************************************************************************)
Dangling(m) == m.frames = <<>> \/ Head(m.frames).blocks = <<>>

interpreter_stack_rollback(s, bottom) == Cut(s, bottom + 1)

(***************************************************************************)
(* A frame inside a try remembers the exception.  Any other frame is left  *)
(* with the exception as the one value above its bottom.                   *)
(***************************************************************************)
interpreter_set_exception(m, e) ==
    LET f == Head(m.frames)
        s == IF Len(m.g_s) <= f.bottom
             THEN Append(m.g_s, e)
             ELSE [m.g_s EXCEPT ![f.bottom + 1] = e]
    IN  IF TopBlock(f).catched
        THEN [m EXCEPT !.frames = <<frame_set_exception(f, e)>> \o Tail(@)]
        ELSE Machine(Tail(m.frames), interpreter_stack_rollback(s, f.bottom))

Recoverable(m) == m.frames # <<>> /\ IsCatched(Head(m.frames).blocks)

\* Mutant: the operands of the failed expression stay.
recover_no_rollback(m) ==
    LET top == m.g_s[Len(m.g_s)]
        thrown == m.g_s # <<>> /\ top.type = "exception"
        f == IF thrown THEN frame_set_exception(Head(m.frames), top) ELSE Head(m.frames)
    IN  Machine(<<frame_recover_exception(f)>> \o Tail(m.frames), m.g_s)

interpreter_recover_exception(m) ==
    LET top == m.g_s[Len(m.g_s)]
        thrown == m.g_s # <<>> /\ top.type = "exception"
        f == IF thrown THEN frame_set_exception(Head(m.frames), top) ELSE Head(m.frames)
    IN  Machine(<<frame_recover_exception(f)>> \o Tail(m.frames),
                Cut(m.g_s, f.blocks[InnermostTry(f)].bottom))

(***************************************************************************)
(* Ways a step may end.                                                    *)
(***************************************************************************)
Crash == status' = "crashed" /\ UNCHANGED <<code, frames, g_s, plays>>

Becomes(m) == frames' = m.frames /\ g_s' = m.g_s

Continue(m) ==
    Becomes(m) /\ status' = "run" /\ UNCHANGED <<code, plays>>

PlayReturns(m, result) ==
    /\ Becomes(m)
    /\ plays' = Tail(plays)
    /\ status' = IF Tail(plays) = <<>> THEN "ended"
                 ELSE IF result = 1 THEN "run" ELSE "failed"
    /\ UNCHANGED code

HANDLE_EXCEPTION(m) ==
    \/ Recoverable(m) /\ Continue(interpreter_recover_exception(m))
    \/ m.frames # <<>> /\ Dangling(m) /\ Crash
    \/ /\ m.frames = <<>> \/ ~Dangling(m)
       /\ ~Recoverable(m)
       /\ PlayReturns(m, 0)

Here == Exception(Current.code, Current.esp)

(***************************************************************************)
(* error () in the opcode at hand, then HANDLE_EXCEPTION.                  *)
(***************************************************************************)
Fail(m) ==
    \/ Dangling(m) /\ Crash
    \/ ~Dangling(m) /\ HANDLE_EXCEPTION(interpreter_set_exception(m, Here))

(***************************************************************************)
(* frame_next_opcode reads the frame's code, the handlers read the tables  *)
(* of the code parameter of the running interpreter_play.                  *)
(***************************************************************************)
Ops(f) == code[f.code].ops
AtOpcode(op) ==
    /\ status = "run" /\ frames # <<>>
    /\ Current.esp < Len(Ops(Current))
    /\ Ops(Current)[Current.esp + 1].op = op
Opcode == Ops(Current)[Current.esp + 1]
OwnTables == Head(plays) = Current.code

Advanced == [Current EXCEPT !.esp = @ + 1]
With(f, s) == Machine(<<f>> \o Tail(frames), s)
Next1(s) == With(Advanced, s)

(***************************************************************************)
(* Opcodes.                                                                *)
(***************************************************************************)
LoadConst ==
    /\ AtOpcode("LOAD_CONST")
    /\ \/ Continue(Next1(Append(g_s, IF Opcode.name = "" THEN Obj ELSE Func(Opcode.name))))
       \/ ~OwnTables /\ HANDLE_EXCEPTION(Next1(g_s))  \* beyond that code's constants

(***************************************************************************)
(* A function's name is always defined, any other may not be.              *)
(***************************************************************************)
LoadVar ==
    /\ AtOpcode("LOAD_VAR")
    /\ \/ /\ OwnTables
          /\ IF Opcode.name \in DOMAIN code
             THEN Continue(Next1(Append(g_s, Func(Opcode.name))))
             ELSE Continue(Next1(Append(g_s, Obj))) \/ Fail(Next1(g_s))
       \/ ~OwnTables /\ (Crash \/ Fail(Next1(g_s)))

Add ==
    /\ AtOpcode("ADD")
    /\ \/ Continue(Next1(Append(Drop(g_s, 2), Obj)))
       \/ Fail(Next1(Drop(g_s, 2)))

MakeVec ==
    /\ AtOpcode("MAKE_VEC")
    /\ Continue(Next1(Append(Drop(g_s, Opcode.para), Vec)))

PopStack == AtOpcode("POP_STACK") /\ Continue(Next1(Drop(g_s, 1)))

(***************************************************************************)
(* The value is cast to the declared type, which can fail; another code's  *)
(* table may have no such name.                                            *)
(***************************************************************************)
StoreLocal ==
    /\ AtOpcode("STORE_LOCAL")
    /\ \/ Continue(Next1(Drop(g_s, 1)))
       \/ Fail(Next1(Drop(g_s, 1)))
       \/ ~OwnTables /\ Crash

(***************************************************************************)
(* The callee is on top of the stack, or under the vec of its arguments;   *)
(* its frame's bottom is the stack pointer, the vec included.              *)
(***************************************************************************)
Top(s) == s[Len(s)]
HasArgs == Top(g_s).type = "vec"
Callee == IF HasArgs THEN g_s[Len(g_s) - 1] ELSE Top(g_s)
Passed == IF HasArgs THEN Append(Drop(g_s, 2), Vec) ELSE Drop(g_s, 1)
frame_last_opcode == Ops(Current)[Current.esp]

IsFunc(v) == v \in {Func(f) : f \in DOMAIN code}

CallFunc ==
    /\ AtOpcode("CALL_FUNC")
    /\ \/ ~IsFunc(Callee) /\ Fail(Next1(Drop(g_s, IF HasArgs THEN 2 ELSE 1)))
       \/ \E f \in DOMAIN code :
             /\ Callee = Func(f)
             /\ frame_last_opcode.op = "MAKE_VEC" /\ ~code[f].args
             /\ Fail(Next1(Passed))
       \/ \E f \in DOMAIN code :
             /\ Callee = Func(f)
             /\ frame_last_opcode.op = "MAKE_VEC" => code[f].args
             /\ frames' = <<frame_new(f, Len(Passed)), Advanced>> \o Tail(frames)
             /\ g_s' = Passed
             /\ plays' = <<f>> \o plays
             /\ UNCHANGED <<code, status>>

(***************************************************************************)
(* The rest of OP_CALL_FUNC once the callee's interpreter_play returned 0: *)
(* the exception is moved to the bottom of g_current, which stays.         *)
(***************************************************************************)
PlayFailed ==
    /\ status = "failed" /\ frames # <<>>
    /\ LET f == Current
           s == Drop(g_s, 1)
           moved == IF f.bottom < Len(s) THEN [s EXCEPT ![f.bottom + 1] = Top(g_s)] ELSE s
           kept == IF ~TopBlock(f).catched /\ Len(g_s) # f.bottom + 1
                   THEN interpreter_stack_rollback(moved, f.bottom)
                   ELSE g_s
       IN  HANDLE_EXCEPTION(Machine(frames, kept))

BindArgs ==
    /\ AtOpcode("BIND_ARGS")
    /\ \/ g_s = <<>> /\ Crash
       \/ g_s # <<>> /\ Fail(Next1(Drop(g_s, 1)))
       \/ g_s # <<>> /\ Top(g_s).type = "vec" /\ Continue(Next1(Drop(g_s, 1)))

EnterBlock ==
    /\ AtOpcode("ENTER_BLOCK")
    /\ Continue(With(frame_enter_block(Advanced, Opcode.para, Len(g_s)), g_s))

LeaveBlock ==
    /\ AtOpcode("LEAVE_BLOCK")
    /\ \/ Current.blocks = <<>> /\ Crash
       \/ Current.blocks # <<>> /\ Continue(With(frame_leave_block(Advanced), g_s))

\* frame_enter_block n times, for no try.
Entered(f, n, bottom) ==
    LET b == [out |-> 0, bottom |-> bottom, catched |-> IsCatched(f.blocks)]
    IN  [f EXCEPT !.blocks = [i \in 1 .. n |-> b] \o @]

PushBlocks ==
    /\ AtOpcode("PUSH_BLOCKS")
    /\ Continue(With(Entered(Advanced, Opcode.para, Len(g_s)), g_s))

PopBlocks ==
    /\ AtOpcode("POP_BLOCKS")
    /\ \/ Opcode.para > Len(Current.blocks) /\ Crash
       \/ /\ Opcode.para <= Len(Current.blocks)
          /\ Continue(With([Advanced EXCEPT
                               !.blocks = SubSeq(@, Opcode.para + 1, Len(@))], g_s))

frame_jump(f, pos) == [f EXCEPT !.esp = pos]

Jumps == {"JUMP_FORCE", "JUMP_CONTINUE", "JUMP_BREAK"}

Jump ==
    \E op \in Jumps :
        AtOpcode(op) /\ Continue(With(frame_jump(Advanced, Opcode.para), g_s))

JumpIf ==
    \E op \in {"JUMP_TRUE", "JUMP_FALSE"} :
        /\ AtOpcode(op)
        /\ \/ Continue(Next1(Drop(g_s, 1)))
           \/ Continue(With(frame_jump(Advanced, Opcode.para), Drop(g_s, 1)))

(***************************************************************************)
(* The value of the switch stays on the stack until a label is taken.      *)
(***************************************************************************)
JumpCase ==
    /\ AtOpcode("JUMP_CASE")
    /\ \/ Continue(With(frame_jump(Advanced, Opcode.para), Drop(g_s, 1)))
       \/ Continue(Next1(Drop(g_s, 2)))
       \/ Fail(Next1(Drop(g_s, 2)))

JumpDefault ==
    /\ AtOpcode("JUMP_DEFAULT")
    /\ Continue(With(frame_jump(Advanced, Opcode.para), Drop(g_s, 1)))

(***************************************************************************)
(* Counts a reference on the frame's exception, whether there is one.      *)
(***************************************************************************)
StoreException ==
    /\ AtOpcode("STORE_EXCEPTION")
    /\ \/ (Current.exception = NULL \/ ~OwnTables) /\ Crash
       \/ Current.exception # NULL /\ Continue(Next1(g_s))

(***************************************************************************)
(* The result is cast to the type of that code's results, which can fail;  *)
(* void code returns the void object.                                      *)
(***************************************************************************)
Return ==
    /\ AtOpcode("RETURN")
    /\ \/ PlayReturns(Machine(Tail(frames), g_s), 1)
       \/ (~OwnTables \/ ~code[Current.code].void) /\ Fail(Next1(Drop(g_s, 1)))

EndProgram ==
    AtOpcode("END_PROGRAM") /\ PlayReturns(Machine(Tail(frames), g_s), 1)

(***************************************************************************)
(* Past the last opcode frame_next_opcode gives OP_UNKNOWN, which ends the *)
(* loop: interpreter_play returns 1 and the frame stays.                   *)
(***************************************************************************)
FallOff ==
    /\ status = "run" /\ frames # <<>>
    /\ Current.esp >= Len(Ops(Current))
    /\ PlayReturns(Machine(frames, g_s), 1)

\* Both the loop and the tail of OP_CALL_FUNC dereference g_current.
NoFrame == status \in {"run", "failed"} /\ frames = <<>> /\ Crash

Init ==
    /\ code \in Codes
    /\ frames = <<frame_new(Global, 0)>>
    /\ g_s = <<>>
    /\ plays = <<Global>>
    /\ status = "run"

Next ==
    \/ LoadConst \/ LoadVar \/ Add \/ MakeVec \/ PopStack \/ StoreLocal
    \/ CallFunc \/ PlayFailed \/ BindArgs
    \/ EnterBlock \/ LeaveBlock \/ PushBlocks \/ PopBlocks
    \/ Jump \/ JumpIf \/ JumpCase \/ JumpDefault
    \/ StoreException \/ Return \/ EndProgram \/ FallOff \/ NoFrame

Spec == Init /\ [][Next]_vars

(***************************************************************************)
(* The interpreter is one loop of one thread: while it can take a step it  *)
(* does.                                                                   *)
(***************************************************************************)
FairSpec == Spec /\ WF_vars(Next)

-----------------------------------------------------------------------------
(***************************************************************************)
(* Properties.                                                             *)
(***************************************************************************)
ValueSet ==
    [type : {"obj", "vec", "func", "exception"},
     of : STRING \cup {NULL}, at : Nat]

BlockSet == [out : Nat, bottom : Nat, catched : BOOLEAN]

FrameSet ==
    [code : DOMAIN code, esp : Nat, bottom : Nat, blocks : Seq(BlockSet),
     exception : ValueSet \cup {NULL}]

\* The machine's state has its types: every frame runs a function of the
\* program, every block and stack position is a natural number (frame.h,
\* stack.h).
TypeOK ==
    /\ frames \in Seq(FrameSet)
    /\ g_s \in Seq(ValueSet)
    /\ plays \in Seq(DOMAIN code)
    /\ status \in Statuses

CatchedIn(f) ==
    \A i \in DOMAIN f.blocks :
        f.blocks[i].catched
            <=> \E j \in i .. Len(f.blocks) : f.blocks[j].out > 0

\* The flag catched of a block, which alone decides whether an error is
\* handled in its frame, is set exactly when the block or one around it in
\* the same frame was entered by a try (frame_enter_block): then the loop of
\* frame_recover_exception finds a block to stop at.
CatchedExact == \A k \in DOMAIN frames : CatchedIn(frames[k])

(***************************************************************************)
(* The nesting of a code's text: the ENTER_BLOCKs (as indices from 1) that *)
(* are not closed before position p.                                       *)
(***************************************************************************)
Count(ops, op, m, n) == Cardinality({i \in m .. n : ops[i].op = op})

Open(ops, p) ==
    {e \in 1 .. p :
        /\ ops[e].op = "ENTER_BLOCK"
        /\ \A q \in e .. p :
              Count(ops, "ENTER_BLOCK", e, q) > Count(ops, "LEAVE_BLOCK", e, q)}

MatchesText(f) ==
    LET ops == Ops(f)
        open == Open(ops, f.esp)
    IN  /\ Len(f.blocks) = 1 + Cardinality(open)
        /\ \A e \in open :
              f.blocks[Cardinality({d \in open : d >= e})].out = ops[e].para

\* The blocks of every frame are those its position in the code is nested
\* in: whatever jumps, errors and returns were taken, code outside a block
\* never runs inside it, nor the other way round (parser_count_blocks and
\* the patching of the loops against frame_enter_block, frame_leave_block
\* and frame_recover_exception; the counts of the labels, OP_PUSH_BLOCKS).
\* Between a POP_BLOCKS or PUSH_BLOCKS and its jump the blocks are ahead of
\* the text.
BlocksMatchNesting ==
    status = "run" =>
        \A k \in DOMAIN frames :
            \/ k = 1 /\ Current.esp > 0 /\ frame_last_opcode.op \in {"POP_BLOCKS", "PUSH_BLOCKS"}
            \/ frames[k].esp > Len(Ops(frames[k]))
            \/ MatchesText(frames[k])

(***************************************************************************)
(* The innermost try body whose text holds position p.                     *)
(***************************************************************************)
Bodies(ops, p) ==
    {e \in 1 .. p : ops[e].op = "ENTER_BLOCK" /\ ops[e].para > 0 /\ p <= ops[e].para}

HandlerOf(ops, p) ==
    ops[CHOOSE e \in Bodies(ops, p) : \A d \in Bodies(ops, p) : d <= e].para + 1

(***************************************************************************)
(* The frame that is current after the step, and its position before it:   *)
(* at the failing opcode, or behind the call it waits in.                  *)
(***************************************************************************)
Depth == Len(frames')
Before == frames[Len(frames) - Depth + 1]
At == IF Depth = Len(frames) THEN Before.esp ELSE Before.esp - 1

Recovers ==
    /\ status = "run" /\ status' = "run"
    /\ Depth \in 1 .. Len(frames)
    /\ Current.esp < Len(Ops(Current))
    /\ Opcode.op \notin Jumps \cup {"JUMP_TRUE", "JUMP_FALSE", "JUMP_DEFAULT"}
    /\ Opcode.op = "JUMP_CASE" => Head(frames').esp # Opcode.para
    /\ Head(frames').esp # At + 1

\* An error that is handled is handled by the innermost try around the
\* failing opcode, or around the call the frame waits in, and its catch
\* clause is given the exception just raised, not one left from an earlier
\* error (interpreter_set_exception, interpreter_recover_exception,
\* frame_recover_exception, against the positions parser_try_statement
\* computed).
HandlerIsInnermost ==
    [][Recovers /\ OwnTables =>
          /\ Head(frames').esp = HandlerOf(Ops(Before), At)
          /\ Head(frames').exception = Here]_vars

\* When a function returns, the operand stack holds its result and nothing
\* else of its own, however many errors it handled on the way: the stack is
\* where the caller left it, with the arguments replaced by the result
\* (the rollback of interpreter_recover_exception against block_t's bottom).
OneValueAtReturn ==
    AtOpcode("RETURN") =>
        Len(g_s) = Current.bottom + (IF code[Current.code].args THEN 0 ELSE 1)

LoopFree ==
    \A f \in DOMAIN code : \A p \in DOMAIN code[f].ops :
        code[f].ops[p].op \in Jumps \cup {"JUMP_TRUE", "JUMP_FALSE", "JUMP_CASE", "JUMP_DEFAULT"} =>
            code[f].ops[p].para >= p

\* A program whose code only jumps forward ends: handling an error never
\* brings it back into the body that failed (frame_recover_exception leaves
\* the try's block before the handler runs).
Terminates == LoopFree => <>(status \in {"ended", "crashed"})

\* A switch runs what its text says: a case that does not match hands on to
\* the label behind it in the dispatch, the last one to default or out; a
\* label that matches leads to its own statement, wherever the moving of
\* the labels has put that; and default is asked last (parser_adjust_case,
\* parser_adjust_default and the links of parser_switch_statement).  The
\* statement of a case begins with the name its case compares with, that of
\* default with "rest", so that the code tells them apart.
SwitchDispatches ==
    \A f \in DOMAIN code : \A p \in DOMAIN code[f].ops :
        LET ops == code[f].ops
        IN  /\ ops[p].op = "JUMP_CASE" =>
                  /\ ops[p].para = p + 2
                  /\ ops[ops[p + 2].para + 1] = ops[p - 1]
            /\ ops[p].op = "JUMP_DEFAULT" =>
                  /\ ops[p + 1].op = "POP_STACK"
                  /\ ops[ops[p].para + 1].name = "rest"

\* What a try promises (doc/grammar.txt:262, README.md:10): its catch clause
\* starts with an exception to catch, in the activation whose constants and
\* names it uses, and no error ends a program that has one around it
\* (parser_try_statement, interpreter_play's parameter code, the tail of
\* OP_CALL_FUNC).
TriesCatch ==
    /\ AtOpcode("STORE_EXCEPTION") => Current.exception # NULL
    /\ status = "run" /\ frames # <<>> => OwnTables
    /\ status = "ended" => \A k \in DOMAIN frames : ~IsCatched(frames[k].blocks)
=============================================================================
