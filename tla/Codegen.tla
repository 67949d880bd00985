------------------------------ MODULE Codegen ------------------------------
(***************************************************************************)
(* The part of the one-pass compiler (parser.c) that lays out control      *)
(* flow: the opcodes it emits for blocks, if, the loops, switch, try and   *)
(* catch, break, continue, return and calls, the back-patching of their    *)
(* parameters and the moving of labels.  A program is an abstract syntax   *)
(* tree: the lexer, the types and the expression grammar below a call are  *)
(* left out.                                                               *)
(*                                                                         *)
(* A statement is a record with a field k:                                 *)
(*   "expr"  e          expression ;  (e: see parser_expression)           *)
(*   "block" body       { statements }                                     *)
(*   "decl"             type variable = constant ;                         *)
(*   "if"    then, els  els is a sequence of no or one statement           *)
(*   "while" body, "do" body                                               *)
(*   "for"   init, iter, body   init: "none", "expr" or "decl"; iter: has  *)
(*                      an iteration part                                  *)
(*   "switch" body; "case" e, body; "default" body                         *)
(*   "try"   body, catch, handler   catch = FALSE: no catch clause         *)
(*   "break", "continue"                                                   *)
(*   "return" e         e is a sequence of no or one expression            *)
(* A function is a record [args |-> has parameters, void |-> returns void, *)
(* body |-> statements].                                                   *)
(*                                                                         *)
(* The module uses RECURSIVE operators (the grammar is recursive): it is   *)
(* for TLC's runs only.                                                    *)
(***************************************************************************)
EXTENDS Integers, Sequences, SequencesExt

(***************************************************************************)
(* Code under construction: a sequence of opcodes.  Positions are those of *)
(* the C program, from 0: position p is element p + 1.                     *)
(***************************************************************************)
OPCODE(op, para) == [op |-> op, para |-> para, name |-> ""]
OPCODE_NAMED(op, name) == [op |-> op, para |-> 0, name |-> name]

code_push_opcode(code, opcode) == Append(code, opcode)
code_current_pos(code) == Len(code) - 1
OpAt(code, pos) == code[pos + 1]
code_modify_opcode(code, pos, para) == [code EXCEPT ![pos + 1].para = para]

Emit(code, op) == code_push_opcode(code, OPCODE(op, 0))
EmitTo(code, op, para) == code_push_opcode(code, OPCODE(op, para))

(***************************************************************************)
(* Expressions: "const", "name" (a variable), "var" (1 + x), "call" f or   *)
(* f(1), "sum" 1 + f ...                                                   *)
(***************************************************************************)
parser_expression_postfix(code, e) ==
    LET named == code_push_opcode(code, OPCODE_NAMED("LOAD_VAR", e.f))
    IN  IF e.args
        THEN Emit(EmitTo(Emit(named, "LOAD_CONST"), "MAKE_VEC", 1), "CALL_FUNC")
        ELSE Emit(named, "CALL_FUNC")

parser_expression(code, e) ==
    CASE e.k = "const" -> Emit(code, "LOAD_CONST")
      [] e.k = "name"  -> code_push_opcode(code, OPCODE_NAMED("LOAD_VAR", e.name))
      [] e.k = "call"  -> parser_expression_postfix(code, e)
      [] e.k = "sum"   ->
           Emit(parser_expression_postfix(Emit(code, "LOAD_CONST"), e), "ADD")
      [] e.k = "var"   ->
           Emit(code_push_opcode(Emit(code, "LOAD_CONST"),
                                 OPCODE_NAMED("LOAD_VAR", "x")), "ADD")

parser_expression_statement(code, e) == Emit(parser_expression(code, e), "POP_STACK")

Condition == [k |-> "const"]

parser_declaration(code) == Emit(parser_expression(code, Condition), "STORE_LOCAL")

parser_push_dummy_return(code) == Emit(Emit(code, "LOAD_CONST"), "RETURN")

parser_return(code, e) ==
    IF e = <<>> THEN parser_push_dummy_return(code)
    ELSE Emit(parser_expression(code, e[1]), "RETURN")

(***************************************************************************)
(* Blocks open at the end of the code, counted in the text from pos on.    *)
(***************************************************************************)
CountOps(ops, op) == Len(SelectSeq(ops, LAMBDA o : o.op = op))

parser_count_blocks(code, pos) ==
    LET tail == SubSeq(code, pos + 1, Len(code))
    IN  CountOps(tail, "ENTER_BLOCK") - CountOps(tail, "LEAVE_BLOCK")

parser_jump_statement(code, k, upper_pos) ==
    EmitTo(EmitTo(code, "POP_BLOCKS", parser_count_blocks(code, upper_pos)),
           IF k = "break" THEN "JUMP_BREAK" ELSE "JUMP_CONTINUE", upper_pos)

(***************************************************************************)
(* The epilogue of a loop: every opcode from start up to the end whose     *)
(* parameter is the loop's own mark is patched -- whatever put the number  *)
(* there.  target gives a jump its new parameter.                          *)
(***************************************************************************)
Between(code, start, end, New(_)) ==
    SubSeq(code, 1, start) \o [i \in 1 .. end - start |-> New(start + i)]
        \o SubSeq(code, end + 1, Len(code))

Patched(code, start, end, mark, target) ==
    Between(code, start, end, LAMBDA i :
        IF code[i].para = mark /\ code[i].op \in DOMAIN target
        THEN [code[i] EXCEPT !.para = target[code[i].op]] ELSE code[i])

Recounted(code, start, end, mark) ==
    Between(code, start, end, LAMBDA i :
        IF code[i].para = mark /\ code[i].op = "POP_BLOCKS"
        THEN [code[i] EXCEPT !.para = parser_count_blocks(SubSeq(code, 1, i), start)]
        ELSE code[i])

(***************************************************************************)
(* The labels of a switch.  In the text a label is where its statement is; *)
(* the epilogue of the switch moves its opcodes, len of them from from on, *)
(* to the dispatch at to, in front of the body.                            *)
(***************************************************************************)
Moved(code, to, from, len, ops) ==
    SubSeq(code, 1, to) \o ops \o SubSeq(code, to + 1, from)
        \o SubSeq(code, from + len + 1, Len(code))

Shifted(o, move) == [o EXCEPT !.para = @ + move]

parser_adjust_jump_force(code, start_pos, len, move) ==
    Between(code, start_pos, start_pos + len, LAMBDA i :
        IF code[i].op = "JUMP_FORCE" THEN Shifted(code[i], move) ELSE code[i])

\* JUMP_TRUE is not among them.
OPCODE_IS_JUMP(o) ==
    o.op \in {"JUMP_FALSE", "JUMP_FORCE", "JUMP_CONTINUE", "JUMP_BREAK",
              "JUMP_CASE", "JUMP_DEFAULT"}

parser_adjust_jump(code, start_pos, len, move) ==
    Between(code, start_pos, start_pos + len, LAMBDA i :
        IF OPCODE_IS_JUMP(code[i]) /\ code[i].para < start_pos + len
        THEN Shifted(code[i], move) ELSE code[i])

\* Jumps over the label or on its far side, and those of the labels before it.
Adjusted(code, start_pos, insert_pos, from, len) ==
    parser_adjust_jump_force(
        parser_adjust_jump(code, insert_pos + len, from - insert_pos, len),
        start_pos, insert_pos - start_pos, len)

\* JUMP_CASE e PUSH_BLOCKS JUMP_FORCE is moved as e JUMP_CASE PUSH_BLOCKS JUMP_FORCE.
parser_adjust_case(code, start_pos, insert_pos, case_pos, len) ==
    LET ops == SubSeq(code, case_pos + 1, case_pos + len)
        tested == SubSeq(ops, 2, len - 2) \o <<ops[1]>> \o SubSeq(ops, len - 1, len)
    IN  Adjusted(Moved(code, insert_pos, case_pos, len, tested),
                 start_pos, insert_pos, case_pos, len)

parser_adjust_default(code, start_pos, insert_pos, push_pos) ==
    Adjusted(Moved(code, insert_pos, push_pos, 2, SubSeq(code, push_pos + 1, push_pos + 2)),
             start_pos, insert_pos, push_pos, 2)

parser_labeled_ops(code, s, upper_pos) ==
    IF s.k = "case"
    THEN LET test == EmitTo(parser_expression(EmitTo(code, "JUMP_CASE", upper_pos), s.e),
                            "PUSH_BLOCKS", upper_pos)
         IN  EmitTo(test, "JUMP_FORCE", code_current_pos(test) + 2)
    ELSE LET push == EmitTo(code, "PUSH_BLOCKS", upper_pos)
         IN  EmitTo(push, "JUMP_DEFAULT", code_current_pos(push) + 2)

(***************************************************************************)
(* The labels of a switch are moved in the order of the text, from s.i on. *)
(* s.last is the last JUMP_CASE that does not know yet where to go when    *)
(* its case fails, or -1; s.insert_pos the end of the dispatch.            *)
(***************************************************************************)
\* Mutant: a case that does not match is tested again.
linked_to_itself(code, last, pos) == IF last = -1 THEN code ELSE code_modify_opcode(code, last, last - 1)

LinkedTo(code, last, pos) == IF last = -1 THEN code ELSE code_modify_opcode(code, last, pos)

\* The PUSH_BLOCKS of a label is given the blocks open at the label.
Counted(code, push_pos, label_pos, start_pos) ==
    code_modify_opcode(code, push_pos,
                       parser_count_blocks(SubSeq(code, 1, label_pos + 1), start_pos))

CaseMoved(s, i, start_pos) ==
    LET push_pos == SelectInSubSeq(s.code, i + 2, Len(s.code), LAMBDA o :
                        o.op = "PUSH_BLOCKS" /\ o.para = start_pos) - 1
        len == push_pos - i + 2
        moved == parser_adjust_case(Counted(s.code, push_pos, i, start_pos),
                                    start_pos, s.insert_pos, i, len)
    IN  [code |-> LinkedTo(moved, s.last, s.insert_pos),
         last |-> s.insert_pos + len - 3,
         insert_pos |-> s.insert_pos + len,
         i |-> i + len]

DefaultMoved(s, i, start_pos) ==
    LET moved == parser_adjust_default(Counted(s.code, i, i, start_pos),
                                       start_pos, s.insert_pos, i)
    IN  [code |-> LinkedTo(moved, s.last, s.insert_pos),
         last |-> -1,
         insert_pos |-> s.insert_pos + 2,
         i |-> i + 2]

RECURSIVE LabelsMoved(_, _, _)
LabelsMoved(s, start_pos, out_pos) ==
    LET i == SelectInSubSeq(s.code, s.i + 1, out_pos, LAMBDA o :
                o.op \in {"JUMP_CASE", "PUSH_BLOCKS"} /\ o.para = start_pos) - 1
    IN  IF i = -1 THEN s
        ELSE IF OpAt(s.code, i).op = "JUMP_CASE"
             THEN LabelsMoved(CaseMoved(s, i, start_pos), start_pos, out_pos)
             ELSE LabelsMoved(DefaultMoved(s, i, start_pos), start_pos, out_pos)

RECURSIVE parser_statement(_, _, _)

\* The rest of the list is a function of the code so far, which TLC therefore
\* evaluates first: its stack is as deep as the syntax tree, not as the text is long.
RECURSIVE parser_block_item_list(_, _, _)
parser_block_item_list(code, body, upper_pos) ==
    IF body = <<>> THEN code
    ELSE LET item == parser_statement(code, Head(body), upper_pos)
             rest[c \in {item}] == parser_block_item_list(c, Tail(body), upper_pos)
         IN  rest[item]

parser_compound(code, body, upper_pos) ==
    Emit(parser_block_item_list(Emit(code, "ENTER_BLOCK"), body, upper_pos),
         "LEAVE_BLOCK")

parser_if_statement(code, s, upper_pos) ==
    LET cond == Emit(parser_expression(code, Condition), "JUMP_FALSE")
        false_pos == code_current_pos(cond)
        then == parser_statement(cond, s.then, upper_pos)
        forced == Emit(then, "JUMP_FORCE")
        force_pos == code_current_pos(forced)
        else == parser_statement(
                    code_modify_opcode(forced, false_pos, force_pos + 1),
                    s.els[1], upper_pos)
    IN  IF s.els = <<>>
        THEN code_modify_opcode(then, false_pos, code_current_pos(then) + 1)
        ELSE code_modify_opcode(else, force_pos, code_current_pos(else) + 1)

parser_while_statement(code, s) ==
    LET eval_pos == code_current_pos(code) + 1
        cond == Emit(parser_expression(code, Condition), "JUMP_FALSE")
        false_pos == code_current_pos(cond)
        statement_pos == code_current_pos(cond) + 1
        looped == EmitTo(parser_statement(cond, s.body, eval_pos), "JUMP_FORCE", eval_pos)
        out_pos == code_current_pos(looped) + 1
    IN  Patched(Recounted(code_modify_opcode(looped, false_pos, out_pos),
                          statement_pos, out_pos, eval_pos),
                statement_pos, out_pos, eval_pos, [JUMP_BREAK |-> out_pos])

parser_do_while_statement(code, s) ==
    LET statement_pos == code_current_pos(code) + 1
        body == parser_statement(code, s.body, statement_pos)
        eval_pos == code_current_pos(body) + 1
        looped == EmitTo(parser_expression(body, Condition), "JUMP_TRUE", statement_pos)
        out_pos == code_current_pos(looped) + 1
    IN  Patched(Recounted(looped, statement_pos, eval_pos, statement_pos),
                statement_pos, eval_pos, statement_pos,
                [JUMP_BREAK |-> out_pos, JUMP_CONTINUE |-> eval_pos])

(***************************************************************************)
(* The value of an initialising expression stays on the stack.             *)
(***************************************************************************)
parser_for_statement(code, s) ==
    LET init == CASE s.init = "decl" -> parser_declaration(Emit(code, "ENTER_BLOCK"))
                  [] s.init = "expr" -> parser_expression(code, Condition)
                  [] OTHER           -> code
        eval_pos == code_current_pos(init) + 1
        tested == Emit(Emit(parser_expression(init, Condition), "JUMP_TRUE"), "JUMP_FORCE")
        eval_force_pos == code_current_pos(tested)
        iter_pos == code_current_pos(tested) + 1
        iterated == EmitTo(IF s.iter THEN parser_expression_statement(tested, Condition)
                           ELSE tested, "JUMP_FORCE", eval_pos)
        statement_pos == code_current_pos(iterated) + 1
        looped == EmitTo(parser_statement(iterated, s.body, iter_pos), "JUMP_FORCE", iter_pos)
        out_pos == code_current_pos(looped) + 1
        evaluated == code_modify_opcode(
                        code_modify_opcode(looped, eval_force_pos - 1, statement_pos),
                        eval_force_pos, out_pos)
        patched == Patched(evaluated, statement_pos, out_pos, iter_pos,
                           [JUMP_BREAK |-> out_pos])
    IN  IF s.init = "decl" THEN Emit(patched, "LEAVE_BLOCK") ELSE patched

parser_switch_statement(code, s) ==
    LET value == parser_expression(code, Condition)
        start_pos == code_current_pos(value) + 1
        body == parser_statement(Emit(Emit(value, "POP_STACK"), "JUMP_FORCE"),
                                 s.body, start_pos)
        out_pos == code_current_pos(body) + 1
        patched == Patched(Recounted(body, start_pos, out_pos, start_pos),
                           start_pos, out_pos, start_pos, [JUMP_BREAK |-> out_pos])
        moved == LabelsMoved([code |-> patched, i |-> start_pos,
                              last |-> -1, insert_pos |-> start_pos],
                             start_pos, out_pos)
        jumped == code_modify_opcode(moved.code, moved.insert_pos + 1, out_pos)
    IN  LinkedTo(jumped, moved.last, moved.insert_pos)

parser_labeled_statement(code, s, upper_pos) ==
    parser_statement(parser_labeled_ops(code, s, upper_pos), s.body, upper_pos)

(***************************************************************************)
(* try: the bodies are compiled with upper position 0, and the parameter   *)
(* of the ENTER_BLOCK is the position of the LEAVE_BLOCK that closes the   *)
(* body; the catch clause follows that LEAVE_BLOCK directly.               *)
(***************************************************************************)
parser_try_statement(code, s) ==
    LET enter_pos == code_current_pos(code) + 1
        body == parser_block_item_list(Emit(code, "ENTER_BLOCK"), s.body, 0)
        leave_pos == code_current_pos(body) + 1
        left == Emit(body, "LEAVE_BLOCK")
        handler == Emit(Emit(left, "ENTER_BLOCK"), "STORE_EXCEPTION")
        caught == Emit(parser_block_item_list(handler, s.handler, 0), "LEAVE_BLOCK")
    IN  code_modify_opcode(IF s.catch THEN caught ELSE left, enter_pos, leave_pos)

parser_statement(code, s, upper_pos) ==
    CASE s.k = "expr"  -> parser_expression_statement(code, s.e)
      [] s.k = "decl"  -> parser_declaration(code)
      [] s.k = "block" -> parser_compound(code, s.body, upper_pos)
      [] s.k = "if"    -> parser_if_statement(code, s, upper_pos)
      [] s.k = "while" -> parser_while_statement(code, s)
      [] s.k = "do"    -> parser_do_while_statement(code, s)
      [] s.k = "for"   -> parser_for_statement(code, s)
      [] s.k = "switch" -> parser_switch_statement(code, s)
      [] s.k \in {"case", "default"} -> parser_labeled_statement(code, s, upper_pos)
      [] s.k = "try"   -> parser_try_statement(code, s)
      [] s.k \in {"break", "continue"} -> parser_jump_statement(code, s.k, upper_pos)
      [] s.k = "return" -> parser_return(code, s.e)

(***************************************************************************)
(* What the parser accepts: break needs an enclosing statement that is not *)
(* the plain body of a function, continue an enclosing loop, a label an    *)
(* enclosing switch, and try is none of these; a result is returned by     *)
(* functions that are not void, and only by them.  ut is the kind of the   *)
(* enclosing statement.                                                    *)
(*                                                                         *)
(* The semicolon of a return is not skipped: it is left to be an empty     *)
(* statement, where else or the while of a do is not expected any more.    *)
(***************************************************************************)
RECURSIVE EndsInReturn(_)
EndsInReturn(s) ==
    CASE s.k = "return" -> TRUE
      [] s.k = "if"     -> EndsInReturn(IF s.els = <<>> THEN s.then ELSE s.els[1])
      [] s.k \in {"while", "for", "switch", "case", "default"} -> EndsInReturn(s.body)
      [] OTHER          -> FALSE

RECURSIVE Accepted(_, _, _)
Accepted(s, ut, void) ==
    LET AllOf(body, inner) == \A i \in DOMAIN body : Accepted(body[i], inner, void)
    IN  CASE s.k = "continue" -> ut = "LOOP"
          [] s.k = "break"    -> ut # "PLAIN"
          [] s.k = "return"   -> void <=> s.e = <<>>
          [] s.k = "block"    -> AllOf(s.body, ut)
          [] s.k = "if"       -> /\ AllOf(<<s.then>> \o s.els, ut)
                                 /\ s.els # <<>> => ~EndsInReturn(s.then)
          [] s.k \in {"while", "for"} -> Accepted(s.body, "LOOP", void)
          [] s.k = "do"       -> Accepted(s.body, "LOOP", void) /\ ~EndsInReturn(s.body)
          [] s.k = "switch"   -> Accepted(s.body, "SWITCH", void)
          [] s.k \in {"case", "default"} -> ut = "SWITCH" /\ Accepted(s.body, ut, void)
          [] s.k = "try"      -> AllOf(s.body \o s.handler, "TRY")
          [] OTHER            -> TRUE

(***************************************************************************)
(* A function: BIND_ARGS for its parameters, its body, and a RETURN unless *)
(* the last opcode is one, which it must be if the function is not void.   *)
(***************************************************************************)
BodyOf(fun) ==
    parser_block_item_list(IF fun.args THEN Emit(<<>>, "BIND_ARGS") ELSE <<>>, fun.body, -1)

Returned(ops) == ops # <<>> /\ Last(ops).op = "RETURN"

FunctionAccepted(fun) ==
    /\ \A i \in DOMAIN fun.body : Accepted(fun.body[i], "PLAIN", fun.void)
    /\ fun.void \/ Returned(BodyOf(fun))

parser_function_definition(fun) ==
    IF Returned(BodyOf(fun)) THEN BodyOf(fun) ELSE parser_push_dummy_return(BodyOf(fun))

\* The program: the call of main, END_PROGRAM.
parser_translation_unit ==
    Emit(Emit(<<OPCODE_NAMED("LOAD_CONST", "main")>>, "CALL_FUNC"), "END_PROGRAM")

TOP_LEVEL_TAG == "#GLOBAL"

Compiled(funs) ==
    [f \in DOMAIN funs \cup {TOP_LEVEL_TAG} |->
        IF f = TOP_LEVEL_TAG
        THEN [args |-> FALSE, void |-> TRUE, ops |-> parser_translation_unit]
        ELSE [args |-> funs[f].args, void |-> funs[f].void,
              ops |-> parser_function_definition(funs[f])]]
============================================================================
