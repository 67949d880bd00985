------------------------------- MODULE Layout -------------------------------
(***************************************************************************)
(* What the compiler promises the stack machine: in every code, a position *)
(* has one nesting of blocks and one height of the operand stack, however  *)
(* it is reached.  Note(c) is that layout of a code c; Fits says that it   *)
(* is one, opcode by opcode (parser.c against interpreter_play), and       *)
(* ReadsAs that it is the one of the text.  TLC evaluates both for the     *)
(* code that Codegen makes; what the machine does with such code is        *)
(* proved from them.                                                       *)
(***************************************************************************)
EXTENDS Vm

CONSTANT
    Note(_)  \* of a code: [at |-> the positions it can be at, and at each of them
             \* nest |-> the outs of its blocks, height |-> its operands]

(***************************************************************************)
(* Operands that an opcode takes before it can fail, and results it leaves.*)
(***************************************************************************)
Given(ops, p) == p > 0 /\ ops[p].op = "MAKE_VEC"

Takes(ops, p) ==
    LET o == ops[p + 1]
    IN  CASE o.op = "MAKE_VEC" -> o.para
          [] o.op \in {"ADD", "JUMP_CASE"} -> 2
          [] o.op = "CALL_FUNC" -> IF Given(ops, p) THEN 2 ELSE 1
          [] o.op \in {"POP_STACK", "STORE_LOCAL", "BIND_ARGS", "JUMP_TRUE", "JUMP_FALSE",
                       "JUMP_DEFAULT", "RETURN"} -> 1
          [] OTHER -> 0

Leaves(o) == IF o.op \in {"LOAD_CONST", "LOAD_VAR", "ADD", "MAKE_VEC", "CALL_FUNC"} THEN 1 ELSE 0

Plain == {"LOAD_CONST", "LOAD_VAR", "ADD", "MAKE_VEC", "POP_STACK", "STORE_LOCAL",
          "CALL_FUNC", "BIND_ARGS", "STORE_EXCEPTION"}

(***************************************************************************)
(* A function that binds arguments has their vec below what is its own.    *)
(***************************************************************************)
Ground(c) == IF c.args THEN -1 ELSE 0

Arrives(n, q, nest, height) == q \in n.at /\ n.nest[q] = nest /\ n.height[q] = height

(***************************************************************************)
(* Nobody jumps between the operands of a call and the call.  The one jump *)
(* to the beginning of a function with arguments is that of break and      *)
(* continue in a try: they would be bound again.                           *)
(***************************************************************************)
JumpsTo(c, n, q, nest, height) ==
    /\ IF q = 0 /\ c.args THEN nest = <<0>> /\ height = -1 ELSE Arrives(n, q, nest, height)
    /\ q < Len(c.ops) => c.ops[q + 1].op # "CALL_FUNC"

Flows(c, n, p) ==
    LET o == c.ops[p + 1]
        s == n.nest[p]
        h == n.height[p]
    IN  /\ o.op \in Plain => Arrives(n, p + 1, s, h - Takes(c.ops, p) + Leaves(o))
        /\ o.op = "ENTER_BLOCK" =>
              /\ Arrives(n, p + 1, <<o.para>> \o s, h)
              /\ o.para > 0 => Arrives(n, o.para + 1, s, h)
        /\ o.op = "LEAVE_BLOCK" => s # <<>> /\ Arrives(n, p + 1, Tail(s), h)
        /\ o.op = "PUSH_BLOCKS" => Arrives(n, p + 1, [i \in 1 .. o.para |-> 0] \o s, h)
        /\ o.op = "POP_BLOCKS" =>
              o.para <= Len(s) /\ Arrives(n, p + 1, SubSeq(s, o.para + 1, Len(s)), h)
        /\ o.op \in Jumps => JumpsTo(c, n, o.para, s, h)
        /\ o.op \in {"JUMP_TRUE", "JUMP_FALSE"} =>
              Arrives(n, p + 1, s, h - 1) /\ JumpsTo(c, n, o.para, s, h - 1)
        /\ o.op = "JUMP_CASE" =>
              Arrives(n, p + 1, s, h - 2) /\ JumpsTo(c, n, o.para, s, h - 1)
        /\ o.op = "JUMP_DEFAULT" => JumpsTo(c, n, o.para, s, h - 1)
        /\ o.op \in {"RETURN", "END_PROGRAM"} => h = Ground(c) + 1

(***************************************************************************)
(* Whatever fails at p, the handler of a try that is open there finds the  *)
(* blocks around the try and the operands it began with.                   *)
(***************************************************************************)
Catches(c, n, p) ==
    LET s == n.nest[p]
    IN  \A i \in DOMAIN s : s[i] > 0 =>
            /\ s[i] + 1 \in n.at
            /\ n.nest[s[i] + 1] = SubSeq(s, i + 1, Len(s))
            /\ n.height[s[i] + 1] <= n.height[p] - Takes(c.ops, p)
            /\ s[i] + 1 < Len(c.ops) => c.ops[s[i] + 2].op # "CALL_FUNC"

Operands(c, n, p) ==
    /\ n.height[p] - Takes(c.ops, p) >= Ground(c)
    /\ c.ops[p + 1].op = "MAKE_VEC" => p + 1 < Len(c.ops) /\ c.ops[p + 2].op = "CALL_FUNC"
    /\ c.ops[p + 1].op = "BIND_ARGS" <=> p = 0 /\ c.args

Fits(c, n) ==
    /\ n.at \subseteq 0 .. Len(c.ops)
    /\ n.nest \in [n.at -> Seq(Nat)]
    /\ n.height \in [n.at -> Int]
    /\ Arrives(n, 0, <<0>>, 0)
    /\ \A p \in n.at \ {Len(c.ops)} : Flows(c, n, p) /\ Catches(c, n, p) /\ Operands(c, n, p)

(***************************************************************************)
(* The text of a code: the blocks that are open at p, and the innermost    *)
(* try whose body holds p.                                                 *)
(***************************************************************************)
ReadsAs(c, n) ==
    \A p \in n.at :
        /\ ~(p > 0 /\ c.ops[p].op \in {"POP_BLOCKS", "PUSH_BLOCKS"}) =>
              LET open == Open(c.ops, p)
              IN  /\ Len(n.nest[p]) = 1 + Cardinality(open)
                  /\ \A e \in open :
                        n.nest[p][Cardinality({d \in open : d >= e})] = c.ops[e].para
        /\ p < Len(c.ops) /\ c.ops[p + 1].op \notin Jumps \cup {"JUMP_TRUE", "JUMP_FALSE", "JUMP_DEFAULT"} =>
              \A i \in DOMAIN n.nest[p] :
                 n.nest[p][i] > 0 /\ (\A j \in 1 .. i - 1 : n.nest[p][j] = 0) =>
                     n.nest[p][i] + 1 = HandlerOf(c.ops, p)

(***************************************************************************)
(* The calls of a program that the argument vec's absence cannot confuse:  *)
(* what is called without arguments is a name right before the call, and   *)
(* not that of a function that binds some; no function binds them twice.   *)
(***************************************************************************)
CallsBind(c) ==
    \A f \in DOMAIN c : \A p \in Note(c[f]).at \ {Len(c[f].ops)} :
        LET ops == c[f].ops
            o == ops[p + 1]
        IN  /\ o.op = "CALL_FUNC" /\ ~Given(ops, p) =>
                  /\ p > 0 /\ ops[p].op \in {"LOAD_VAR", "LOAD_CONST"}
                  /\ ops[p].name \in DOMAIN c => ~c[ops[p].name].args
            /\ c[f].args /\ o.op \in Jumps \cup {"JUMP_TRUE", "JUMP_FALSE", "JUMP_CASE", "JUMP_DEFAULT"} =>
                  o.para # 0

\* Every code of every program has a layout, and its text shows it.
ASSUME LayoutAssumption ==
    \A c \in Codes :
        /\ ~c[Global].args
        /\ \A f \in DOMAIN c : Fits(c[f], Note(c[f])) /\ ReadsAs(c[f], Note(c[f]))
=============================================================================
