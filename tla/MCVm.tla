-------------------------------- MODULE MCVm --------------------------------
(***************************************************************************)
(* Vm on the code Codegen makes of small programs of two functions, main   *)
(* and f, neither of them recursive.                                       *)
(***************************************************************************)
EXTENDS Layout, Codegen

Expr(e) == [k |-> "expr", e |-> e]
Const == Expr([k |-> "const"])
Var == Expr([k |-> "var"])                              \* 1 + x;
Call(g, a) == Expr([k |-> "call", f |-> g, args |-> a])    \* g();   g(1);
Sum(g, a) == Expr([k |-> "sum", f |-> g, args |-> a])      \* 1 + g();
Block(body) == [k |-> "block", body |-> body]
If(s) == [k |-> "if", then |-> s, els |-> <<>>]
IfElse(s, t) == [k |-> "if", then |-> s, els |-> <<t>>]
Decl == [k |-> "decl"]                                   \* int i = 1;
Name(x) == Expr([k |-> "name", name |-> x])
While(s) == [k |-> "while", body |-> s]
For(i, t, s) == [k |-> "for", init |-> i, iter |-> t, body |-> s]
Switch(labels) == [k |-> "switch", body |-> [k |-> "block", body |-> labels]]
Case(x, ss) == <<[k |-> "case", e |-> [k |-> "name", name |-> x], body |-> Name(x)]>> \o ss
Rest(ss) == <<[k |-> "default", body |-> Name("rest")]>> \o ss
Do(s) == [k |-> "do", body |-> s]
Try(s) == [k |-> "try", body |-> s, catch |-> FALSE, handler |-> <<>>]
TryCatch(s, h) == [k |-> "try", body |-> s, catch |-> TRUE, handler |-> h]
Break == [k |-> "break"]
Continue1 == [k |-> "continue"]
Return1 == [k |-> "return", e |-> <<>>]
Return2 == [k |-> "return", e |-> <<[k |-> "const"]>>]     \* return 1;

Void(a, body) == [args |-> a, void |-> TRUE, body |-> body]
Valued(a, body) == [args |-> a, void |-> FALSE, body |-> body]

(***************************************************************************)
(* main's statements, f's parameters and statements.                       *)
(***************************************************************************)
Program(m, a, b) == [main |-> Valued(FALSE, Append(m, Return2)), f |-> Void(a, b)]
WithInt(m, a, b) == [main |-> Valued(FALSE, Append(m, Return2)), f |-> Valued(a, b)]
Legal(ps) ==
    {p \in ps : \A g \in DOMAIN p : FunctionAccepted(p[g])}

CodesOf(ps) == {Compiled(p) : p \in Legal(ps)}

(***************************************************************************)
(* Structured: errors, returns and calls in nested tries, blocks and ifs,  *)
(* no loop.                                                                *)
(***************************************************************************)
Simple == {Const, Var, Sum("f", FALSE)}
Nested ==
    {Var, If(Return2), Call("f", FALSE), Call("x", FALSE), Block(<<Sum("f", TRUE)>>)}
      \cup {Try(<<Block(<<s>>), Var>>) : s \in Simple}
      \cup {TryCatch(<<s>>, <<t>>) : s \in Simple, t \in Simple \cup {Decl}}
      \cup {TryCatch(<<s>>, <<TryCatch(<<t>>, <<Const>>)>>) : s, t \in Simple}
      \cup {TryCatch(<<TryCatch(<<s>>, <<t>>), Var>>, <<Const>>) : s, t \in Simple}

Followers == {Var, If(Return2), Call("f", FALSE), TryCatch(<<Sum("f", FALSE)>>, <<Var>>)}

Callees ==
    {<<a, b>> : a \in BOOLEAN,
                b \in {<<Var>>, <<TryCatch(<<Var>>, <<Var>>), Var>>,
                       <<IfElse(Try(<<Var, Return1>>), Const)>>,
                       <<Var, If(Return1)>>}}

IntCallees == {<<Var, Return2>>, <<TryCatch(<<If(Return2)>>, <<Var>>), Return2>>}

Straight ==
    {Program(<<s, t>>, c[1], c[2]) : s \in Nested, t \in Followers, c \in Callees}
      \cup {WithInt(<<s, t>>, a, b) : s \in Nested, t \in Followers,
                                     a \in BOOLEAN, b \in IntCallees}

(***************************************************************************)
(* Loops, left by break, continue, return and errors, one in another too   *)
(* where they do not stand at the beginning of a function.                 *)
(***************************************************************************)
LoopBody(return) ==
    {Var, Block(<<If(Break), Const>>), Block(<<Block(<<If(Continue1), If(Break)>>)>>),
     If(Break), IfElse(Continue1, return),
     Block(<<TryCatch(<<Var>>, <<Var>>), If(Break)>>)}
Loops(bodies) ==
    UNION {{While(s), Do(s), For("decl", TRUE, s), For("none", FALSE, s)} : s \in bodies}
OneLoop(return) ==
    Loops(LoopBody(return))
      \cup {TryCatch(<<Var, While(s)>>, <<Var>>) : s \in LoopBody(return)}
      \cup {While(Block(<<Try(<<If(Break), Var>>), If(Break)>>))}

Inner == {While(Block(<<If(Break)>>)), Do(Block(<<If(Continue1), Break>>)),
          For("decl", FALSE, Block(<<If(Break), If(Continue1)>>))}
TwoLoops == Loops({Block(<<s, If(t)>>) : s \in Inner, t \in {Break, Continue1}})

Looping ==
    {Program(<<Const, s>>, a, <<Const>>) : s \in OneLoop(Return2), a \in BOOLEAN}
      \cup {Program(<<Sum("f", TRUE), Const>>, TRUE, <<s, Var>>) : s \in OneLoop(Return1)}
      \cup {Program(<<Const, Const, s>>, FALSE, <<Const>>) : s \in TwoLoops}

(***************************************************************************)
(* Switches: labels at any depth, statements that fall through or leave,   *)
(* loops and switches before and behind a label, around and inside a try.  *)
(***************************************************************************)
Small == Switch(Case("c", <<Break>>) \o Rest(<<>>))
Arms == {<<>>, <<Break>>, <<If(Break)>>, <<IfElse(Const, Break)>>, <<Block(<<Const, Break>>)>>,
         <<While(Block(<<If(Break)>>)), Break>>}
LastArms == {<<>>, <<If(Break)>>, <<Do(Block(<<If(Break)>>)), Break>>,
             <<TryCatch(<<Var>>, <<Var>>)>>, <<Sum("f", FALSE)>>}

Switches ==
    {Switch(Case("a", s) \o Case("b", t) \o u) :
        s \in Arms \cup {<<Small, If(Break)>>}, t \in Arms,
        u \in {Rest(v) : v \in LastArms} \cup {<<>>}}
      \cup {Switch(<<Block(Case("a", s)), If(Block(Case("b", t) \o Case("c", s)))>> \o Rest(<<>>)) :
                s \in Arms, t \in Arms}
      \cup {Switch(Case("a", s)) : s \in LastArms}
      \cup {[k |-> "switch", body |-> Case("a", <<>>)[1]]}

Around(s) == {s, TryCatch(<<Block(<<s>>)>>, <<Var>>), While(Block(<<s, If(Break)>>))}

Switching ==
    UNION {{Program(<<Const, Const, t>>, FALSE, <<If(Return1), Var>>) : t \in Around(s)} :
               s \in Switches}

StructuredCodes == CodesOf(Straight \cup Looping \cup Switching)

(***************************************************************************)
(* The layout of a code, found by following it from its beginning.         *)
(***************************************************************************)
Place(p, nest, height) == [p |-> p, nest |-> nest, height |-> height]

After(c, x) ==
    LET o == c.ops[x.p + 1]
        s == x.nest
        next(nest, height) == Place(x.p + 1, nest, height)
        jump(height) == Place(o.para, s, height)
        caught == IF o.para = 0 THEN {} ELSE {Place(o.para + 1, s, x.height)}
    IN  CASE x.p = Len(c.ops) -> {}
          [] o.op \in Plain -> {next(s, x.height - Takes(c.ops, x.p) + Leaves(o))}
          [] o.op = "ENTER_BLOCK" -> {next(<<o.para>> \o s, x.height)} \cup caught
          [] o.op = "LEAVE_BLOCK" -> {next(Tail(s), x.height)}
          [] o.op = "PUSH_BLOCKS" -> {next([i \in 1 .. o.para |-> 0] \o s, x.height)}
          [] o.op = "POP_BLOCKS" -> {next(SubSeq(s, o.para + 1, Len(s)), x.height)}
          [] o.op \in Jumps -> {jump(x.height)}
          [] o.op \in {"JUMP_TRUE", "JUMP_FALSE"} -> {next(s, x.height - 1), jump(x.height - 1)}
          [] o.op = "JUMP_CASE" -> {next(s, x.height - 2), jump(x.height - 1)}
          [] o.op = "JUMP_DEFAULT" -> {jump(x.height - 1)}
          [] OTHER -> {}

RECURSIVE Followed(_, _, _)
Followed(c, seen, new) ==
    IF new = {} THEN seen
    ELSE LET found == UNION {After(c, x) : x \in new}
             all == seen \cup new
             more[y \in {all}] == Followed(c, y, {x \in found \ y : ~(x.p = 0 /\ x.height = -1)})
         IN  more[all]

NoteOf(c) ==
    LET places == Followed(c, {}, {Place(0, <<0>>, 0)})
        at == {x.p : x \in places}
        of == [p \in at |-> CHOOSE x \in places : x.p = p]
    IN  [at |-> at, nest |-> [p \in at |-> of[p].nest], height |-> [p \in at |-> of[p].height]]
=============================================================================
