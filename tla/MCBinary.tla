------------------------------ MODULE MCBinary ------------------------------
(* Programs and results for Binary: each kind of constant, of compound and of *)
(* value, empty, single and nested.                                           *)
EXTENDS Binary

Num(t, n) == [type |-> t, num |-> n]
Null == [type |-> "null"]
Void == [type |-> "void"]
Exception == [type |-> "exception"]
DictOf(k, v) == [type |-> "dict", pairs |-> <<[key |-> k, value |-> v]>>]
Builtin(n) == [type |-> "func", slot |-> n]
Func(c) == [type |-> "func", code |-> c]
Mod(c) == [type |-> "mod", code |-> c]
StructOf(i, objs) == [type |-> "struct", index |-> i, members |-> objs]
UnionOf(i, objs) == [type |-> "union", index |-> i, value |-> objs]

Compound(name, fields) == [name |-> name, fields |-> fields]
Field(name, t) == [name |-> name, type |-> t]

\* A main program with these constants and compounds.
Main(consts, structs, unions) ==
  [opcodes |-> <<3 * BYTE ^ 3, 5 * BYTE ^ 3 + 1>>, lineinfo |-> <<1, 2>>,
   types |-> <<TypeNo["int"], TypeNo["struct"] + 1>>, consts |-> consts,
   varnames |-> <<Str(<<7>>)>>, structs |-> structs, unions |-> unions,
   name |-> <<2>>, filename |-> <<6, 1>>, func |-> 0, lineno |-> 0, args |-> 0,
   ret_type |-> TypeNo["void"]]

\* A function of one argument.
Function(consts, ret) ==
  [opcodes |-> <<6 * BYTE ^ 3>>, lineinfo |-> <<5>>, types |-> <<TypeNo["int"]>>,
   consts |-> consts, varnames |-> <<Str(<<7>>), Str(<<>>)>>, structs |-> <<>>,
   unions |-> <<>>, name |-> <<4>>, filename |-> <<6, 1>>, func |-> 1, lineno |-> 3,
   args |-> 1, ret_type |-> ret]

\* Two of a kind in a row show a reader that stays in place.
Literals ==
  <<Num("int", 9), Num("int", 10), Num("long", 5), Num("double", 70), Num("bool", 1),
    Num("char", 6), Null, Str(<<1, 2, 3>>), Vec(<<Num("int8", 2), Vec(<<>>)>>),
    DictOf(Str(<<>>), Num("uint16", 12)), Num("float", 3), Num("int16", 1),
    Num("uint8", 1), Num("int32", 4), Num("uint32", 4), Num("int64", 4), Num("uint64", 4)>>

MCPrograms ==
  {Main(<<>>, <<>>, <<>>),
   Main(Literals, <<>>, <<>>),
   Main(<<Func(Function(<<Num("int", 1)>>, TypeNo["union"] + 1)),
          Func(Function(<<>>, TypeNo["int"])), Num("int", 2)>>, <<>>, <<>>),
   Main(<<Num("int", 9)>>, <<Compound(<<3>>, <<>>)>>, <<Compound(<<3, 3>>, <<>>), Compound(<<>>, <<>>)>>),
   Main(<<>>, <<Compound(<<3>>, <<Field(<<1>>, TypeNo["int"])>>)>>, <<>>),
   Main(<<>>, <<Compound(<<3>>, <<Field(<<1>>, TypeNo["int"]), Field(<<2>>, TypeNo["union"])>>)>>, <<>>),
   Main(<<>>, <<>>, <<Compound(<<3>>, <<Field(<<>>, TypeNo["str"])>>), Compound(<<>>, <<>>)>>)}

Scalars == {Num(t, 5) : t \in NumberTypes} \cup {Null, Str(<<>>), Str(<<1, 0, 2>>), Builtin(8)}

Members ==
  Scalars \cup {Void, Exception, Func(Function(<<>>, TypeNo["int"])), Mod(Main(<<>>, <<>>, <<>>)),
                Func(Main(<<Num("int", 1)>>, <<Compound(<<3>>, <<>>)>>, <<>>))}

MCValues ==
  Members \cup {Vec(<<>>)} \cup {Vec(<<o, Num("int", 4)>>) : o \in Members}
    \cup {Vec(<<Vec(<<o>>), o>>) : o \in Members}
    \cup {DictOf(Str(<<4>>), o) : o \in Members} \cup {DictOf(o, Num("char", 1)) : o \in Scalars}
    \cup {StructOf(i, <<o, Null>>) : i \in 0..1, o \in Members}
    \cup {UnionOf(i, <<o>>) : i \in 0..1, o \in Members \ {Void}}
    \cup {UnionOf(0, <<>>), UnionOf(1, <<StructOf(0, <<UnionOf(0, <<>>)>>)>>)}

=============================================================================
