------------------------------- MODULE Binary -------------------------------
(***************************************************************************)
(* What koa turns into bytes, and back:                                    *)
(*                                                                         *)
(*  - a compiled program, which code_save_binary keeps in a ".b" file      *)
(*    beside its source and code_load_binary reads in the next run;        *)
(*  - the value that a child thread returns, which thread_func dumps with  *)
(*    object_binary and thread_join reads with object_load_buf.            *)
(*                                                                         *)
(* Both go through the same dump (object_binary) and two readers written   *)
(* side by side: the ..._load_binary routines read a FILE, the             *)
(* ..._load_buf ones a buffer and a length.  A byte has three bits here,   *)
(* so that a size_t of eight of them is a number TLC has.                  *)
(***************************************************************************)
EXTENDS Integers, Sequences, SequencesExt

CONSTANTS
  Programs,  \* compiled programs (records of code_t's fields)
  Values     \* objects a child thread returns

VARIABLES
  item,   \* the program or the object
  bytes,  \* the ".b" file, or context->ret_binary
  got,    \* what the reader made of them
  phase   \* "made", "saved" or "read"

vars == <<item, bytes, got, phase>>

BYTE == 8

-----------------------------------------------------------------------------
(* Widths, as sizeof has them: the enum object_type_t needs more than 32     *)
(* bits for its ends -2 and 0xf0000000, so it takes a long.                  *)

SizeofInt == 4
SizeofSize == 8
SizeofType == 8
SizeofOpcode == 4
SizeofLine == 4

TypeNo ==
  [void |-> 0, null |-> 1, bool |-> 2, char |-> 3, uchar |-> 4, short |-> 5, ushort |-> 6,
   int |-> 7, uint |-> 8, long |-> 9, ulong |-> 10, int8 |-> 11, uint8 |-> 12, int16 |-> 13,
   uint16 |-> 14, int32 |-> 15, uint32 |-> 16, int64 |-> 17, uint64 |-> 18, float |-> 19,
   double |-> 20, str |-> 21, vec |-> 22, dict |-> 23, func |-> 24, mod |-> 25, frame |-> 26,
   exception |-> 27, struct |-> 255, union |-> 7 * BYTE ^ 3]

\* Each number type's binary, load_binary and load_buf move sizeof (val) bytes.
bool_size == 1
char_size == 1
uchar_size == 1
short_size == 2
ushort_size == 2
int_size == 4
uint_size == 4
long_size == 8
ulong_size == 8
int8_size == 1
uint8_size == 1
int16_size == 2
uint16_size == 2
int32_size == 4
uint32_size == 4
int64_size == 8
uint64_size == 8
float_size == 4
double_size == 8

SizeOf ==
  [bool |-> bool_size, char |-> char_size, uchar |-> uchar_size, short |-> short_size,
   ushort |-> ushort_size, int |-> int_size, uint |-> uint_size, long |-> long_size,
   ulong |-> ulong_size, int8 |-> int8_size, uint8 |-> uint8_size, int16 |-> int16_size,
   uint16 |-> uint16_size, int32 |-> int32_size, uint32 |-> uint32_size,
   int64 |-> int64_size, uint64 |-> uint64_size, float |-> float_size, double |-> double_size]

NumberTypes == DOMAIN SizeOf

-----------------------------------------------------------------------------
(* The dump: the memory of each part, one after the other.                   *)

\* The w bytes of n in memory, lowest first.
BINARY(n, w) == [i \in 1..w |-> (n \div BYTE ^ (i - 1)) % BYTE]

Size(s) == BINARY(Len(s), SizeofSize)

\* The dumps of the members of s one after the other.
Each(s, Dump(_)) == FlattenSeq([i \in DOMAIN s |-> Dump(s[i])])

code_vec_to_binary(s, w) == Size(s) \o Each(s, LAMBDA n : BINARY(n, w))

compound_save_name(name) == Size(name) \o name

\* The type of a field is written as an int.
compound_to_binary(meta) ==
  compound_save_name(meta.name) \o Size(meta.fields)
    \o Each(meta.fields, LAMBDA f : compound_save_name(f.name) \o BINARY(f.type, SizeofInt))

code_compound_to_binary(metas) == Size(metas) \o Each(metas, compound_to_binary)

strobject_op_binary(o) == Size(o.chars) \o o.chars

builtin_binary(slot) == BINARY(slot, SizeofInt)

RECURSIVE object_binary(_), code_binary(_), Dumps(_)

vecobject_op_binary(o) == Size(o.items) \o Each(o.items, object_binary)

structobject_op_binary(o) == Size(o.members) \o Each(o.members, object_binary)

unionobject_op_binary(o) ==
  object_binary(IF o.value = <<>> THEN [type |-> "void"] ELSE o.value[1])

dictobject_op_binary(o) ==
  Size(o.pairs) \o Each(o.pairs, LAMBDA p : object_binary(p.key) \o object_binary(p.value))

funcobject_op_binary(o) ==
  IF "slot" \in DOMAIN o
    THEN BINARY(1, SizeofInt) \o builtin_binary(o.slot)
    ELSE BINARY(0, SizeofInt) \o code_binary(o.code)

object_binary(o) ==
  BINARY(TypeNo[o.type] + (IF "index" \in DOMAIN o THEN o.index ELSE 0), SizeofType) \o
    CASE o.type \in NumberTypes -> BINARY(o.num, SizeOf[o.type])
      [] o.type \in {"void", "null"} -> <<>>
      [] o.type = "str" -> strobject_op_binary(o)
      [] o.type = "vec" -> vecobject_op_binary(o)
      [] o.type = "dict" -> dictobject_op_binary(o)
      [] o.type = "func" -> funcobject_op_binary(o)
      [] o.type = "mod" -> code_binary(o.code)
      [] o.type = "struct" -> structobject_op_binary(o)
      [] o.type = "union" -> unionobject_op_binary(o)
      [] OTHER -> <<>>

\* An exception is dumped by adding to an exception, which object_add refuses: no
\* value that has one in it has a dump.
Dumps(o) ==
  CASE o.type = "exception" -> FALSE
    [] o.type = "vec" -> \A i \in DOMAIN o.items : Dumps(o.items[i])
    [] o.type = "dict" -> \A i \in DOMAIN o.pairs : Dumps(o.pairs[i].key) /\ Dumps(o.pairs[i].value)
    [] o.type = "struct" -> \A i \in DOMAIN o.members : Dumps(o.members[i])
    [] o.type = "union" -> o.value = <<>> \/ Dumps(o.value[1])
    [] OTHER -> TRUE

Str(chars) == [type |-> "str", chars |-> chars]
Vec(objs) == [type |-> "vec", items |-> objs]

code_binary(c) ==
  code_vec_to_binary(c.opcodes, SizeofOpcode) \o code_vec_to_binary(c.lineinfo, SizeofLine)
    \o code_vec_to_binary(c.types, SizeofType)
    \o object_binary(Vec(c.consts)) \o object_binary(Vec(c.varnames))
    \o code_compound_to_binary(c.structs) \o code_compound_to_binary(c.unions)
    \o object_binary(Str(c.name)) \o object_binary(Str(c.filename))
    \o BINARY(c.func, SizeofInt) \o BINARY(c.lineno, SizeofInt) \o BINARY(c.args, SizeofInt)
    \o BINARY(c.ret_type, SizeofType)

\* The letters of BINARY_HEADER.
Header == <<1, 2, 3, 4, 5, 6>>

-----------------------------------------------------------------------------
(* The readers.  A read of m ("file" or "buf") starts behind the first p     *)
(* bytes of b and fails, or has a value and the place where it stopped.      *)

Fail == [ok |-> FALSE]
Ok(v, p) == [ok |-> TRUE, val |-> v, pos |-> p]

\* K reads on behind what was read; an early return when that failed.
Then(r, K(_, _)) == IF r.ok THEN K(r.val, r.pos) ELSE Fail

\* fread of one number of w bytes, or the check of *len and the cast of *buf.
Take(b, p, w) ==
  IF p + w > Len(b) THEN Fail
  ELSE Ok(FoldRight(LAMBDA x, n : x + BYTE * n, SubSeq(b, p + 1, p + w), 0), p + w)

TakeSize(b, p) == Take(b, p, SizeofSize)

TakeChars(b, p, n) == IF p + n > Len(b) THEN Fail ELSE Ok(SubSeq(b, p + 1, p + n), p + n)

\* n reads one after the other.  A count beyond the bytes there are is one read at
\* the wrong place: the bytes or the memory run out.
Times(b, n, p, Read(_)) ==
  LET upto[i \in 0..n] ==
        IF i = 0 THEN Ok(<<>>, p)
        ELSE Then(upto[i - 1], LAMBDA v, q :
               Then(Read(q), LAMBDA x, r : Ok(Append(v, x), r)))
  IN  IF n > Len(b) THEN Fail ELSE upto[n]

\* Mutant: both readers leave their place at the first element.
to_vec_in_place(m, b, p, w) ==
  Then(TakeSize(b, p), LAMBDA n, q :
    Then(Times(b, n, q, LAMBDA r : Then(Take(b, q, w), LAMBDA x, end : Ok(x, q))),
         LAMBDA v, end : Ok(v, q)))

\* Mutant: code_buf_to_vec moves on; code_buf_to_plain is as it is.
to_vec_moving(m, b, p, w) ==
  Then(TakeSize(b, p), LAMBDA n, q : Times(b, n, q, LAMBDA r : Take(b, r, w)))

\* code_buf_to_vec leaves *buf at the first element.
code_to_vec(m, b, p, w) ==
  Then(TakeSize(b, p), LAMBDA n, q :
    IF m = "file" THEN Times(b, n, q, LAMBDA r : Take(b, r, w))
    ELSE Then(Times(b, n, q, LAMBDA r : Then(Take(b, q, w), LAMBDA x, end : Ok(x, q))),
              LAMBDA v, end : Ok(v, q)))

\* compound_name_load_buf leaves *buf at the name.
compound_name_load(m, b, p) ==
  Then(TakeSize(b, p), LAMBDA n, q :
    Then(TakeChars(b, q, n), LAMBDA name, end : Ok(name, IF m = "file" THEN end ELSE q)))

compound_field_load(m, b, p) ==
  Then(compound_name_load(m, b, p), LAMBDA name, q :
    Then(Take(b, q, SizeofType), LAMBDA t, end : Ok([name |-> name, type |-> t], end)))

compound_load(m, b, p) ==
  Then(compound_name_load(m, b, p), LAMBDA name, q :
    Then(TakeSize(b, q), LAMBDA n, r :
      Then(Times(b, n, r, LAMBDA at : compound_field_load(m, b, at)),
           LAMBDA fields, end : Ok([name |-> name, fields |-> fields], end))))

code_to_compound(m, b, p) ==
  Then(TakeSize(b, p), LAMBDA n, q : Times(b, n, q, LAMBDA at : compound_load(m, b, at)))

\* Mutant: strobject_load_buf stays at the characters.
strobject_load_in_place(m, b, p) ==
  Then(TakeSize(b, p), LAMBDA n, q :
    Then(TakeChars(b, q, n), LAMBDA chars, end : Ok(Str(chars), IF m = "file" THEN end ELSE q)))

strobject_load(m, b, p) ==
  Then(TakeSize(b, p), LAMBDA n, q :
    Then(TakeChars(b, q, n), LAMBDA chars, end : Ok(Str(chars), end)))

builtin_load(m, b, p) ==
  Then(Take(b, p, SizeofInt), LAMBDA slot, end : Ok([type |-> "func", slot |-> slot], end))

\* The types that the switches of object_load_binary and object_load_buf name.
LoadCases ==
  {"void", "null", "bool", "char", "int", "long", "int8", "uint8", "int16", "uint16",
   "int32", "uint32", "int64", "uint64", "float", "double", "str", "vec", "dict", "func", "mod"}

\* COMPOUND_IS_STRUCT and COMPOUND_IS_UNION tell a compound type from its number.
TypeOfNo(n) ==
  CASE n >= TypeNo["union"] -> "union"
    [] n >= TypeNo["struct"] /\ n < TypeNo["union"] -> "struct"
    [] \E t \in LoadCases : TypeNo[t] = n -> CHOOSE t \in LoadCases : TypeNo[t] = n
    [] OTHER -> "none"

RECURSIVE object_load(_, _, _), code_load(_, _, _)

vecobject_load(m, b, p) ==
  Then(TakeSize(b, p), LAMBDA n, q :
    Then(Times(b, n, q, LAMBDA at : object_load(m, b, at)),
         LAMBDA objs, end : Ok(Vec(objs), end)))

structobject_load(m, t, b, p) ==
  Then(TakeSize(b, p), LAMBDA n, q :
    Then(Times(b, n, q, LAMBDA at : object_load(m, b, at)),
         LAMBDA objs, end :
           Ok([type |-> "struct", index |-> t - TypeNo["struct"], members |-> objs], end)))

unionobject_load(m, t, b, p) ==
  Then(object_load(m, b, p), LAMBDA o, end :
    Ok([type |-> "union", index |-> t - TypeNo["union"],
        value |-> IF o.type = "void" THEN <<>> ELSE <<o>>], end))

dictobject_load(m, b, p) ==
  Then(TakeSize(b, p), LAMBDA n, q :
    Then(Times(b, n, q, LAMBDA at :
           Then(object_load(m, b, at), LAMBDA k, r :
             Then(object_load(m, b, r), LAMBDA v, end : Ok([key |-> k, value |-> v], end)))),
         LAMBDA pairs, end : Ok([type |-> "dict", pairs |-> pairs], end)))

funcobject_load(m, b, p) ==
  Then(Take(b, p, SizeofInt), LAMBDA builtin, q :
    IF builtin # 0 THEN builtin_load(m, b, q)
    ELSE Then(code_load(m, b, q), LAMBDA c, end : Ok([type |-> "func", code |-> c], end)))

object_load(m, b, p) ==
  Then(Take(b, p, SizeofType), LAMBDA n, q :
    LET t == TypeOfNo(n)
    IN  CASE t = "none" -> Fail
          [] t \in {"void", "null"} -> Ok([type |-> t], q)
          [] t \in NumberTypes ->
               Then(Take(b, q, SizeOf[t]), LAMBDA v, end : Ok([type |-> t, num |-> v], end))
          [] t = "str" -> strobject_load(m, b, q)
          [] t = "vec" -> vecobject_load(m, b, q)
          [] t = "dict" -> dictobject_load(m, b, q)
          [] t = "func" -> funcobject_load(m, b, q)
          [] t = "mod" -> Then(code_load(m, b, q), LAMBDA c, end : Ok([type |-> t, code |-> c], end))
          [] t = "struct" -> structobject_load(m, n, b, q)
          [] t = "union" -> unionobject_load(m, n, b, q))

\* The reader takes the object for what the writer put there.
code_to_object(m, b, p) ==
  Then(object_load(m, b, p), LAMBDA o, end : IF o.type = "vec" THEN Ok(o.items, end) ELSE Fail)

code_to_str(m, b, p) ==
  Then(object_load(m, b, p), LAMBDA o, end : IF o.type = "str" THEN Ok(o.chars, end) ELSE Fail)

\* code_buf_to_plain copies the address of the buffer, not what is there.
Address == -1

\* Mutant: the result of fread is not looked at.
to_plain_unchecked(m, b, p, w) == IF p + w > Len(b) THEN Ok(0, Len(b)) ELSE Take(b, p, w)

code_to_plain(m, b, p, w) ==
  Then(Take(b, p, w), LAMBDA n, end : Ok(IF m = "file" THEN n ELSE Address, end))

code_load(m, b, p) ==
  Then(code_to_vec(m, b, p, SizeofOpcode), LAMBDA opcodes, p1 :
  Then(code_to_vec(m, b, p1, SizeofLine), LAMBDA lineinfo, p2 :
  Then(code_to_vec(m, b, p2, SizeofType), LAMBDA types, p3 :
  Then(code_to_object(m, b, p3), LAMBDA consts, p4 :
  Then(code_to_object(m, b, p4), LAMBDA varnames, p5 :
  Then(code_to_compound(m, b, p5), LAMBDA structs, p6 :
  Then(code_to_compound(m, b, p6), LAMBDA unions, p7 :
  Then(code_to_str(m, b, p7), LAMBDA name, p8 :
  Then(code_to_str(m, b, p8), LAMBDA filename, p9 :
  Then(code_to_plain(m, b, p9, SizeofInt), LAMBDA func, p10 :
  Then(code_to_plain(m, b, p10, SizeofInt), LAMBDA lineno, p11 :
  Then(code_to_plain(m, b, p11, SizeofInt), LAMBDA args, p12 :
  Then(code_to_plain(m, b, p12, SizeofType), LAMBDA ret_type, p13 :
    Ok([opcodes |-> opcodes, lineinfo |-> lineinfo, types |-> types, consts |-> consts,
        varnames |-> varnames, structs |-> structs, unions |-> unions, name |-> name,
        filename |-> filename, func |-> func, lineno |-> lineno, args |-> args,
        ret_type |-> ret_type], p13))))))))))))))

-----------------------------------------------------------------------------
(* The steps.                                                                *)

Init ==
  /\ item \in Programs \cup Values
  /\ bytes = <<>>
  /\ got = Fail
  /\ phase = "made"

\* The file has all of the dump, or the beginning that was written when the disk
\* was full or the process ended.
code_save_binary ==
  /\ item \in Programs
  /\ phase = "made"
  /\ LET dump == Header \o code_binary(item)
     IN  \E n \in 0..Len(dump) : bytes' = SubSeq(dump, 1, n)
  /\ phase' = "saved"
  /\ UNCHANGED <<item, got>>

\* With a path: the header and the program, whatever follows them.
code_load_binary ==
  /\ item \in Programs
  /\ phase = "saved"
  /\ got' = Then(TakeChars(bytes, 0, Len(Header)), LAMBDA header, p :
                IF header = Header THEN code_load("file", bytes, p) ELSE Fail)
  /\ phase' = "read"
  /\ UNCHANGED <<item, bytes>>

\* The end of thread_func: without a dump there is no ret_binary.
thread_func_dump ==
  /\ item \in Values
  /\ phase = "made"
  /\ bytes' = IF Dumps(item) THEN object_binary(item) ELSE <<>>
  /\ phase' = "saved"
  /\ UNCHANGED <<item, got>>

\* thread_join, when the child has ended.
thread_join_load ==
  /\ item \in Values
  /\ phase = "saved"
  /\ got' = IF bytes = <<>> THEN Fail ELSE object_load("buf", bytes, 0)
  /\ phase' = "read"
  /\ UNCHANGED <<item, bytes>>

Next ==
  \/ code_save_binary
  \/ code_load_binary
  \/ thread_func_dump
  \/ thread_join_load

Spec == Init /\ [][Next]_vars

-----------------------------------------------------------------------------
(* Properties.                                                               *)

\* All of the program was written.
Complete == bytes = Header \o code_binary(item)

HasField(c) == \E meta \in {c.structs[i] : i \in DOMAIN c.structs}
                            \cup {c.unions[i] : i \in DOMAIN c.unions} : meta.fields # <<>>

\* A program whose structs and unions have no fields is read back as it was
\* compiled, to its last byte: every width, count and nested function agrees
\* between the two sides, for the second run to be the first one's program.  (A
\* field's type is written as an int and read as an object_type_t.)
ProgramRoundTrip ==
  item \in Programs /\ phase = "read" /\ Complete /\ ~HasField(item) =>
    got = Ok(item, Len(bytes))

\* What a crash or a full disk left of a file is never run, wherever it ends.
TruncatedIsRefused ==
  item \in Programs /\ phase = "read" /\ ~Complete => ~got.ok

\* The types on which the readers of a buffer work.
RECURSIVE Crosses(_)
Crosses(o) ==
  CASE o.type = "vec" -> \A i \in DOMAIN o.items : Crosses(o.items[i])
    [] o.type = "dict" -> \A i \in DOMAIN o.pairs : Crosses(o.pairs[i].key) /\ Crosses(o.pairs[i].value)
    [] o.type = "struct" -> \A i \in DOMAIN o.members : Crosses(o.members[i])
    [] o.type = "union" -> o.value = <<>> \/ Crosses(o.value[1])
    [] o.type = "func" -> "slot" \in DOMAIN o
    [] OTHER -> o.type \in LoadCases \ {"mod"}

\* Data of the types above, nested in any way, reaches the parent as the child
\* returned it.
ResultRoundTrip ==
  item \in Values /\ phase = "read" /\ Crosses(item) => got = Ok(item, Len(bytes))

\* Reading is off by some bytes in what koa cannot bring back (a struct's field in
\* a file, a function or a type without a case in a buffer), and yet it never
\* takes those bytes for another program or another value.
NeverAnother == phase = "read" /\ got.ok => got.val = item

=============================================================================
