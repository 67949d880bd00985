------------------------------- MODULE Numbers -------------------------------
(***************************************************************************)
(* The number objects of koa: seventeen integer types (src/boolobject.c to *)
(* src/uint64object.c) and two floating ones, and the operators that       *)
(* src/object.c gives them.                                                *)
(*                                                                         *)
(* The integer files are one file with another C type in it, but for two   *)
(* lines of longobject.c: a type is its width, its sign and the entries of *)
(* g_object_ops that are not NULL.                                         *)
(* Widths and mantissas are constants, so that TLC can meet every wrap and *)
(* every rounding with small numbers.  Floating values are the integers    *)
(* among them: no fractions, infinities or NaN.  The build is for x86-64:  *)
(* signed sums wrap, a shift uses the low bits of its count, and a         *)
(* quotient that does not exist traps.                                     *)
(***************************************************************************)
EXTENDS Integers

CONSTANTS
  Bits,         \* bits of the C types of 8, 16, 32 and 64 bits
  Mantissa,     \* bits of the mantissa of float and double
  Literal       \* the operands

VARIABLES
  left, right,  \* the operands of an expression, numbers
  same,         \* they are one object, as in x == x
  op,           \* the operator, "none" before it is applied
  result        \* its result

vars == <<left, right, same, op, result>>

-----------------------------------------------------------------------------
(* Types. *)

\* object_type_e.
Rank ==
  [bool |-> 2, char |-> 3, uchar |-> 4, short |-> 5, ushort |-> 6, int |-> 7, uint |-> 8,
   long |-> 9, ulong |-> 10, int8 |-> 11, uint8 |-> 12, int16 |-> 13, uint16 |-> 14,
   int32 |-> 15, uint32 |-> 16, int64 |-> 17, uint64 |-> 18, float |-> 19, double |-> 20]

Type == DOMAIN Rank

FLOATING_TYPE(t) == t \in {"float", "double"}
INTEGER_TYPE(t)  == ~FLOATING_TYPE(t)

TruthOps      == {"lnot", "land", "lor", "eq", "cmp"}
ArithmeticOps == {"add", "sub", "mul", "div"}
BitOps        == {"and", "or", "xor"}
ShiftOps      == {"lshift", "rshift"}
FloatingOps   == TruthOps \cup ArithmeticOps \cup {"neg"}
IntegerOps    == FloatingOps \cup BitOps \cup ShiftOps \cup {"mod", "not"}

Integer(width, signed) == [bits |-> Bits[width], signed |-> signed, ops |-> IntegerOps]

boolobject   == [bits |-> 1, signed |-> FALSE, ops |-> TruthOps]
charobject   == [Integer(8, TRUE) EXCEPT !.ops = TruthOps]
ucharobject  == Integer(8, FALSE)
shortobject  == Integer(16, TRUE)
ushortobject == Integer(16, FALSE)
intobject    == Integer(32, TRUE)
uintobject   == Integer(32, FALSE)
longobject   == Integer(64, TRUE)
ulongobject  == Integer(64, FALSE)
int8object   == Integer(8, TRUE)
uint8object  == Integer(8, FALSE)
int16object  == Integer(16, TRUE)
uint16object == Integer(16, FALSE)
int32object  == Integer(32, TRUE)
uint32object == Integer(32, FALSE)
int64object  == Integer(64, TRUE)
uint64object == Integer(64, FALSE)
floatobject  == [bits |-> Mantissa["float"], signed |-> TRUE, ops |-> FloatingOps]
doubleobject == [bits |-> Mantissa["double"], signed |-> TRUE, ops |-> FloatingOps]

TypeOf ==
  [bool |-> boolobject, char |-> charobject, uchar |-> ucharobject,
   short |-> shortobject, ushort |-> ushortobject, int |-> intobject, uint |-> uintobject,
   long |-> longobject, ulong |-> ulongobject, int8 |-> int8object, uint8 |-> uint8object,
   int16 |-> int16object, uint16 |-> uint16object, int32 |-> int32object,
   uint32 |-> uint32object, int64 |-> int64object, uint64 |-> uint64object,
   float |-> floatobject, double |-> doubleobject]

-----------------------------------------------------------------------------
(* Values. *)

Abs(n)  == IF n < 0 THEN -n ELSE n
Sign(n) == IF n > 0 THEN 1 ELSE IF n < 0 THEN -1 ELSE 0

\* 2^n, as a function, of which the powers' laws can be proved.
Pow2[n \in Nat] == IF n = 0 THEN 1 ELSE 2 * Pow2[n - 1]

Size(t) == Pow2[TypeOf[t].bits]
MinOf(t) == IF TypeOf[t].signed THEN -(Size(t) \div 2) ELSE 0
MaxOf(t) == IF TypeOf[t].signed THEN Size(t) \div 2 - 1 ELSE Size(t) - 1

\* The nearest value with b bits of mantissa, the even one of two.
Round(b, n) ==
  IF Abs(n) <= Pow2[b] THEN n
  ELSE LET e == CHOOSE i \in 1..Abs(n) : Pow2[b + i - 1] <= Abs(n) /\ Abs(n) < Pow2[b + i]
           unit == Pow2[e]
           down == n \div unit
           rest == 2 * (n % unit)
       IN  unit * (IF rest < unit \/ (rest = unit /\ down % 2 = 0) THEN down ELSE down + 1)

\* Mutant: the value of a bool is not normalised.
convert_truth_kept(t, n) ==
  IF t = "bool" THEN n
  ELSE IF FLOATING_TYPE(t) THEN Round(TypeOf[t].bits, n)
  ELSE ((n - MinOf(t)) % Size(t)) + MinOf(t)

\* The C conversion of an integer to a value of type t.
Convert(t, n) ==
  IF t = "bool" THEN IF n = 0 THEN 0 ELSE 1
  ELSE IF FLOATING_TYPE(t) THEN Round(TypeOf[t].bits, n)
  ELSE ((n - MinOf(t)) % Size(t)) + MinOf(t)

IntegersOf(t) == MinOf(t)..MaxOf(t)

IsValue(t, n) ==
  IF FLOATING_TYPE(t) THEN Round(TypeOf[t].bits, n) = n ELSE n \in IntegersOf(t)

Object(t, n) == [type |-> t, val |-> n]
ERROR == Object("error", 0)    \* NULL, with the message of error ()
CRASH == Object("crash", 0)    \* a call of a NULL routine, or a trap

\* Mutant: through an int.
get_integer_half(o) == Convert("int", o.val)

\* object_get_integer and object_get_floating.
object_get_integer(o)  == Convert("int64", o.val)
object_get_floating(o) == o.val

\* The branches of its conditional operator make a double of an integer.
NUMBERICAL_GET_VALUE(o) ==
  IF INTEGER_TYPE(o.type) THEN Round(Mantissa["double"], object_get_integer(o))
  ELSE object_get_floating(o)

\* The widths are those of a C compiler in their order, a double is not as exact
\* as the widest integers, and the operands are values of their types.
ASSUME NumbersAssumption ==
  /\ \A w \in {8, 16, 32, 64} : Bits[w] \in Nat \ {0}
  /\ Bits[8] <= Bits[32] /\ Bits[16] <= Bits[32] /\ Bits[32] < Bits[64]
  /\ \A t \in {"float", "double"} : Mantissa[t] \in Nat \ {0}
  /\ Mantissa["float"] <= Mantissa["double"] /\ Mantissa["double"] < Bits[64]
  /\ \A o \in Literal :
        o = Object(o.type, o.val) /\ o.type \in Type /\ o.val \in Int /\ IsValue(o.type, o.val)

object_is_zero(o) == NUMBERICAL_GET_VALUE(o) = 0

\* A floating value out of the range of an integer type converts to anything.
object_cast(o, t) ==
  IF INTEGER_TYPE(o.type) THEN {Object(t, Convert(t, object_get_integer(o)))}
  ELSE IF FLOATING_TYPE(t) \/ t = "bool" \/ o.val \in IntegersOf(t)
    THEN {Object(t, Convert(t, object_get_floating(o)))}
    ELSE {Object(t, n) : n \in IntegersOf(t)}

\* Mutant: a floating value is converted to int, not to int64_t.
digest_of_int(o) ==
  IF INTEGER_TYPE(o.type) THEN {object_get_integer(o)} ELSE {Convert("int", o.val)}

\* What object_digest hashes with the finalizer of Murmur3, which is one-to-one.
object_digest(o) ==
  IF INTEGER_TYPE(o.type) THEN {object_get_integer(o)}
  ELSE IF o.val \in IntegersOf("int64") THEN {o.val}
  ELSE IntegersOf("int64")

-----------------------------------------------------------------------------
(* The routines of the types, on operands of one type. *)

\* Truncated division, as in C.
Quotient(a, b)  == Sign(a) * Sign(b) * (Abs(a) \div Abs(b))
Remainder(a, b) == a - b * Quotient(a, b)

\* Bits of the machine integer that computes for a type.
Promoted(t) == IF TypeOf[t].bits < Bits[32] THEN "int" ELSE t

\* idiv has no answer.
Traps(t, a, b) ==
  b = 0 \/ LET p == Promoted(t) IN TypeOf[p].signed /\ a = MinOf(p) /\ b = -1

\* Bitwise: integers as the sets of their w low bits.
BitsOf(w, n) == {i \in 0..w - 1 : (n \div Pow2[i]) % 2 = 1}
Bitwise(f, w, a, b) ==
  LET S == BitsOf(w, a)
      R == BitsOf(w, b)
      bits == CASE f = "and" -> S \cap R
                [] f = "or"  -> S \cup R
                [] f = "xor" -> (S \cup R) \ (S \cap R)
  IN  CHOOSE n \in 0..Pow2[w] - 1 : BitsOf(w, n) = bits

Power(t, n) == Pow2[n % TypeOf[Promoted(t)].bits]

\* longobject_op_sub makes an int object, and longobject_op_rshift reads the
\* long with intobject_get_value: its low bytes.
Made(t, f) == IF t = "long" /\ f = "sub" THEN "int" ELSE t
Read(t, f) == IF t = "long" /\ f = "rshift" THEN "int" ELSE t

\* What the expression of a routine computes before a constructor narrows it.
Computed(t, f, a, b) ==
  CASE f = "neg" -> -a
    [] f = "not" -> -a - 1
    [] f = "add" -> a + b
    [] f = "sub" -> a - b
    [] f = "mul" -> a * b
    [] f = "div" -> Quotient(a, b)
    [] f = "mod" -> Remainder(a, b)
    [] f \in BitOps -> Bitwise(f, TypeOf[t].bits, a, b)
    [] f = "lshift" -> a * Power(t, b)
    [] f = "rshift" -> Convert(Read(t, f), a) \div Power(Read(t, f), b)

\* An entry of g_object_ops of type t, called with values a and b.
Routine(t, f, a, b) ==
  IF \/ f \notin TypeOf[t].ops
     \/ f \in {"div", "mod"} /\ INTEGER_TYPE(t) /\ Traps(t, a, b)
    THEN CRASH
    ELSE Object(Made(t, f), Convert(Made(t, f), Computed(t, f, a, b)))

Truth(b) == Object("bool", IF b THEN 1 ELSE 0)

-----------------------------------------------------------------------------
(* The operators of object.c: the sets of their possible results. *)

\* object_neg and object_bit_not: a small operand is cast to int, but the routine
\* is that of its own type, which takes the low bits of the int.
Unary(f, o) ==
  IF f = "not" /\ FLOATING_TYPE(o.type) THEN {ERROR}
  ELSE {Routine(o.type, f, Convert(o.type, t.val), 0) :
          t \in IF Rank[o.type] < Rank["int"] THEN object_cast(o, "int") ELSE {o}}

object_logic_not(o) == Truth(o.val = 0)

\* Mutant: the operand of the higher type is cast.
bigger_swapped(o1, o2) ==
  IF Rank[o1.type] > Rank[o2.type] THEN object_cast(o1, o2.type) ELSE {o1}

OBJECT_BIGGER(o1, o2) ==
  IF Rank[o1.type] < Rank[o2.type] THEN object_cast(o1, o2.type) ELSE {o1}

\* Casts of one type: to int if they are of a smaller one.
Operands(o1, o2) ==
  IF o1.type # o2.type THEN OBJECT_BIGGER(o1, o2) \X OBJECT_BIGGER(o2, o1)
  ELSE IF Rank[o1.type] < Rank["int"] THEN object_cast(o1, "int") \X object_cast(o2, "int")
  ELSE {<<o1, o2>>}

\* object_add to object_mod, and object_bit_and to object_bit_xor.
Binary(f, o1, o2) ==
  IF f \in BitOps /\ (FLOATING_TYPE(o1.type) \/ FLOATING_TYPE(o2.type)) THEN {ERROR}
  ELSE IF f \in {"div", "mod"} /\ object_is_zero(o2) THEN {ERROR}
  ELSE {Routine(p[1].type, f, p[1].val, p[2].val) : p \in Operands(o1, o2)}

\* object_left_shift and object_right_shift.
Shift(f, o1, o2) ==
  IF FLOATING_TYPE(o1.type) \/ FLOATING_TYPE(o2.type) THEN {ERROR}
  ELSE {Routine(o.type, f, o.val, object_get_integer(o2)) :
          o \in IF Rank[o1.type] < Rank["int"] THEN {Object("int", object_get_integer(o1))}
                ELSE {o1}}

object_logic_and(o1, o2) == Truth(o1.val # 0 /\ NUMBERICAL_GET_VALUE(o2) # 0)
object_logic_or(o1, o2)  == Truth(o1.val # 0 \/ NUMBERICAL_GET_VALUE(o2) # 0)

\* The routine eq of the left operand: its value becomes a double as it is.
object_equal(o1, o2) ==
  Truth(same \/ Round(Mantissa["double"], o1.val) = NUMBERICAL_GET_VALUE(o2))

\* Mutant: the difference of the integers is returned, in an int.
numberical_compare_sub(o1, o2) ==
  IF INTEGER_TYPE(o1.type) /\ INTEGER_TYPE(o2.type)
    THEN Sign(Convert("int", object_get_integer(o1) - object_get_integer(o2)))
    ELSE Sign(NUMBERICAL_GET_VALUE(o1) - NUMBERICAL_GET_VALUE(o2))

object_numberical_compare(o1, o2) ==
  IF same THEN 0 ELSE Sign(NUMBERICAL_GET_VALUE(o1) - NUMBERICAL_GET_VALUE(o2))

object_compare(o1, o2) == Object("int", object_numberical_compare(o1, o2))

\* The six opcodes of comparisons.
Relation(f, o1, o2) ==
  LET c == object_compare(o1, o2).val
  IN  CASE f = "=="  -> object_equal(o1, o2)
        [] f = "!="  -> Truth(object_is_zero(object_equal(o1, o2)))
        [] f = "<"   -> Truth(c < 0)
        [] f = ">"   -> Truth(c > 0)
        [] f = "<="  -> Truth(c <= 0)
        [] f = ">="  -> Truth(c >= 0)

Relations == {"==", "!=", "<", ">", "<=", ">="}

-----------------------------------------------------------------------------
(* Actions: an expression is evaluated. *)

Init ==
  /\ left \in Literal
  /\ right \in Literal
  /\ same \in {left = right, FALSE}
  /\ op = "none"
  /\ result = ERROR

Apply(f, S) ==
  /\ op = "none"
  /\ op' = f
  /\ result' \in S
  /\ UNCHANGED <<left, right, same>>

\* Bound: a floating quotient is an integer.
WholeQuotient ==
  \A p \in Operands(left, right) :
    FLOATING_TYPE(p[1].type) /\ p[2].val # 0 => p[1].val % Abs(p[2].val) = 0

\* Bound: an operator of one operand is given it twice.
Not      == same /\ Apply("lnot", {object_logic_not(left)})
Negate   == same /\ \E f \in {"neg", "not"} : Apply(f, Unary(f, left))
Cast     == same /\ \E t \in Type : Apply(t, object_cast(left, t))
Compute  == \E f \in {"add", "sub", "mul", "mod"} \cup BitOps : Apply(f, Binary(f, left, right))
Divide   == WholeQuotient /\ Apply("div", Binary("div", left, right))
ShiftBy  == \E f \in ShiftOps : Apply(f, Shift(f, left, right))
And      == Apply("land", {object_logic_and(left, right)})
Or       == Apply("lor", {object_logic_or(left, right)})
Relate   == \E f \in Relations : Apply(f, {Relation(f, left, right)})

Next == Not \/ Negate \/ Cast \/ Compute \/ Divide \/ ShiftBy \/ And \/ Or \/ Relate

Spec == Init /\ [][Next]_vars

-----------------------------------------------------------------------------
(* What the operators promise. *)

\* Every object holds a value that its C type has, after any operator, whatever
\* the widths: the routines hand int results to constructors of smaller types.
TypeOK ==
  /\ \A o \in {left, right} : o.type \in Type /\ IsValue(o.type, o.val)
  /\ op \in {"none", "lnot", "land", "lor", "div", "mod"} \cup Type \cup Relations \cup FloatingOps
           \cup IntegerOps
  /\ result.type \in Type => IsValue(result.type, result.val)
  /\ result.type \in Type \/ result \in {ERROR, CRASH}

\* C99, 6.3.1: an arithmetic type is a width and a sign, or a mantissa.
CType(t) ==
  [floating |-> FLOATING_TYPE(t), bits |-> TypeOf[t].bits, signed |-> TypeOf[t].signed]

CRange(c) == IF c.signed THEN -Pow2[c.bits - 1]..Pow2[c.bits - 1] - 1 ELSE 0..Pow2[c.bits] - 1

CPromoted(t) ==
  IF FLOATING_TYPE(t) \/ TypeOf[t].bits >= Bits[32] THEN CType(t) ELSE CType("int")

\* The usual arithmetic conversions.
CCommon(c, d) ==
  IF c.floating # d.floating THEN IF c.floating THEN c ELSE d
  ELSE IF c.bits # d.bits THEN IF c.bits > d.bits THEN c ELSE d
  ELSE IF c.signed THEN d ELSE c

CConvert(c, n) ==
  IF c.floating THEN Round(c.bits, n)
  ELSE CHOOSE m \in CRange(c) : (m - n) % Pow2[c.bits] = 0

\* The exact value of an operator on converted operands.
CExact(f, c, a, b) ==
  CASE f = "neg" -> -a
    [] f = "not" -> -a - 1
    [] f = "add" -> a + b
    [] f = "sub" -> a - b
    [] f = "mul" -> a * b
    [] f = "div" -> Quotient(a, b)
    [] f = "mod" -> Remainder(a, b)
    [] f \in BitOps -> Bitwise(f, c.bits, a, b)
    [] f = "lshift" -> a * Pow2[b]
    [] f = "rshift" -> a \div Pow2[b]

\* The standard defines it.
CDefined(f, c, a, b) ==
  /\ f \in {"div", "mod"} => b # 0
  /\ f \in ShiftOps => a \in Nat /\ b \in 0..c.bits - 1
  /\ c.signed /\ ~c.floating /\ f \notin BitOps =>
       /\ CExact(f, c, a, b) \in CRange(c)
       /\ f = "mod" => Quotient(a, b) \in CRange(c)

\* C has the operator for operands of these types.
CApplies ==
  op \in IF FLOATING_TYPE(left.type) \/ FLOATING_TYPE(right.type) THEN FloatingOps ELSE IntegerOps

\* The operator was applied to types of T as C applies it, or C gives it no meaning.
FollowsC(T) ==
  CApplies /\ op \notin TruthOps /\ {left.type, right.type} \subseteq T =>
    LET l == CPromoted(left.type)
        c == IF op \in {"neg", "not"} \cup ShiftOps THEN l
             ELSE CCommon(l, CPromoted(right.type))
        a == CConvert(c, left.val)
        b == IF op \in ShiftOps THEN right.val ELSE CConvert(c, right.val)
    IN  CDefined(op, c, a, b) =>
          /\ result.type \in Type
          /\ CType(result.type) = c
          /\ result.val = CConvert(c, CExact(op, c, a, b))

\* On the named types from int on, arithmetic, bitwise operators and shifts are
\* those of C: the conversions by type number (OBJECT_BIGGER) agree there with
\* the conversions by width and sign, and no answer is an error or a crash.  Not
\* so for two routines of longobject.c, and for an unsigned operand that int64_t
\* lacks beside a floating one.
ArithmeticIsC ==
  \/ FollowsC({"int", "uint", "long", "ulong", "float", "double"})
  \/ op = "sub" /\ \E p \in Operands(left, right) : p[1].type = "long"
  \/ op = "rshift" /\ left.type = "long"
  \/ \E o \in {left, right} :
       INTEGER_TYPE(o.type) /\ o.val \notin IntegersOf("int64")
         /\ (FLOATING_TYPE(left.type) \/ FLOATING_TYPE(right.type))

\* A double tells the value from all others of 64 bits.
Sharp(o) ==
  IF INTEGER_TYPE(o.type)
    THEN \A n \in {o.val, object_get_integer(o)} : Round(Mantissa["double"], n) = n
    ELSE o.val \in IntegersOf("int64")

\* A dict finds a key by its digest and compares keys with object_equal: numbers
\* of any two types that == finds equal must have one digest.
EqualHashesAlike ==
  op = "==" /\ result.val = 1 /\ Sharp(left) /\ Sharp(right) =>
    \A d \in object_digest(left), e \in object_digest(right) : d = e

\* Comparisons go through doubles, whatever the types and signs: they order the
\* numbers that a double and int64_t hold as mathematics does, where C compares
\* -1 with an unsigned number by wrapping it.
CompareExact ==
  op \in Relations /\ (\A o \in {left, right} : Sharp(o) /\ o.val \in IntegersOf("int64")) =>
    (result.val = 1 <=>
       CASE op = "==" -> left.val = right.val
         [] op = "!=" -> left.val # right.val
         [] op = "<"  -> left.val < right.val
         [] op = ">"  -> left.val > right.val
         [] op = "<=" -> left.val <= right.val
         [] op = ">=" -> left.val >= right.val)

\* Type u has every value of type t.
Wider(t, u) ==
  IF INTEGER_TYPE(u)
    THEN INTEGER_TYPE(t) /\ MinOf(u) <= MinOf(t) /\ MaxOf(t) <= MaxOf(u)
    ELSE IF INTEGER_TYPE(t) THEN Size(t) <= Size(u) ELSE TypeOf[t].bits <= TypeOf[u].bits

\* A cast to a type that has every value of the operand's loses nothing, although
\* it passes through an int64_t or a double: the cast back restores the operand.
WideningLossless ==
  op \in Type /\ Wider(left.type, op) => object_cast(result, left.type) = {left}

=============================================================================
