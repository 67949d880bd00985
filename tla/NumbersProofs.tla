---------------------------- MODULE NumbersProofs ----------------------------
(***************************************************************************)
(* Proofs about Numbers, for any widths, mantissas and operands: what      *)
(* conversions keep, and what comparisons, digests and operators then are. *)
(***************************************************************************)
EXTENDS Numbers, FiniteSetTheorems, TLAPS

-----------------------------------------------------------------------------
(* Powers of two.  Induction on numbers is the choice of a least             *)
(* counterexample.                                                           *)

LEMMA Least == ASSUME NEW S \in SUBSET Nat, S # {} PROVE \E m \in S : \A k \in S : m <= k
<1> PICK n \in S : TRUE
  OBVIOUS
<1> DEFINE T == {0 .. k : k \in S \cap (0 .. n)}
<1>1. IsFiniteSet(0 .. n)
  BY FS_Interval
<1>2. T \subseteq SUBSET (0 .. n) /\ T # {}
  OBVIOUS
<1>3. PICK x \in T : \A y \in T : <<y, x>> \notin StrictSubsetOrdering(0 .. n)
  <2>1. IsWellFoundedOn(StrictSubsetOrdering(0 .. n), SUBSET (0 .. n))
    BY <1>1, FS_StrictSubsetOrderingWellFounded, FS_FiniteSubsetsOfFinite
  <2> HIDE DEF T
  <2> QED BY <1>2, <2>1, WFMin
<1>4. PICK m \in S \cap (0 .. n) : x = 0 .. m
  BY <1>3
<1>5. ASSUME NEW k \in S, k < m PROVE FALSE
  <2>1. 0 .. k \in T
    BY <1>4, <1>5
  <2>2. 0 .. k \subseteq 0 .. m /\ 0 .. k # 0 .. m
    BY <1>4, <1>5
  <2> QED BY <1>2, <1>3, <1>4, <2>1, <2>2 DEF StrictSubsetOrdering
<1> QED BY <1>4, <1>5

Doubles(g, n) ==
  /\ g \in [0 .. n -> Nat \ {0}]
  /\ g[0] = 1
  /\ \A i \in 1 .. n : g[i] = 2 * g[i - 1]

LEMMA DoublesExist == ASSUME NEW n \in Nat PROVE \E g : Doubles(g, n)
<1> DEFINE Bad == {m \in Nat : ~ \E g : Doubles(g, m)}
<1> SUFFICES ASSUME Bad # {} PROVE FALSE
  OBVIOUS
<1>1. PICK m \in Bad : \A k \in Bad : m <= k
  BY Least
<1>2. CASE m = 0
  <2>1. Doubles([i \in 0 .. 0 |-> 1], 0)
    BY DEF Doubles
  <2> QED BY <1>1, <1>2, <2>1
<1>3. CASE m # 0
  <2>1. PICK g : Doubles(g, m - 1)
    BY <1>1, <1>3
  <2> DEFINE h == [i \in 0 .. m |-> IF i = m THEN 2 * g[m - 1] ELSE g[i]]
  <2>2. Doubles(h, m)
    BY <1>1, <1>3, <2>1 DEF Doubles
  <2> QED BY <1>1, <2>2
<1> QED BY <1>2, <1>3

LEMMA DoublesUnique ==
  ASSUME NEW m \in Nat, NEW n \in Nat, NEW g, NEW h, Doubles(g, m), Doubles(h, n), NEW k \in Nat, k <= m, k <= n
  PROVE  g[k] = h[k]
<1> DEFINE Bad == {i \in Nat : i <= m /\ i <= n /\ g[i] # h[i]}
<1> SUFFICES ASSUME Bad # {} PROVE FALSE
  OBVIOUS
<1>1. PICK i \in Bad : \A j \in Bad : i <= j
  BY Least
<1>2. i # 0
  BY <1>1 DEF Doubles
<1>3. g[i - 1] = h[i - 1]
  BY <1>1, <1>2
<1> QED BY <1>1, <1>2, <1>3 DEF Doubles

LEMMA Pow2Def == /\ Pow2[0] = 1
                 /\ \A n \in Nat : Pow2[n] \in Nat \ {0} /\ Pow2[n + 1] = 2 * Pow2[n]
<1> DEFINE f == [n \in Nat |-> (CHOOSE k : Doubles(k, n))[n]]
<1>1. \A n \in Nat : Doubles(CHOOSE k : Doubles(k, n), n)
  BY DoublesExist
<1>2. f[0] = 1
  BY <1>1 DEF Doubles
<1>3. ASSUME NEW n \in Nat PROVE f[n] \in Nat \ {0} /\ f[n + 1] = 2 * f[n]
  <2> DEFINE g == CHOOSE k : Doubles(k, n)
             h == CHOOSE k : Doubles(k, n + 1)
  <2>1. Doubles(g, n) /\ Doubles(h, n + 1)
    BY <1>1
  <2> HIDE DEF g, h
  <2>2. g[n] = h[n]
    BY <2>1, DoublesUnique
  <2>3. g[n] \in Nat \ {0} /\ h[n + 1] = 2 * h[n]
    BY <2>1 DEF Doubles
  <2>4. f[n] = g[n] /\ f[n + 1] = h[n + 1]
    BY DEF g, h
  <2> QED BY <2>2, <2>3, <2>4
<1>4. \A n \in Nat \ {0} : f[n] = 2 * f[n - 1]
  <2> TAKE n \in Nat \ {0}
  <2> HIDE DEF f
  <2> QED BY <1>3, n - 1 \in Nat, (n - 1) + 1 = n
<1> HIDE DEF f
<1>5. f = [n \in Nat |-> IF n = 0 THEN 1 ELSE 2 * f[n - 1]]
  <2>1. f = [n \in Nat |-> f[n]]
    BY DEF f
  <2> QED BY <1>2, <1>4, <2>1
<1>6. Pow2 = [n \in Nat |-> IF n = 0 THEN 1 ELSE 2 * Pow2[n - 1]]
  BY <1>5 DEF Pow2
<1>7. \A n \in Nat : Pow2[n] = f[n]
  <2> DEFINE Bad == {i \in Nat : Pow2[i] # f[i]}
  <2> SUFFICES ASSUME Bad # {} PROVE FALSE
    OBVIOUS
  <2>1. PICK i \in Bad : \A j \in Bad : i <= j
    BY Least
  <2>2. i # 0 => Pow2[i - 1] = f[i - 1]
    BY <2>1
  <2> QED BY <1>2, <1>4, <1>6, <2>1, <2>2
<1> QED BY <1>2, <1>3, <1>7

LEMMA PowType == \A n \in Nat : Pow2[n] \in Nat \ {0}
BY Pow2Def

LEMMA PowAdd == \A m, n \in Nat : Pow2[m + n] = Pow2[m] * Pow2[n]
<1> SUFFICES ASSUME NEW m \in Nat PROVE \A n \in Nat : Pow2[m + n] = Pow2[m] * Pow2[n]
  OBVIOUS
<1> DEFINE Bad == {n \in Nat : Pow2[m + n] # Pow2[m] * Pow2[n]}
<1> SUFFICES ASSUME Bad # {} PROVE FALSE
  OBVIOUS
<1>1. PICK n \in Bad : \A k \in Bad : n <= k
  BY Least
<1>2. n # 0
  BY <1>1, Pow2Def
<1>3. Pow2[m + (n - 1)] = Pow2[m] * Pow2[n - 1]
  BY <1>1, <1>2
<1>4. Pow2[m + n] = 2 * Pow2[m + (n - 1)]
  BY <1>1, <1>2, Pow2Def, m + (n - 1) \in Nat, (m + (n - 1)) + 1 = m + n
<1>5. Pow2[n] = 2 * Pow2[n - 1]
  BY <1>1, <1>2, Pow2Def, n - 1 \in Nat, (n - 1) + 1 = n
<1>6. Pow2[m] \in Nat /\ Pow2[n - 1] \in Nat
  BY <1>1, <1>2, PowType
<1> QED BY <1>1, <1>3, <1>4, <1>5, <1>6

LEMMA PowSplit ==
  ASSUME NEW m \in Nat, NEW n \in Nat, m <= n
  PROVE  Pow2[n] = Pow2[m] * Pow2[n - m] /\ Pow2[n - m] \in Nat \ {0} /\ Pow2[m] <= Pow2[n]
<1>1. Pow2[n] = Pow2[m] * Pow2[n - m]
  BY PowAdd, n - m \in Nat, m + (n - m) = n
<1>2. Pow2[m] \in Nat \ {0} /\ Pow2[n - m] \in Nat \ {0}
  BY PowType, n - m \in Nat
<1> QED BY <1>1, <1>2

LEMMA PowHalf == ASSUME NEW n \in Nat \ {0}
                 PROVE  Pow2[n] = 2 * Pow2[n - 1] /\ Pow2[n] \div 2 = Pow2[n - 1]
BY Pow2Def, n - 1 \in Nat, (n - 1) + 1 = n

LEMMA PowLess ==
  ASSUME NEW m \in Nat, NEW n \in Nat, Pow2[m] <= Pow2[n]
  PROVE  m <= n
<1> SUFFICES ASSUME n < m PROVE FALSE
  OBVIOUS
<1>1. Pow2[n + 1] <= Pow2[m] /\ Pow2[n + 1] = 2 * Pow2[n]
  BY PowSplit, Pow2Def
<1> QED BY <1>1, PowType

LEMMA PowBig == \A n \in Nat : n < Pow2[n]
<1> DEFINE Bad == {n \in Nat : ~(n < Pow2[n])}
<1> SUFFICES ASSUME Bad # {} PROVE FALSE
  OBVIOUS
<1>1. PICK n \in Bad : \A k \in Bad : n <= k
  BY Least
<1>2. n # 0
  BY <1>1, Pow2Def
<1>3. n - 1 < Pow2[n - 1]
  BY <1>1, <1>2
<1> QED BY <1>1, <1>2, <1>3, PowHalf, PowType, n - 1 \in Nat

-----------------------------------------------------------------------------
(* Conversions to integer types take the value of the type that differs by   *)
(* a multiple of its size.                                                   *)

LEMMA ModIs ==
  ASSUME NEW S \in Nat \ {0}, NEW a \in Int, NEW k \in Int, NEW r \in 0 .. S - 1, a = k * S + r
  PROVE  a % S = r
OBVIOUS

LEMMA DivIs ==
  ASSUME NEW S \in Nat \ {0}, NEW a \in Int, NEW k \in Int, NEW r \in 0 .. S - 1, a = k * S + r
  PROVE  a \div S = k
OBVIOUS

LEMMA DivAdd ==
  ASSUME NEW S \in Nat \ {0}, NEW a \in Int, NEW k \in Int
  PROVE  (a + k * S) \div S = (a \div S) + k
<1> DEFINE q == a \div S
           r == a % S
<1>1. q \in Int /\ r \in 0 .. S - 1 /\ a = S * q + r
  OBVIOUS
<1> HIDE DEF q, r
<1>2. a + k * S = (q + k) * S + r /\ q + k \in Int /\ a + k * S \in Int
  BY <1>1
<1>3. (a + k * S) \div S = q + k
  BY <1>1, <1>2, DivIs
<1> QED BY <1>3 DEF q

LEMMA ModOf ==
  ASSUME NEW S \in Nat \ {0}, NEW a \in Int
  PROVE  a % S \in 0 .. S - 1 /\ \E k \in Int : a % S = a + k * S
<1>1. a = S * (a \div S) + (a % S) /\ a \div S \in Int /\ a % S \in 0 .. S - 1
  OBVIOUS
<1> DEFINE q == a \div S
           r == a % S
<1>2. q \in Int /\ r \in Int /\ a = S * q + r
  BY <1>1
<1> HIDE DEF q, r
<1>3. r = a + (-q) * S
  BY <1>2
<1>4. -q \in Int
  BY <1>2
<1>5. \E k \in Int : r = a + k * S
  BY <1>3, <1>4
<1> QED BY <1>1, <1>5 DEF r

-----------------------------------------------------------------------------
(* The types.                                                                *)

Width(t) == TypeOf[t].bits

LEMMA Widths ==
  /\ \A t \in Type : Width(t) \in Nat \ {0} /\ TypeOf[t].signed \in BOOLEAN
  /\ \A t \in Type : INTEGER_TYPE(t) => Width(t) <= Bits[64]
  /\ TypeOf["bool"].signed = FALSE /\ Width("bool") = 1
  /\ TypeOf["int64"].signed = TRUE /\ Width("int64") = Bits[64]
  /\ Width("double") = Mantissa["double"] /\ Width("float") = Mantissa["float"]
  /\ \A t \in Type : FLOATING_TYPE(t) => Width(t) <= Width("double") /\ Width(t) < Bits[64]
<1>1. Bits[8] \in Nat \ {0} /\ Bits[16] \in Nat \ {0} /\ Bits[32] \in Nat \ {0} /\ Bits[64] \in Nat \ {0}
      /\ Bits[8] <= Bits[32] /\ Bits[16] <= Bits[32] /\ Bits[32] < Bits[64]
      /\ Mantissa["float"] \in Nat \ {0} /\ Mantissa["double"] \in Nat \ {0}
      /\ Mantissa["float"] <= Mantissa["double"] /\ Mantissa["double"] < Bits[64]
  BY NumbersAssumption
<1> USE <1>1 DEF Width, TypeOf, INTEGER_TYPE, FLOATING_TYPE, Integer
<1>2. /\ TypeOf["bool"].signed = FALSE /\ Width("bool") = 1
      /\ TypeOf["int64"].signed = TRUE /\ Width("int64") = Bits[64]
  BY DEF boolobject, int64object
<1>3. /\ TypeOf["float"].signed = TRUE /\ Width("float") = Mantissa["float"]
      /\ TypeOf["double"].signed = TRUE /\ Width("double") = Mantissa["double"]
  BY DEF floatobject, doubleobject
<1>4. \A t \in {"char", "uchar", "int8", "uint8"} : Width(t) = Bits[8] /\ TypeOf[t].signed \in BOOLEAN
  <2>1. Width("char") = Bits[8] /\ TypeOf["char"].signed \in BOOLEAN
    BY DEF charobject
  <2>2. Width("uchar") = Bits[8] /\ TypeOf["uchar"].signed \in BOOLEAN
    BY DEF ucharobject
  <2>3. Width("int8") = Bits[8] /\ TypeOf["int8"].signed \in BOOLEAN
    BY DEF int8object
  <2>4. Width("uint8") = Bits[8] /\ TypeOf["uint8"].signed \in BOOLEAN
    BY DEF uint8object
  <2> HIDE DEF Width, TypeOf, Integer
  <2> QED BY <2>1, <2>2, <2>3, <2>4
<1>5. \A t \in {"short", "ushort", "int16", "uint16"} : Width(t) = Bits[16] /\ TypeOf[t].signed \in BOOLEAN
  <2>1. Width("short") = Bits[16] /\ TypeOf["short"].signed \in BOOLEAN
    BY DEF shortobject
  <2>2. Width("ushort") = Bits[16] /\ TypeOf["ushort"].signed \in BOOLEAN
    BY DEF ushortobject
  <2>3. Width("int16") = Bits[16] /\ TypeOf["int16"].signed \in BOOLEAN
    BY DEF int16object
  <2>4. Width("uint16") = Bits[16] /\ TypeOf["uint16"].signed \in BOOLEAN
    BY DEF uint16object
  <2> HIDE DEF Width, TypeOf, Integer
  <2> QED BY <2>1, <2>2, <2>3, <2>4
<1>6. \A t \in {"int", "uint", "int32", "uint32"} : Width(t) = Bits[32] /\ TypeOf[t].signed \in BOOLEAN
  <2>1. Width("int") = Bits[32] /\ TypeOf["int"].signed \in BOOLEAN
    BY DEF intobject
  <2>2. Width("uint") = Bits[32] /\ TypeOf["uint"].signed \in BOOLEAN
    BY DEF uintobject
  <2>3. Width("int32") = Bits[32] /\ TypeOf["int32"].signed \in BOOLEAN
    BY DEF int32object
  <2>4. Width("uint32") = Bits[32] /\ TypeOf["uint32"].signed \in BOOLEAN
    BY DEF uint32object
  <2> HIDE DEF Width, TypeOf, Integer
  <2> QED BY <2>1, <2>2, <2>3, <2>4
<1>7. \A t \in {"long", "ulong", "int64", "uint64"} : Width(t) = Bits[64] /\ TypeOf[t].signed \in BOOLEAN
  <2>1. Width("long") = Bits[64] /\ TypeOf["long"].signed \in BOOLEAN
    BY DEF longobject
  <2>2. Width("ulong") = Bits[64] /\ TypeOf["ulong"].signed \in BOOLEAN
    BY DEF ulongobject
  <2>3. Width("int64") = Bits[64] /\ TypeOf["int64"].signed \in BOOLEAN
    BY DEF int64object
  <2>4. Width("uint64") = Bits[64] /\ TypeOf["uint64"].signed \in BOOLEAN
    BY DEF uint64object
  <2> HIDE DEF Width, TypeOf, Integer
  <2> QED BY <2>1, <2>2, <2>3, <2>4
<1>8. Type = {"bool", "float", "double"} \cup {"char", "uchar", "int8", "uint8"}
             \cup {"short", "ushort", "int16", "uint16"} \cup {"int", "uint", "int32", "uint32"}
             \cup {"long", "ulong", "int64", "uint64"}
  BY DEF Type, Rank
<1>9. \A t \in {"bool", "float", "double"} : TypeOf[t].signed \in BOOLEAN
  <2>1. TypeOf["bool"].signed \in BOOLEAN
    BY DEF boolobject
  <2>2. TypeOf["float"].signed \in BOOLEAN
    BY DEF floatobject
  <2>3. TypeOf["double"].signed \in BOOLEAN
    BY DEF doubleobject
  <2> HIDE DEF Width, TypeOf, Integer
  <2> QED BY <2>1, <2>2, <2>3
<1> HIDE DEF Width, TypeOf, Integer
<1>10. ASSUME NEW t \in Type
      PROVE  /\ Width(t) \in Nat \ {0} /\ TypeOf[t].signed \in BOOLEAN
             /\ INTEGER_TYPE(t) => Width(t) <= Bits[64]
             /\ FLOATING_TYPE(t) => Width(t) <= Width("double") /\ Width(t) < Bits[64]
  <2>1. CASE t \in {"bool", "float", "double"}
    <3>1. Width(t) \in Nat \ {0} /\ TypeOf[t].signed \in BOOLEAN
      BY <1>2, <1>3, <1>9, <2>1
    <3>2. INTEGER_TYPE(t) => Width(t) <= Bits[64]
      BY <1>2, <2>1
    <3>3. FLOATING_TYPE(t) => Width(t) <= Width("double") /\ Width(t) < Bits[64]
      BY <1>3
    <3> QED BY <3>1, <3>2, <3>3
  <2>2. CASE t \in {"char", "uchar", "int8", "uint8"}
    BY <1>4, <2>2
  <2>3. CASE t \in {"short", "ushort", "int16", "uint16"}
    BY <1>5, <2>3
  <2>4. CASE t \in {"int", "uint", "int32", "uint32"}
    BY <1>6, <2>4
  <2>5. CASE t \in {"long", "ulong", "int64", "uint64"}
    BY <1>7, <2>5
  <2> QED BY <1>8, <2>1, <2>2, <2>3, <2>4, <2>5
<1> QED BY <1>2, <1>3, <1>10

LEMMA Ranges ==
  ASSUME NEW t \in Type
  PROVE  /\ Size(t) \in Nat \ {0} /\ MinOf(t) \in Int /\ MaxOf(t) = MinOf(t) + Size(t) - 1
         /\ MinOf(t) = IF TypeOf[t].signed THEN -Pow2[Width(t) - 1] ELSE 0
         /\ Size(t) = 2 * Pow2[Width(t) - 1] /\ Pow2[Width(t) - 1] \in Nat \ {0}
<1>1. Width(t) \in Nat \ {0} /\ TypeOf[t].signed \in BOOLEAN
  BY Widths
<1>2. Size(t) = 2 * Pow2[Width(t) - 1] /\ Size(t) \div 2 = Pow2[Width(t) - 1]
  BY <1>1, PowHalf DEF Size, Width
<1>3. Pow2[Width(t) - 1] \in Nat \ {0}
  BY <1>1, PowType, Width(t) - 1 \in Nat
<1> QED BY <1>1, <1>2, <1>3 DEF MinOf, MaxOf

\* A conversion to an integer type keeps the values of the type, and all values modulo
\* its size.
LEMMA Wraps ==
  ASSUME NEW t \in Type, INTEGER_TYPE(t), t # "bool", NEW n \in Int
  PROVE  /\ Convert(t, n) \in IntegersOf(t)
         /\ \E k \in Int : Convert(t, n) = n + k * Size(t)
<1> DEFINE S == Size(t)
           a == n - MinOf(t)
<1>1. Convert(t, n) = (a % S) + MinOf(t)
  BY DEF Convert, INTEGER_TYPE
<1>2. S \in Nat \ {0} /\ MinOf(t) \in Int /\ MaxOf(t) = MinOf(t) + S - 1
  BY Ranges
<1> HIDE DEF S
<1>3. a \in Int
  BY <1>2
<1>4. a % S \in 0 .. S - 1 /\ \E k \in Int : a % S = a + k * S
  BY <1>2, <1>3, ModOf
<1>5. PICK k \in Int : a % S = a + k * S
  BY <1>4
<1>6. Convert(t, n) = n + k * S
  BY <1>1, <1>2, <1>5
<1>7. Convert(t, n) \in IntegersOf(t)
  BY <1>1, <1>2, <1>4 DEF IntegersOf
<1> QED BY <1>6, <1>7 DEF S

\* Of the numbers that differ by multiples of the size, one is a value of the type.
LEMMA OneOfThem ==
  ASSUME NEW t \in Type, NEW m \in IntegersOf(t), NEW n \in IntegersOf(t),
         NEW k \in Int, m = n + k * Size(t)
  PROVE  m = n
<1>1. Size(t) \in Nat \ {0} /\ MinOf(t) \in Int /\ MaxOf(t) = MinOf(t) + Size(t) - 1
  BY Ranges
<1>2. m \in Int /\ n \in Int /\ m - n < Size(t) /\ n - m < Size(t)
  BY <1>1 DEF IntegersOf
<1> DEFINE S == Size(t)
<1> HIDE DEF S
<1>3. ASSUME k >= 1 PROVE FALSE
  <2>1. k * S >= S
    BY <1>1, <1>3 DEF S
  <2> QED BY <1>1, <1>2, <2>1 DEF S
<1>4. ASSUME k <= -1 PROVE FALSE
  <2>1. k * S <= -S
    BY <1>1, <1>4 DEF S
  <2> QED BY <1>1, <1>2, <2>1 DEF S
<1>5. k = 0
  BY <1>3, <1>4
<1> QED BY <1>1, <1>2, <1>5

LEMMA ConvertIs ==
  ASSUME NEW t \in Type, INTEGER_TYPE(t), t # "bool", NEW n \in Int, NEW m \in IntegersOf(t),
         NEW k \in Int, m = n + k * Size(t)
  PROVE  Convert(t, n) = m
<1>1. Size(t) \in Nat \ {0}
  BY Ranges
<1>2. PICK j \in Int : Convert(t, n) = n + j * Size(t)
  BY Wraps
<1>3. Convert(t, n) \in IntegersOf(t)
  BY Wraps
<1> DEFINE S == Size(t)
<1> HIDE DEF S
<1>4. Convert(t, n) = m + (j - k) * S
  BY <1>1, <1>2 DEF S
<1>5. j - k \in Int /\ Convert(t, n) = m + (j - k) * Size(t)
  BY <1>4 DEF S
<1> DEFINE c == Convert(t, n)
           d == j - k
<1> HIDE DEF c, d
<1>6. c \in IntegersOf(t) /\ d \in Int /\ c = m + d * Size(t)
  BY <1>3, <1>5 DEF c, d
<1>7. c = m
  BY <1>6, OneOfThem
<1> QED BY <1>7 DEF c

LEMMA Kept ==
  ASSUME NEW t \in Type, INTEGER_TYPE(t), NEW n \in IntegersOf(t)
  PROVE  Convert(t, n) = n
<1>1. Size(t) \in Nat /\ MinOf(t) \in Int /\ MaxOf(t) \in Int /\ n \in Int
  BY Ranges DEF IntegersOf
<1>2. CASE t # "bool"
  BY <1>1, <1>2, ConvertIs, n = n + 0 * Size(t)
<1>3. CASE t = "bool"
  <2>1. n \in 0 .. 1
    BY <1>3, Ranges, Widths, Pow2Def DEF IntegersOf
  <2> QED BY <1>3, <2>1 DEF Convert
<1> QED BY <1>2, <1>3

\* An int64_t on the way keeps what a conversion to an integer type makes of a number.
LEMMA Through ==
  ASSUME NEW t \in Type, INTEGER_TYPE(t), t # "bool", NEW n \in Int
  PROVE  Convert(t, Convert("int64", n)) = Convert(t, n)
<1>1. "int64" \in Type /\ INTEGER_TYPE("int64") /\ "int64" # "bool"
  BY DEF Type, Rank, INTEGER_TYPE, FLOATING_TYPE
<1>2. Width(t) \in Nat /\ Width("int64") \in Nat /\ Width(t) <= Width("int64")
  BY <1>1, Widths
<1> DEFINE P == Pow2[Width("int64") - Width(t)]
           S == Size(t)
<1>3. Size("int64") = S * P /\ P \in Nat
  BY <1>2, PowSplit DEF Size, Width
<1>4. PICK k \in Int : Convert("int64", n) = n + k * Size("int64")
  BY <1>1, Wraps
<1>5. PICK j \in Int : Convert(t, n) = n + j * S
  BY Wraps
<1>6. S \in Nat /\ Convert(t, n) \in IntegersOf(t)
  BY Ranges, Wraps
<1> HIDE DEF P, S
<1>7. Convert("int64", n) = n + (k * P) * S /\ k * P \in Int
  BY <1>3, <1>4, <1>6
<1>8. Convert(t, n) = Convert("int64", n) + (j - k * P) * S /\ j - k * P \in Int
  BY <1>3, <1>5, <1>6, <1>7
<1>9. Convert("int64", n) \in Int
  BY <1>3, <1>6, <1>7
<1> QED BY <1>6, <1>8, <1>9, ConvertIs DEF S

-----------------------------------------------------------------------------
(* Rounding.                                                                 *)

LEMMA AbsType == \A n \in Int : Abs(n) \in Nat
BY DEF Abs

\* n has b + e bits.
HasExponent(b, n, e) ==
  e \in Nat \ {0} /\ Pow2[b + e - 1] <= Abs(n) /\ Abs(n) < Pow2[b + e]

LEMMA ExponentExists ==
  ASSUME NEW b \in Nat, NEW n \in Int, Abs(n) > Pow2[b]
  PROVE  \E e \in 1 .. Abs(n) : HasExponent(b, n, e)
<1> DEFINE S == {k \in Nat : Abs(n) < Pow2[k]}
<1>1. Abs(n) \in S
  BY AbsType, PowBig
<1>2. PICK k \in S : \A j \in S : k <= j
  BY <1>1, Least
<1>3. b < k
  BY <1>2, PowSplit, PowType, AbsType
<1>4. Pow2[k - 1] <= Abs(n)
  <2>1. k - 1 \in Nat /\ k - 1 \notin S
    BY <1>2, <1>3
  <2> QED BY <2>1, PowType, AbsType
<1> DEFINE e == k - b
<1>5. e \in 1 .. Abs(n)
  BY <1>1, <1>2, <1>3, AbsType
<1>6. b + e - 1 = k - 1 /\ b + e = k /\ e \in Nat \ {0}
  BY <1>2, <1>3
<1>7. HasExponent(b, n, e)
  BY <1>2, <1>4, <1>6 DEF HasExponent
<1> QED BY <1>5, <1>7

\* n to units of u: a tie goes to the even multiple.
ToUnits(u, n) ==
  u * (IF 2 * (n % u) < u \/ (2 * (n % u) = u /\ (n \div u) % 2 = 0) THEN n \div u ELSE (n \div u) + 1)

LEMMA RoundIs ==
  ASSUME NEW b \in Nat, NEW n \in Int, Abs(n) > Pow2[b]
  PROVE  \E e : HasExponent(b, n, e) /\ Round(b, n) = ToUnits(Pow2[e], n)
<1> DEFINE Fit(i) == Pow2[b + i - 1] <= Abs(n) /\ Abs(n) < Pow2[b + i]
           e == CHOOSE i \in 1 .. Abs(n) : Fit(i)
<1>1. \E i \in 1 .. Abs(n) : Fit(i)
  BY ExponentExists DEF HasExponent
<1>2. e \in 1 .. Abs(n) /\ Fit(e)
  BY <1>1
<1>3. HasExponent(b, n, e)
  BY <1>2, AbsType DEF HasExponent
<1>4. ~(Abs(n) <= Pow2[b])
  BY AbsType, PowType
<1>5. Round(b, n) = ToUnits(Pow2[e], n)
  BY <1>4 DEF Round, ToUnits
<1> QED BY <1>3, <1>5

LEMMA RoundSmall == \A b \in Nat, n \in Int : Abs(n) <= Pow2[b] => Round(b, n) = n
BY DEF Round

LEMMA Units ==
  ASSUME NEW u \in Nat \ {0}, NEW n \in Int
  PROVE  /\ \E k \in Int : ToUnits(u, n) = u * k
         /\ ToUnits(u, n) \in Int
         /\ \A k \in Int : n = u * k => ToUnits(u, n) = n
         /\ ToUnits(u, n) <= n + u /\ n - u <= ToUnits(u, n)
<1> DEFINE q == n \div u
           r == n % u
           k == IF 2 * r < u \/ (2 * r = u /\ q % 2 = 0) THEN q ELSE q + 1
<1>1. q \in Int /\ r \in 0 .. u - 1 /\ n = u * q + r
  OBVIOUS
<1>2. k \in {q, q + 1} /\ k \in Int /\ ToUnits(u, n) = u * k
  BY <1>1 DEF ToUnits
<1>3. ASSUME NEW j \in Int, n = u * j PROVE ToUnits(u, n) = n
  <2>1. r = 0 /\ q = j
    BY <1>3
  <2>2. 0 < u
    OBVIOUS
  <2>3. k = j
    BY <2>1, <2>2
  <2> QED BY <1>2, <1>3, <2>3
<1> HIDE DEF q, r, k
<1>4. u * k \in {u * q, u * q + u}
  BY <1>1, <1>2
<1>5. u * k <= n + u /\ n - u <= u * k
  <2> DEFINE p == u * q
  <2>1. p \in Int /\ n = p + r /\ u * k \in {p, p + u}
    BY <1>1, <1>4
  <2> HIDE DEF p
  <2> QED BY <1>1, <2>1
<1>6. u * k \in Int
  BY <1>2
<1> QED BY <1>2, <1>3, <1>5, <1>6

LEMMA RoundType == \A b \in Nat, n \in Int : Round(b, n) \in Int
<1> SUFFICES ASSUME NEW b \in Nat, NEW n \in Int PROVE Round(b, n) \in Int
  OBVIOUS
<1>1. CASE Abs(n) <= Pow2[b]
  BY <1>1, RoundSmall
<1>2. CASE Abs(n) > Pow2[b]
  <2>1. PICK e : HasExponent(b, n, e) /\ Round(b, n) = ToUnits(Pow2[e], n)
    BY <1>2, RoundIs
  <2> QED BY <2>1, PowType, Units DEF HasExponent
<1> QED BY <1>1, <1>2, AbsType, PowType

\* A multiple of a unit no smaller than its own is kept.
LEMMA RoundKeeps ==
  ASSUME NEW b \in Nat, NEW n \in Int, NEW e \in Nat, Abs(n) < Pow2[b + e], NEW k \in Int, n = Pow2[e] * k
  PROVE  Round(b, n) = n
<1>1. CASE Abs(n) <= Pow2[b]
  BY <1>1, RoundSmall
<1>2. CASE Abs(n) > Pow2[b]
  <2>1. PICK d : HasExponent(b, n, d) /\ Round(b, n) = ToUnits(Pow2[d], n)
    BY <1>2, RoundIs
  <2>2. d \in Nat /\ d <= e
    <3>1. d \in Nat /\ b + d - 1 \in Nat /\ Pow2[b + d - 1] < Pow2[b + e]
      BY <2>1, AbsType, PowType DEF HasExponent
    <3>2. ~(Pow2[b + e] <= Pow2[b + d - 1])
      BY <3>1, PowType, b + e \in Nat
    <3>3. ~(b + e <= b + d - 1)
      BY <3>1, <3>2, PowSplit, b + e \in Nat
    <3> QED BY <3>1, <3>3
  <2>3. Pow2[e] = Pow2[d] * Pow2[e - d] /\ Pow2[e - d] \in Nat /\ Pow2[d] \in Nat \ {0}
    BY <2>2, PowSplit, PowType
  <2> DEFINE u == Pow2[d]
             j == Pow2[e - d] * k
  <2>4. j \in Int /\ n = u * j
    BY <2>3
  <2> HIDE DEF j
  <2>5. ToUnits(u, n) = n
    BY <2>3, <2>4, Units
  <2> QED BY <2>1, <2>5
<1> QED BY <1>1, <1>2, AbsType, PowType

\* A value of a mantissa is one of any longer mantissa.
LEMMA RoundWider ==
  ASSUME NEW b \in Nat, NEW c \in Nat, b <= c, NEW n \in Int, Round(b, n) = n
  PROVE  Round(c, n) = n
<1>1. CASE Abs(n) <= Pow2[b]
  <2>1. Pow2[b] <= Pow2[c]
    BY PowSplit
  <2> QED BY <1>1, <2>1, RoundSmall, AbsType, PowType
<1>2. CASE Abs(n) > Pow2[b]
  <2>1. PICK e : HasExponent(b, n, e) /\ Round(b, n) = ToUnits(Pow2[e], n)
    BY <1>2, RoundIs
  <2>2. e \in Nat /\ Pow2[e] \in Nat \ {0} /\ Abs(n) < Pow2[b + e]
    BY <2>1, PowType DEF HasExponent
  <2> DEFINE u == Pow2[e]
  <2> HIDE DEF u
  <2>3. PICK k \in Int : ToUnits(u, n) = u * k
    BY <2>2, Units DEF u
  <2>6. n = Pow2[e] * k
    BY <2>1, <2>3 DEF u
  <2>4. Pow2[b + e] <= Pow2[c + e]
    BY <2>2, PowSplit, b + e \in Nat, c + e \in Nat
  <2>5. Abs(n) < Pow2[c + e]
    BY <2>2, <2>4, AbsType, PowType, b + e \in Nat, c + e \in Nat
  <2> QED BY <2>2, <2>5, <2>6, RoundKeeps
<1> QED BY <1>1, <1>2, AbsType, PowType

\* What is rounded is not zero unless it was, and stays where it is when rounded again.
LEMMA RoundBounds ==
  ASSUME NEW b \in Nat \ {0}, NEW n \in Int, Abs(n) > Pow2[b], NEW e,
         HasExponent(b, n, e), Round(b, n) = ToUnits(Pow2[e], n)
  PROVE  /\ Round(b, n) # 0
         /\ Abs(Round(b, n)) <= Pow2[b + e]
<1> DEFINE u == Pow2[e]
           r == ToUnits(u, n)
           p == Pow2[b]
           h == Pow2[b - 1]
<1>1. e \in Nat \ {0} /\ u \in Nat \ {0} /\ p \in Nat \ {0} /\ h \in Nat \ {0} /\ Abs(n) \in Nat /\ p = 2 * h
  BY PowType, PowHalf, AbsType, b - 1 \in Nat DEF HasExponent
<1>2. Pow2[b + e] = u * p /\ Pow2[b + e - 1] = u * h
  BY <1>1, PowAdd, b - 1 \in Nat, e + b = b + e, e + (b - 1) = b + e - 1
<1>3. u * h <= Abs(n) /\ Abs(n) < u * p
  BY <1>2 DEF HasExponent
<1> DEFINE P == u * p
           H == u * h
<1>4. P \in Nat /\ H \in Nat /\ H >= u /\ P = 2 * H
  BY <1>1
<1>5. r \in Int /\ r <= n + u /\ n - u <= r
  BY <1>1, Units
<1>6. PICK k \in Int : r = u * k
  BY <1>1, Units
<1>10. \A j \in Int : n = u * j => r = n
  BY <1>1, Units
<1>11. u * (-1) = -u /\ u * 1 = u
  BY <1>1
<1>7. n # u => r # 0
  <2>1. ASSUME n = -u PROVE r # 0
    <3>1. r = n
      BY <1>10, <1>11, <2>1
    <3> QED BY <1>1, <2>1, <3>1
  <2>2. ASSUME n # u, n # -u PROVE r # 0
    BY <1>1, <1>3, <1>4, <1>5, <2>2 DEF Abs
  <2> QED BY <2>1, <2>2
<1>8. n = u => r # 0
  <2>1. ASSUME n = u PROVE r = n
    BY <1>10, <1>11, <2>1
  <2> QED BY <1>1, <2>1
<1>9. Abs(r) <= P
  <2> SUFFICES ASSUME Abs(r) > P PROVE FALSE
    BY <1>4, <1>5, AbsType
  <2>1. k <= p /\ -k <= p
    <3>1. ASSUME k >= p + 1 PROVE FALSE
      <4>1. u * k >= u * (p + 1)
        BY <1>1, <3>1
      <4>2. u * (p + 1) = P + u
        BY <1>1
      <4> QED BY <1>1, <1>3, <1>4, <1>5, <1>6, <4>1, <4>2 DEF Abs
    <3>2. ASSUME -k >= p + 1 PROVE FALSE
      <4>1. u * (-k) >= u * (p + 1)
        BY <1>1, <3>2
      <4>2. u * (p + 1) = P + u /\ u * (-k) = -(u * k)
        BY <1>1
      <4> QED BY <1>1, <1>3, <1>4, <1>5, <1>6, <4>1, <4>2 DEF Abs
    <3> QED BY <1>1, <3>1, <3>2
  <2>2. u * k <= u * p /\ u * (-k) <= u * p
    BY <1>1, <2>1
  <2>3. r <= P /\ -r <= P
    BY <1>1, <1>6, <2>2
  <2> QED BY <1>4, <1>5, <2>3 DEF Abs
<1> QED BY <1>2, <1>7, <1>8, <1>9

LEMMA RoundZero ==
  ASSUME NEW b \in Nat \ {0}, NEW n \in Int
  PROVE  Round(b, n) = 0 <=> n = 0
<1>1. CASE Abs(n) <= Pow2[b]
  BY <1>1, RoundSmall
<1>2. CASE Abs(n) > Pow2[b]
  <2>1. Round(b, n) # 0
    BY <1>2, RoundIs, RoundBounds
  <2>2. n # 0
    BY <1>2, PowType DEF Abs
  <2> QED BY <2>1, <2>2
<1> QED BY <1>1, <1>2, AbsType, PowType

LEMMA RoundAgain ==
  ASSUME NEW b \in Nat \ {0}, NEW n \in Int
  PROVE  Round(b, Round(b, n)) = Round(b, n)
<1>1. CASE Abs(n) <= Pow2[b]
  BY <1>1, RoundSmall
<1>2. CASE Abs(n) > Pow2[b]
  <2>1. PICK e : HasExponent(b, n, e) /\ Round(b, n) = ToUnits(Pow2[e], n)
    BY <1>2, RoundIs
  <2> DEFINE r == Round(b, n)
             u == Pow2[e]
  <2>2. e \in Nat /\ u \in Nat \ {0}
    BY <2>1, PowType DEF HasExponent
  <2>3. r \in Int /\ Abs(r) <= Pow2[b + e]
    BY <1>2, <2>1, RoundBounds, RoundType
  <2>4. \E k \in Int : r = u * k
    <3> HIDE DEF u
    <3>1. \E k \in Int : ToUnits(u, n) = u * k
      BY <2>2, Units
    <3> QED BY <2>1, <3>1 DEF u
  <2>5. CASE Abs(r) < Pow2[b + e]
    <3> HIDE DEF r
    <3>1. Round(b, r) = r
      BY <2>2, <2>3, <2>4, <2>5, RoundKeeps
    <3> QED BY <3>1 DEF r
  <2>6. CASE Abs(r) = Pow2[b + e]
    <3> HIDE DEF r
    <3>1. Pow2[b + e] = Pow2[e + 1] * Pow2[b - 1] /\ Pow2[b - 1] \in Nat \ {0}
      BY <2>2, PowAdd, PowType, b - 1 \in Nat, e + 1 \in Nat, (e + 1) + (b - 1) = b + e
    <3>2. Pow2[b + e] < Pow2[b + (e + 1)]
      BY <2>2, Pow2Def, b + e \in Nat, (b + e) + 1 = b + (e + 1)
    <3>3. Pow2[e + 1] \in Nat
      BY <2>2, PowType
    <3>4. \E j \in Int : r = Pow2[e + 1] * j
      <4> DEFINE v == Pow2[e + 1]
                 h == Pow2[b - 1]
      <4>1. r = v * h \/ r = v * (-h)
        BY <2>3, <2>6, <3>1, <3>3 DEF Abs
      <4> HIDE DEF v, h
      <4>2. h \in Int /\ -h \in Int
        BY <3>1 DEF h
      <4>3. \E j \in Int : r = v * j
        BY <4>1, <4>2
      <4> QED BY <4>3 DEF v
    <3>5. Round(b, r) = r
      BY <2>2, <2>3, <2>6, <3>2, <3>4, RoundKeeps, e + 1 \in Nat
    <3> QED BY <3>5 DEF r
  <2>7. Pow2[b + e] \in Nat /\ Abs(r) \in Nat
    BY <2>2, <2>3, PowType, AbsType, b + e \in Nat
  <2> QED BY <2>3, <2>5, <2>6, <2>7
<1> QED BY <1>1, <1>2, AbsType, PowType

-----------------------------------------------------------------------------
(* The one step of an expression.                                            *)

LEMMA Types ==
  Type = {"bool", "char", "uchar", "short", "ushort", "int", "uint", "long", "ulong", "int8", "uint8",
          "int16", "uint16", "int32", "uint32", "int64", "uint64", "float", "double"}
BY DEF Type, Rank

IsObject(o) == o = Object(o.type, o.val) /\ o.type \in Type /\ o.val \in Int /\ IsValue(o.type, o.val)

\* What has been applied to the operands, and what it may have given.
Answered ==
  \/ op = "none" /\ result = ERROR
  \/ op = "lnot" /\ result = object_logic_not(left)
  \/ op \in {"neg", "not"} /\ result \in Unary(op, left)
  \/ op \in Type /\ result \in object_cast(left, op)
  \/ op \in {"add", "sub", "mul", "mod"} \cup BitOps /\ result \in Binary(op, left, right)
  \/ op = "div" /\ WholeQuotient /\ result \in Binary(op, left, right)
  \/ op \in ShiftOps /\ result \in Shift(op, left, right)
  \/ op = "land" /\ result = object_logic_and(left, right)
  \/ op = "lor" /\ result = object_logic_or(left, right)
  \/ op \in Relations /\ result = Relation(op, left, right)

Inv ==
  /\ IsObject(left) /\ IsObject(right)
  /\ same \in BOOLEAN /\ (same => left = right)
  /\ Answered

LEMMA Invariance == Spec => []Inv
<1>1. Init => Inv
  <2> SUFFICES ASSUME Init PROVE Inv
    OBVIOUS
  <2>1. IsObject(left) /\ IsObject(right)
    BY NumbersAssumption DEF Init, IsObject
  <2>2. same \in BOOLEAN /\ (same => left = right)
    BY DEF Init
  <2> QED BY <2>1, <2>2 DEF Init, Inv, Answered
<1>2. Inv /\ [Next]_vars => Inv'
  <2> SUFFICES ASSUME Inv, [Next]_vars PROVE Inv'
    OBVIOUS
  <2>1. CASE UNCHANGED vars
    <3>1. Answered' = Answered
      BY <2>1 DEF vars, Answered, WholeQuotient, Relation, object_equal, object_compare,
                  object_numberical_compare
    <3> QED BY <2>1, <3>1 DEF vars, Inv, IsObject
  <2>2. CASE Next
    <3>1. UNCHANGED <<left, right, same>>
      BY <2>2 DEF Next, Not, Negate, Cast, Compute, Divide, ShiftBy, And, Or, Relate, Apply
    <3>2. (WholeQuotient' = WholeQuotient) /\ \A f : (Relation(f, left, right))' = Relation(f, left, right)
      BY <3>1 DEF WholeQuotient, Relation, object_equal, object_compare, object_numberical_compare
    <3>3. Answered'
      BY <2>2, <3>1, <3>2 DEF Answered, Next, Not, Negate, Cast, Compute, Divide, ShiftBy, And, Or, Relate, Apply
    <3> QED BY <3>1, <3>3 DEF Inv, IsObject
  <2> QED BY <2>1, <2>2
<1> QED BY <1>1, <1>2, PTL DEF Spec

-----------------------------------------------------------------------------
(* Comparisons and digests.                                                  *)

\* A floating value is a double.
LEMMA DoubleHolds ==
  ASSUME NEW o, IsObject(o), FLOATING_TYPE(o.type)
  PROVE  Round(Mantissa["double"], o.val) = o.val
<1>1. Width(o.type) \in Nat /\ Width("double") \in Nat /\ Width(o.type) <= Width("double")
  BY Widths, Types DEF IsObject
<1>2. Round(Width(o.type), o.val) = o.val /\ o.val \in Int
  BY DEF IsObject, IsValue, Width
<1> QED BY <1>1, <1>2, RoundWider, Widths

LEMMA Int64 ==
  /\ "int64" \in Type /\ INTEGER_TYPE("int64") /\ "int64" # "bool"
  /\ \A n \in IntegersOf("int64") : Convert("int64", n) = n
  /\ \A n \in Int : Convert("int64", n) \in IntegersOf("int64") /\ Convert("int64", n) \in Int
<1>1. "int64" \in Type /\ INTEGER_TYPE("int64")
  BY Types DEF INTEGER_TYPE, FLOATING_TYPE
<1>2. MinOf("int64") \in Int /\ MaxOf("int64") \in Int
  BY <1>1, Ranges
<1> QED BY <1>1, <1>2, Kept, Wraps DEF IntegersOf

\* The number that comparisons and digests see.
LEMMA SharpIs ==
  ASSUME NEW o, IsObject(o), Sharp(o)
  PROVE  /\ Round(Mantissa["double"], o.val) = o.val
         /\ NUMBERICAL_GET_VALUE(o) = Convert("int64", o.val)
         /\ object_digest(o) = {Convert("int64", o.val)}
<1>1. CASE INTEGER_TYPE(o.type)
  BY <1>1 DEF Sharp, NUMBERICAL_GET_VALUE, object_digest, object_get_integer
<1>2. CASE ~INTEGER_TYPE(o.type)
  <2>1. o.val \in IntegersOf("int64") /\ Convert("int64", o.val) = o.val
    BY <1>2, Int64 DEF Sharp
  <2>2. Round(Mantissa["double"], o.val) = o.val
    BY <1>2, DoubleHolds DEF INTEGER_TYPE
  <2> QED BY <1>2, <2>1, <2>2 DEF NUMBERICAL_GET_VALUE, object_digest, object_get_floating
<1> QED BY <1>1, <1>2

LEMMA TruthIs == \A b \in BOOLEAN : Truth(b).val \in {0, 1} /\ (Truth(b).val = 1 <=> b) /\ Truth(b).type = "bool"
BY DEF Truth, Object

\* What == gives on sharp operands.
LEMMA EqualIs ==
  ASSUME Inv, op = "==", Sharp(left), Sharp(right)
  PROVE  result.val = 1 <=> same \/ left.val = Convert("int64", right.val)
<1>1. result = Relation("==", left, right)
  BY Types DEF Inv, Answered, BitOps, ShiftOps
<1>2. result = object_equal(left, right)
  BY <1>1 DEF Relation
<1>3. result = Truth(same \/ left.val = Convert("int64", right.val))
  BY <1>2, SharpIs DEF object_equal, Inv
<1> QED BY <1>3, TruthIs DEF Inv

\* Numbers that == finds equal have one digest, for any widths and operands: both are
\* the number that an int64_t makes of them.
THEOREM EqualNumbersHashAlike == Spec => []EqualHashesAlike
<1>1. ASSUME Inv PROVE EqualHashesAlike
  <2> SUFFICES ASSUME op = "==", result.val = 1, Sharp(left), Sharp(right),
                      NEW d \in object_digest(left), NEW e \in object_digest(right)
               PROVE  d = e
    BY DEF EqualHashesAlike
  <2>1. d = Convert("int64", left.val) /\ e = Convert("int64", right.val)
    BY <1>1, SharpIs DEF Inv
  <2>2. CASE same
    BY <1>1, <2>1, <2>2 DEF Inv
  <2>3. CASE left.val = Convert("int64", right.val)
    BY <1>1, <2>1, <2>3, Int64 DEF Inv, IsObject
  <2> QED BY <1>1, <2>2, <2>3, EqualIs
<1> QED BY <1>1, Invariance, PTL

LEMMA ZeroOne ==
  /\ 0 \in IntegersOf("int64") /\ 1 \in IntegersOf("int64")
  /\ object_is_zero(Truth(FALSE)) /\ ~object_is_zero(Truth(TRUE))
<1>1. Width("int64") \in Nat /\ Width("int64") >= 2 /\ TypeOf["int64"].signed = TRUE /\ "int64" \in Type
  BY Widths, Int64, NumbersAssumption
<1>2. Pow2[Width("int64") - 1] >= 2
  <2>1. Pow2[1] = 2
    BY Pow2Def, 0 \in Nat, 0 + 1 = 1
  <2> DEFINE w == Width("int64") - 1
  <2>2. w \in Nat /\ 1 <= w
    BY <1>1
  <2> HIDE DEF w
  <2>3. Pow2[w] >= 2
    BY <2>1, <2>2, PowSplit
  <2> QED BY <2>3 DEF w
<1>3. 0 \in IntegersOf("int64") /\ 1 \in IntegersOf("int64")
  <2>1. MinOf("int64") = -Pow2[Width("int64") - 1] /\ MaxOf("int64") = Pow2[Width("int64") - 1] - 1
    BY <1>1, Ranges
  <2> QED BY <1>1, <1>2, <2>1, PowType DEF IntegersOf
<1>4. ASSUME NEW b \in BOOLEAN PROVE object_is_zero(Truth(b)) <=> ~b
  <2> DEFINE n == IF b THEN 1 ELSE 0
  <2>1. Truth(b).type = "bool" /\ Truth(b).val = n
    BY DEF Truth, Object
  <2>2. INTEGER_TYPE("bool")
    BY DEF INTEGER_TYPE, FLOATING_TYPE
  <2>3. n \in Int /\ Convert("int64", n) = n
    BY <1>3, Int64
  <2>4. object_is_zero(Truth(b)) <=> Round(Mantissa["double"], n) = 0
    BY <2>1, <2>2, <2>3 DEF object_is_zero, NUMBERICAL_GET_VALUE, object_get_integer
  <2>5. Round(Mantissa["double"], n) = 0 <=> n = 0
    BY <2>3, RoundZero, NumbersAssumption
  <2> QED BY <2>4, <2>5
<1> QED BY <1>3, <1>4

\* The relations are those of the integers, for any widths and operands that doubles and
\* int64_t hold: neither a conversion to a double nor the difference is inexact there.
THEOREM ComparisonsExact == Spec => []CompareExact
<1>1. ASSUME Inv PROVE CompareExact
  <2> SUFFICES ASSUME op \in Relations, \A o \in {left, right} : Sharp(o) /\ o.val \in IntegersOf("int64")
               PROVE  result.val = 1 <=>
                        CASE op = "==" -> left.val = right.val
                          [] op = "!=" -> left.val # right.val
                          [] op = "<"  -> left.val < right.val
                          [] op = ">"  -> left.val > right.val
                          [] op = "<=" -> left.val <= right.val
                          [] op = ">=" -> left.val >= right.val
    BY DEF CompareExact
  <2> DEFINE l == left.val
             r == right.val
  <2>1. /\ l \in Int /\ r \in Int /\ same \in BOOLEAN /\ (same => l = r)
        /\ Convert("int64", l) = l /\ Convert("int64", r) = r
    BY <1>1, Int64 DEF Inv, IsObject
  <2>2. /\ NUMBERICAL_GET_VALUE(left) = l /\ NUMBERICAL_GET_VALUE(right) = r
        /\ Round(Mantissa["double"], l) = l
    BY <1>1, <2>1, SharpIs DEF Inv
  <2>3. object_compare(left, right).val = Sign(l - r)
    BY <2>1, <2>2 DEF object_compare, object_numberical_compare, Object, Sign
  <2>4. object_equal(left, right) = Truth(l = r)
    BY <2>1, <2>2 DEF object_equal
  <2>5. result = Relation(op, left, right)
    BY <1>1, Types DEF Inv, Answered, BitOps, ShiftOps, Relations
  <2> DEFINE c == Sign(l - r)
  <2>6. (c < 0 <=> l < r) /\ (c > 0 <=> l > r)  /\ (c <= 0 <=> l <= r) /\ (c >= 0 <=> l >= r)
    BY <2>1 DEF Sign
  <2> HIDE DEF c, l, r
  <2>7. CASE op = "=="
    BY <2>4, <2>5, <2>7, TruthIs DEF Relation, l, r
  <2>8. CASE op = "!="
    <3>1. result = Truth(object_is_zero(Truth(l = r)))
      BY <2>4, <2>5, <2>8 DEF Relation
    <3>2. CASE l = r
      <4>1. result = Truth(object_is_zero(Truth(TRUE)))
        BY <3>1, <3>2
      <4>2. result = Truth(FALSE)
        BY <4>1, ZeroOne DEF Truth
      <4> QED BY <2>8, <3>2, <4>2 DEF Truth, Object, l, r
    <3>3. CASE l # r
      <4>1. result = Truth(object_is_zero(Truth(FALSE)))
        BY <3>1, <3>3
      <4>2. result = Truth(TRUE)
        BY <4>1, ZeroOne DEF Truth
      <4> QED BY <2>8, <3>3, <4>2 DEF Truth, Object, l, r
    <3> QED BY <3>2, <3>3
  <2>9. CASE op = "<"
    <3>1. result = Truth(c < 0)
      BY <2>3, <2>5, <2>9 DEF Relation, c
    <3>2. result.val = 1 <=> c < 0
      BY <3>1 DEF Truth, Object
    <3> QED BY <2>6, <2>9, <3>2 DEF l, r
  <2>10. CASE op = ">"
    <3>1. result = Truth(c > 0)
      BY <2>3, <2>5, <2>10 DEF Relation, c
    <3>2. result.val = 1 <=> c > 0
      BY <3>1 DEF Truth, Object
    <3> QED BY <2>6, <2>10, <3>2 DEF l, r
  <2>11. CASE op = "<="
    <3>1. result = Truth(c <= 0)
      BY <2>3, <2>5, <2>11 DEF Relation, c
    <3>2. result.val = 1 <=> c <= 0
      BY <3>1 DEF Truth, Object
    <3> QED BY <2>6, <2>11, <3>2 DEF l, r
  <2>12. CASE op = ">="
    <3>1. result = Truth(c >= 0)
      BY <2>3, <2>5, <2>12 DEF Relation, c
    <3>2. result.val = 1 <=> c >= 0
      BY <3>1 DEF Truth, Object
    <3> QED BY <2>6, <2>12, <3>2 DEF l, r
  <2> QED BY <2>7, <2>8, <2>9, <2>10, <2>11, <2>12 DEF Relations
<1> QED BY <1>1, Invariance, PTL

-----------------------------------------------------------------------------
(* Casts.                                                                    *)

\* From one integer type to another that has the value.
LEMMA IntegerCast ==
  ASSUME NEW o, IsObject(o), INTEGER_TYPE(o.type), NEW u \in Type, INTEGER_TYPE(u), o.val \in IntegersOf(u)
  PROVE  object_cast(o, u) = {Object(u, o.val)}
<1>1. o.val \in Int
  BY DEF IsObject
<1>2. CASE u # "bool"
  <2>1. Convert(u, Convert("int64", o.val)) = o.val
    BY <1>1, <1>2, Through, Kept
  <2> QED BY <2>1 DEF object_cast, object_get_integer
<1>3. CASE u = "bool"
  <2>1. o.val \in {0, 1}
    <3>1. MinOf("bool") = 0 /\ MaxOf("bool") = 1
      BY <1>3, Ranges, Widths, Pow2Def
    <3> QED BY <1>1, <1>3, <3>1 DEF IntegersOf
  <2>2. Convert("int64", o.val) = o.val
    BY <2>1, ZeroOne, Int64
  <2>3. Convert(u, o.val) = o.val
    BY Kept
  <2> QED BY <2>2, <2>3 DEF object_cast, object_get_integer
<1> QED BY <1>2, <1>3

LEMMA IntegerValue ==
  ASSUME NEW o, IsObject(o), INTEGER_TYPE(o.type)
  PROVE  o.val \in IntegersOf(o.type)
BY DEF IsObject, IsValue, INTEGER_TYPE

\* From an integer type to a floating one that has all its values.
LEMMA FloatingCast ==
  ASSUME NEW o, IsObject(o), INTEGER_TYPE(o.type), NEW u \in Type, FLOATING_TYPE(u), Size(o.type) <= Size(u)
  PROVE  object_cast(o, u) = {Object(u, o.val)}
<1> DEFINE t == o.type
           n == o.val
<1>1. t \in Type /\ n \in Int /\ n \in IntegersOf(t)
  BY IntegerValue DEF IsObject
<1>2. Width(t) \in Nat \ {0} /\ Width(u) \in Nat \ {0} /\ Width(u) < Width("int64")
      /\ Width("int64") \in Nat /\ TypeOf["int64"].signed = TRUE
  BY <1>1, Widths, Int64
<1>3. Width(t) <= Width("int64") - 1
  BY <1>2, PowLess DEF Size, Width
<1>4. Size(t) <= Pow2[Width("int64") - 1] /\ Size(t) \in Nat /\ Pow2[Width("int64") - 1] \in Nat
  BY <1>2, <1>3, PowSplit, PowType, Width("int64") - 1 \in Nat DEF Size, Width
<1>5. -Size(t) <= n /\ n < Size(t)
  <2>1. /\ Size(t) \in Nat \ {0} /\ MinOf(t) \in Int /\ MaxOf(t) = MinOf(t) + Size(t) - 1
        /\ MinOf(t) = IF TypeOf[t].signed THEN -Pow2[Width(t) - 1] ELSE 0
        /\ Size(t) = 2 * Pow2[Width(t) - 1] /\ Pow2[Width(t) - 1] \in Nat \ {0}
    BY <1>1, Ranges
  <2> QED BY <1>1, <2>1 DEF IntegersOf
<1>6. n \in IntegersOf("int64")
  <2>1. MinOf("int64") = -Pow2[Width("int64") - 1] /\ MaxOf("int64") = Pow2[Width("int64") - 1] - 1
    BY <1>2, Int64, Ranges
  <2> QED BY <1>1, <1>4, <1>5, <2>1 DEF IntegersOf
<1>7. Convert("int64", n) = n
  BY <1>6, Int64
<1>8. Round(Width(u), n) = n
  <2>1. Abs(n) <= Pow2[Width(u)]
    BY <1>1, <1>2, <1>4, <1>5, PowType DEF Abs, Size, Width
  <2> QED BY <1>1, <1>2, <2>1, RoundSmall
<1>9. Convert(u, n) = n
  BY <1>8 DEF Convert, FLOATING_TYPE, Width
<1> QED BY <1>7, <1>9 DEF object_cast, object_get_integer

\* A cast to a type that has every value of the operand's type gives the same number, and
\* so does the cast back, whatever the widths: an int64_t on the way wraps a value only
\* to have it wrapped back, and a double holds what the mantissas allow.
THEOREM WideningsLossless == Spec => []WideningLossless
<1>1. ASSUME Inv PROVE WideningLossless
  <2> SUFFICES ASSUME op \in Type, Wider(left.type, op)
               PROVE  object_cast(result, left.type) = {left}
    BY DEF WideningLossless
  <2> DEFINE t == left.type
             n == left.val
  <2>1. IsObject(left) /\ t \in Type /\ n \in Int /\ left = Object(t, n)
    BY <1>1 DEF Inv, IsObject
  <2>2. result \in object_cast(left, op)
    BY <1>1, Types DEF Inv, Answered, BitOps, ShiftOps, Relations
  <2>3. CASE INTEGER_TYPE(t) /\ INTEGER_TYPE(op)
    <3>1. n \in IntegersOf(t)
      BY <2>1, <2>3, IntegerValue
    <3>2. n \in IntegersOf(op)
      <4>1. MinOf(op) <= MinOf(t) /\ MaxOf(t) <= MaxOf(op)
        BY <2>3 DEF Wider
      <4>2. MinOf(op) \in Int /\ MaxOf(op) \in Int /\ MinOf(t) \in Int /\ MaxOf(t) \in Int
        BY <2>1, Ranges
      <4> QED BY <2>1, <3>1, <4>1, <4>2 DEF IntegersOf
    <3>3. result = Object(op, n)
      BY <2>1, <2>2, <2>3, <3>2, IntegerCast
    <3>4. IsObject(result) /\ result.type = op /\ result.val = n
      BY <2>1, <2>3, <3>2, <3>3 DEF IsObject, Object, IsValue, INTEGER_TYPE
    <3>5. object_cast(result, t) = {Object(t, n)}
      BY <2>1, <2>3, <3>1, <3>4, IntegerCast
    <3> QED BY <2>1, <3>5
  <2>4. CASE INTEGER_TYPE(t) /\ FLOATING_TYPE(op)
    <3>1. n \in IntegersOf(t) /\ Convert(t, n) = n
      BY <2>1, <2>4, IntegerValue, Kept
    <3>2. result = Object(op, n)
      BY <2>1, <2>2, <2>4, FloatingCast DEF Wider, INTEGER_TYPE
    <3>3. result.type = op /\ result.val = n
      BY <3>2 DEF Object
    <3> QED BY <2>1, <2>4, <3>1, <3>3 DEF object_cast, INTEGER_TYPE, object_get_floating
  <2>5. CASE FLOATING_TYPE(t)
    <3>1. FLOATING_TYPE(op) /\ Width(t) <= Width(op) /\ Width(t) \in Nat /\ Width(op) \in Nat
      BY <2>1, <2>5, Widths DEF Wider, INTEGER_TYPE, Width
    <3>2. Round(Width(t), n) = n
      BY <2>1, <2>5 DEF IsObject, IsValue, Width
    <3>3. Round(Width(op), n) = n
      BY <2>1, <3>1, <3>2, RoundWider
    <3>4. Convert(op, n) = n /\ Convert(t, n) = n
      BY <2>5, <3>1, <3>2, <3>3 DEF Convert, FLOATING_TYPE, Width
    <3>5. result = Object(op, n)
      BY <2>2, <2>5, <3>1, <3>4 DEF object_cast, INTEGER_TYPE, object_get_floating
    <3>6. result.type = op /\ result.val = n
      BY <3>5 DEF Object
    <3> QED BY <2>1, <2>5, <3>1, <3>4, <3>6 DEF object_cast, INTEGER_TYPE, object_get_floating
  <2> QED BY <2>3, <2>4, <2>5 DEF INTEGER_TYPE
<1> QED BY <1>1, Invariance, PTL

-----------------------------------------------------------------------------
(* Every object holds a value of its type.                                   *)

\* Every set of w bits is that of a number.
LEMMA BitsExist ==
  \A w \in Nat : \A S \in SUBSET (0 .. w - 1) : \E n \in 0 .. Pow2[w] - 1 : BitsOf(w, n) = S
<1> DEFINE Bad == {w \in Nat : ~\A S \in SUBSET (0 .. w - 1) : \E n \in 0 .. Pow2[w] - 1 : BitsOf(w, n) = S}
<1> SUFFICES ASSUME Bad # {} PROVE FALSE
  OBVIOUS
<1>1. PICK w \in Bad : \A k \in Bad : w <= k
  BY Least
<1>2. PICK S \in SUBSET (0 .. w - 1) : \A n \in 0 .. Pow2[w] - 1 : BitsOf(w, n) # S
  BY <1>1
<1>3. CASE w = 0
  <2>1. BitsOf(w, 0) = S
    BY <1>3 DEF BitsOf
  <2> QED BY <1>2, <1>3, <2>1, Pow2Def
<1>4. CASE w # 0
  <2> DEFINE v == w - 1
             R == S \ {v}
             top == Pow2[v]
  <2>1. v \in Nat /\ w = v + 1 /\ v \notin Bad /\ R \in SUBSET (0 .. v - 1)
    BY <1>1, <1>4
  <2>2. PICK n \in 0 .. top - 1 : BitsOf(v, n) = R
    BY <2>1
  <2>3. top \in Nat \ {0} /\ Pow2[w] = 2 * top
    BY <2>1, Pow2Def, PowType
  <2> DEFINE m == IF v \in S THEN n + top ELSE n
  <2>4. m \in 0 .. Pow2[w] - 1
    BY <2>2, <2>3
  <2>5. (m \div top) % 2 = 1 <=> v \in S
    <3>1. n \in 0 .. top - 1 /\ n \in Int /\ n = 0 * top + n /\ n + top = n + 1 * top
      BY <2>2, <2>3
    <3> HIDE DEF top
    <3>2. n \div top = 0
      BY <2>3, <3>1
    <3>3. (n + 1 * top) \div top = (n \div top) + 1
      BY <2>3, <3>1, 1 \in Int, DivAdd
    <3>4. (n + top) \div top = 1
      BY <3>1, <3>2, <3>3
    <3> QED BY <3>2, <3>4
  <2>6. ASSUME NEW i \in 0 .. v - 1 PROVE (m \div Pow2[i]) % 2 = (n \div Pow2[i]) % 2
    <3> DEFINE u == Pow2[i]
               h == Pow2[v - i - 1]
    <3>1. i \in Nat /\ v - i - 1 \in Nat /\ u \in Nat \ {0} /\ h \in Nat
      BY <2>1, PowType
    <3>2. top = u * (2 * h)
      <4>1. top = u * Pow2[v - i] /\ v - i \in Nat \ {0}
        BY <2>1, <3>1, PowSplit
      <4> QED BY <4>1, PowHalf
    <3> DEFINE q == n \div u
    <3>3. n \in Int /\ 2 * h \in Int
      BY <2>2, <2>3, <3>1
    <3>4. (n + top) \div u = q + 2 * h
      <4>1. (n + (2 * h) * u) \div u = q + 2 * h
        <5> HIDE DEF u, h, top
        <5> QED BY <3>1, <3>3, DivAdd
      <4>2. n + top = n + (2 * h) * u
        <5> HIDE DEF u, h, top
        <5> QED BY <3>1, <3>2, <3>3
      <4> QED BY <4>1, <4>2
    <3>5. (q + 2 * h) % 2 = q % 2
      <4>1. q \in Int
        BY <3>1, <3>3
      <4> HIDE DEF q, h
      <4> QED BY <3>1, <4>1
    <3> QED BY <3>4, <3>5
  <2>7. BitsOf(w, m) = S
    <3>1. ASSUME NEW i \in 0 .. w - 1 PROVE (m \div Pow2[i]) % 2 = 1 <=> i \in S
      <4>1. CASE i = v
        BY <4>1, <2>5
      <4>2. CASE i # v
        <5>1. i \in 0 .. v - 1
          BY <2>1, <4>2
        <5>2. (n \div Pow2[i]) % 2 = 1 <=> i \in R
          BY <2>2, <5>1 DEF BitsOf
        <5> QED BY <2>6, <4>2, <5>1, <5>2
      <4> QED BY <4>1, <4>2
    <3> HIDE DEF m
    <3> QED BY <1>2, <3>1 DEF BitsOf
  <2> QED BY <1>2, <2>4, <2>7
<1> QED BY <1>3, <1>4

LEMMA BitwiseType ==
  ASSUME NEW f \in BitOps, NEW w \in Nat, NEW a, NEW b
  PROVE  Bitwise(f, w, a, b) \in 0 .. Pow2[w] - 1
<1> DEFINE S == BitsOf(w, a)
           R == BitsOf(w, b)
           bits == CASE f = "and" -> S \cap R
                     [] f = "or"  -> S \cup R
                     [] f = "xor" -> (S \cup R) \ (S \cap R)
<1>1. bits \in SUBSET (0 .. w - 1)
  <2>1. S \subseteq 0 .. w - 1 /\ R \subseteq 0 .. w - 1
    BY DEF BitsOf
  <2> HIDE DEF S, R
  <2> QED BY <2>1 DEF BitOps
<1>2. Bitwise(f, w, a, b) = CHOOSE n \in 0 .. Pow2[w] - 1 : BitsOf(w, n) = bits
  BY DEF Bitwise
<1> HIDE DEF bits
<1> QED BY <1>1, <1>2, BitsExist

LEMMA ObjectIs == \A t, n : Object(t, n).type = t /\ Object(t, n).val = n
BY DEF Object

LEMMA ConvertType ==
  ASSUME NEW t \in Type, NEW n \in Int
  PROVE  Convert(t, n) \in Int /\ IsObject(Object(t, Convert(t, n)))
<1> DEFINE c == Convert(t, n)
<1>1. c \in Int /\ IsValue(t, c)
  <2>1. CASE FLOATING_TYPE(t)
    <3>1. Width(t) \in Nat \ {0} /\ c = Round(Width(t), n)
      BY <2>1, Widths DEF Convert, FLOATING_TYPE, Width
    <3>2. Round(Width(t), n) \in Int /\ Round(Width(t), Round(Width(t), n)) = Round(Width(t), n)
      BY <3>1, RoundType, RoundAgain
    <3> QED BY <2>1, <3>1, <3>2 DEF IsValue, Width
  <2>2. CASE t = "bool"
    <3>1. c \in {0, 1} /\ INTEGER_TYPE(t)
      BY <2>2 DEF Convert, INTEGER_TYPE, FLOATING_TYPE
    <3>2. MinOf("bool") = 0 /\ MaxOf("bool") = 1
      BY <2>2, Ranges, Widths, Pow2Def
    <3> QED BY <2>2, <3>1, <3>2 DEF IsValue, IntegersOf, INTEGER_TYPE
  <2>3. CASE INTEGER_TYPE(t) /\ t # "bool"
    <3>1. c \in IntegersOf(t)
      BY <2>3, Wraps
    <3>2. MinOf(t) \in Int /\ MaxOf(t) \in Int
      BY Ranges
    <3> QED BY <2>3, <3>1, <3>2 DEF IsValue, IntegersOf, INTEGER_TYPE
  <2> QED BY <2>1, <2>2, <2>3 DEF INTEGER_TYPE
<1> HIDE DEF c
<1>2. IsObject(Object(t, c))
  BY <1>1, ObjectIs DEF IsObject
<1> QED BY <1>1, <1>2 DEF c

LEMMA CastType ==
  ASSUME NEW o, IsObject(o), NEW t \in Type, NEW p \in object_cast(o, t)
  PROVE  IsObject(p) /\ p.type = t
<1>1. o.val \in Int /\ Convert("int64", o.val) \in Int
  BY Int64 DEF IsObject
<1>2. CASE \E n \in Int : p = Object(t, Convert(t, n))
  BY <1>2, ConvertType, ObjectIs
<1>3. CASE \E n \in IntegersOf(t) : p = Object(t, n) /\ INTEGER_TYPE(t)
  <2>1. PICK n \in IntegersOf(t) : p = Object(t, n)
    BY <1>3
  <2>2. n \in Int
    BY <2>1, Ranges DEF IntegersOf
  <2> QED BY <1>3, <2>1, <2>2, ObjectIs DEF IsObject, IsValue, INTEGER_TYPE
<1>4. CASE INTEGER_TYPE(o.type)
  BY <1>1, <1>2, <1>4 DEF object_cast, object_get_integer
<1>5. CASE ~INTEGER_TYPE(o.type) /\ (FLOATING_TYPE(t) \/ t = "bool" \/ o.val \in IntegersOf(t))
  BY <1>1, <1>2, <1>5 DEF object_cast, object_get_floating
<1>6. CASE ~INTEGER_TYPE(o.type) /\ ~(FLOATING_TYPE(t) \/ t = "bool" \/ o.val \in IntegersOf(t))
  BY <1>3, <1>6 DEF object_cast, INTEGER_TYPE
<1> QED BY <1>4, <1>5, <1>6

LEMMA TruthType == \A b \in BOOLEAN : IsObject(Truth(b))
<1> SUFFICES ASSUME NEW b \in BOOLEAN PROVE IsObject(Truth(b))
  OBVIOUS
<1>1. Truth(b) = Object("bool", Convert("bool", IF b THEN 1 ELSE 0))
  BY DEF Truth, Convert
<1> QED BY <1>1, ConvertType, Types

LEMMA QuotientType == \A a \in Int, b \in Int \ {0} : Quotient(a, b) \in Int /\ Remainder(a, b) \in Int
<1> SUFFICES ASSUME NEW a \in Int, NEW b \in Int \ {0}
             PROVE  Quotient(a, b) \in Int /\ Remainder(a, b) \in Int
  OBVIOUS
<1>1. Abs(a) \in Nat /\ Abs(b) \in Nat \ {0} /\ Sign(a) \in {-1, 0, 1} /\ Sign(b) \in {-1, 0, 1}
  BY DEF Abs, Sign
<1>2. Abs(a) \div Abs(b) \in Int
  BY <1>1
<1>3. Sign(a) * Sign(b) \in Int
  BY <1>1
<1>4. Quotient(a, b) \in Int
  BY <1>2, <1>3 DEF Quotient
<1> QED BY <1>4 DEF Remainder

Applied == {"neg", "add", "sub", "mul", "div", "mod", "not"} \cup BitOps \cup ShiftOps

LEMMA PromotedType == \A t \in Type : Promoted(t) \in Type /\ Width(Promoted(t)) \in Nat \ {0}
BY Widths, Types DEF Promoted

LEMMA PowerType == \A t \in Type, n \in Int : Power(t, n) \in Nat \ {0}
<1> SUFFICES ASSUME NEW t \in Type, NEW n \in Int PROVE Power(t, n) \in Nat \ {0}
  OBVIOUS
<1> DEFINE w == Width(Promoted(t))
<1>1. w \in Nat \ {0}
  BY PromotedType
<1>2. Power(t, n) = Pow2[n % w]
  BY DEF Power, Width
<1> HIDE DEF w
<1>3. n % w \in Nat
  BY <1>1
<1> QED BY <1>2, <1>3, PowType

LEMMA ComputedType ==
  ASSUME NEW t \in Type, NEW f \in Applied, NEW a \in Int, NEW b \in Int, f \in {"div", "mod"} => b # 0
  PROVE  Computed(t, f, a, b) \in Int
<1>1. CASE f \in {"neg", "not", "add", "sub", "mul"}
  BY <1>1 DEF Computed, BitOps
<1>2. CASE f \in {"div", "mod"}
  <2>1. Quotient(a, b) \in Int /\ Remainder(a, b) \in Int
    BY <1>2, QuotientType
  <2>2. Computed(t, f, a, b) \in {Quotient(a, b), Remainder(a, b)}
    BY <1>2 DEF Computed, BitOps
  <2> QED BY <2>1, <2>2
<1>3. CASE f \in BitOps
  <2>1. Computed(t, f, a, b) = Bitwise(f, Width(t), a, b)
    BY <1>3 DEF Computed, BitOps, Width
  <2>2. Width(t) \in Nat
    BY Widths
  <2> QED BY <1>3, <2>1, <2>2, BitwiseType, PowType
<1>4. CASE f = "lshift"
  BY <1>4, PowerType DEF Computed, BitOps
<1>5. CASE f = "rshift"
  <2> DEFINE r == Read(t, f)
  <2>1. r \in Type
    BY Types DEF Read
  <2>2. Convert(r, a) \in Int /\ Power(r, b) \in Nat \ {0}
    BY <2>1, ConvertType, PowerType
  <2>3. Computed(t, f, a, b) = Convert(r, a) \div Power(r, b)
    BY <1>5 DEF Computed, BitOps
  <2> HIDE DEF r
  <2> QED BY <2>2, <2>3
<1> QED BY <1>1, <1>2, <1>3, <1>4, <1>5 DEF Applied, ShiftOps

LEMMA RoutineType ==
  ASSUME NEW t \in Type, NEW f \in Applied, NEW a \in Int, NEW b \in Int,
         FLOATING_TYPE(t) /\ f = "div" => b # 0
  PROVE  Routine(t, f, a, b) = CRASH \/ IsObject(Routine(t, f, a, b))
<1> SUFFICES ASSUME Routine(t, f, a, b) # CRASH PROVE IsObject(Routine(t, f, a, b))
  OBVIOUS
<1>1. /\ f \in TypeOf[t].ops
      /\ ~(f \in {"div", "mod"} /\ INTEGER_TYPE(t) /\ Traps(t, a, b))
      /\ Routine(t, f, a, b) = Object(Made(t, f), Convert(Made(t, f), Computed(t, f, a, b)))
  BY DEF Routine
<1>2. FLOATING_TYPE(t) => f # "mod"
  BY <1>1 DEF FLOATING_TYPE, TypeOf, floatobject, doubleobject, FloatingOps, TruthOps, ArithmeticOps
<1>3. f \in {"div", "mod"} => b # 0
  BY <1>1, <1>2 DEF INTEGER_TYPE, Traps
<1>4. Made(t, f) \in Type
  BY Types DEF Made
<1> QED BY <1>1, <1>3, <1>4, ComputedType, ConvertType

\* A divisor that is not zero stays so when it is cast to a floating type.
LEMMA DivisorKept ==
  ASSUME NEW o, IsObject(o), ~object_is_zero(o), NEW t \in Type, FLOATING_TYPE(t), NEW p \in object_cast(o, t)
  PROVE  p.val # 0
<1>1. Width(t) \in Nat \ {0} /\ Mantissa["double"] \in Nat \ {0}
  BY Widths, NumbersAssumption
<1>2. ASSUME NEW n \in Int, n # 0 PROVE Convert(t, n) # 0
  BY <1>1, <1>2, RoundZero DEF Convert, FLOATING_TYPE, Width
<1>3. CASE INTEGER_TYPE(o.type)
  <2>1. Convert("int64", o.val) \in Int
    BY Int64 DEF IsObject
  <2>2. Convert("int64", o.val) # 0
    BY <1>1, <1>3, <2>1, RoundZero DEF object_is_zero, NUMBERICAL_GET_VALUE, object_get_integer
  <2> QED BY <1>2, <1>3, <2>1, <2>2, ObjectIs DEF object_cast, object_get_integer
<1>4. CASE ~INTEGER_TYPE(o.type)
  <2>1. o.val # 0 /\ o.val \in Int
    BY <1>4 DEF object_is_zero, NUMBERICAL_GET_VALUE, object_get_floating, IsObject
  <2> QED BY <1>2, <1>4, <2>1, ObjectIs DEF object_cast, object_get_floating
<1> QED BY <1>3, <1>4

LEMMA RankType == \A t \in Type : Rank[t] \in Nat /\ (FLOATING_TYPE(t) => Rank[t] >= 19) /\ (Rank[t] >= 19 => FLOATING_TYPE(t))
BY Types DEF Rank, FLOATING_TYPE

LEMMA OperandsType ==
  ASSUME IsObject(left), IsObject(right), NEW p \in Operands(left, right)
  PROVE  /\ IsObject(p[1]) /\ IsObject(p[2])
         /\ ~object_is_zero(right) /\ FLOATING_TYPE(p[1].type) => p[2].val # 0
<1>1. left.type \in Type /\ right.type \in Type /\ "int" \in Type /\ ~FLOATING_TYPE("int")
  BY Types DEF IsObject, FLOATING_TYPE
<1>2. CASE left.type # right.type
  <2>1. p[1] \in OBJECT_BIGGER(left, right) /\ p[2] \in OBJECT_BIGGER(right, left)
    BY <1>2 DEF Operands
  <2>2. IsObject(p[1])
    BY <1>1, <2>1, CastType DEF OBJECT_BIGGER
  <2>3. IsObject(p[2])
    BY <1>1, <2>1, CastType DEF OBJECT_BIGGER
  <2>4. ASSUME ~object_is_zero(right), FLOATING_TYPE(p[1].type) PROVE p[2].val # 0
    <3>1. CASE Rank[right.type] < Rank[left.type]
      <4>1. p[1] = left /\ p[2] \in object_cast(right, left.type)
        BY <1>1, <2>1, <3>1, RankType DEF OBJECT_BIGGER
      <4> QED BY <1>1, <2>4, <4>1, DivisorKept
    <3>2. CASE ~(Rank[right.type] < Rank[left.type])
      <4>1. p[2] = right
        BY <2>1, <3>2 DEF OBJECT_BIGGER
      <4>2. FLOATING_TYPE(right.type)
        <5>1. CASE Rank[left.type] < Rank[right.type]
          BY <1>1, <2>1, <2>4, <5>1, CastType DEF OBJECT_BIGGER
        <5>2. CASE ~(Rank[left.type] < Rank[right.type])
          <6>1. p[1] = left
            BY <2>1, <5>2 DEF OBJECT_BIGGER
          <6> QED BY <1>1, <2>4, <3>2, <6>1, RankType
        <5> QED BY <5>1, <5>2
      <4> QED BY <2>4, <4>1, <4>2 DEF object_is_zero, NUMBERICAL_GET_VALUE, INTEGER_TYPE, object_get_floating
    <3> QED BY <3>1, <3>2
  <2> QED BY <2>2, <2>3, <2>4
<1>3. CASE left.type = right.type /\ Rank[left.type] < Rank["int"]
  <2>1. p[1] \in object_cast(left, "int") /\ p[2] \in object_cast(right, "int")
    BY <1>3 DEF Operands
  <2> QED BY <1>1, <2>1, CastType
<1>4. CASE left.type = right.type /\ ~(Rank[left.type] < Rank["int"])
  <2>1. p[1] = left /\ p[2] = right
    BY <1>4 DEF Operands
  <2> QED BY <1>4, <2>1 DEF object_is_zero, NUMBERICAL_GET_VALUE, INTEGER_TYPE, object_get_floating
<1> QED BY <1>2, <1>3, <1>4

LEMMA BinaryType ==
  ASSUME IsObject(left), IsObject(right), NEW f \in {"add", "sub", "mul", "div", "mod"} \cup BitOps,
         NEW r \in Binary(f, left, right)
  PROVE  IsObject(r) \/ r \in {ERROR, CRASH}
<1> SUFFICES ASSUME r # ERROR PROVE IsObject(r) \/ r = CRASH
  OBVIOUS
<1>1. f \in {"div", "mod"} => ~object_is_zero(right)
  BY DEF Binary
<1>2. PICK p \in Operands(left, right) : r = Routine(p[1].type, f, p[1].val, p[2].val)
  BY DEF Binary
<1>3. /\ p[1].type \in Type /\ p[1].val \in Int /\ p[2].val \in Int
      /\ ~object_is_zero(right) /\ FLOATING_TYPE(p[1].type) => p[2].val # 0
  BY <1>2, OperandsType DEF IsObject
<1>4. f \in Applied
  BY DEF Applied
<1> QED BY <1>1, <1>2, <1>3, <1>4, RoutineType

LEMMA UnaryType ==
  ASSUME NEW o, IsObject(o), NEW f \in {"neg", "not"}, NEW r \in Unary(f, o)
  PROVE  IsObject(r) \/ r \in {ERROR, CRASH}
<1> SUFFICES ASSUME r # ERROR PROVE IsObject(r) \/ r = CRASH
  OBVIOUS
<1>1. "int" \in Type /\ o.type \in Type /\ f \in Applied /\ f # "div"
  BY Types DEF IsObject, Applied
<1>2. PICK t \in IF Rank[o.type] < Rank["int"] THEN object_cast(o, "int") ELSE {o} :
        r = Routine(o.type, f, Convert(o.type, t.val), 0)
  BY DEF Unary
<1>3. t.val \in Int
  BY <1>1, <1>2, CastType DEF IsObject
<1>4. Convert(o.type, t.val) \in Int
  BY <1>1, <1>3, ConvertType
<1> QED BY <1>1, <1>2, <1>4, RoutineType

LEMMA ShiftType ==
  ASSUME IsObject(left), IsObject(right), NEW f \in ShiftOps, NEW r \in Shift(f, left, right)
  PROVE  IsObject(r) \/ r \in {ERROR, CRASH}
<1> SUFFICES ASSUME r # ERROR PROVE IsObject(r) \/ r = CRASH
  OBVIOUS
<1>1. "int" \in Type /\ left.type \in Type /\ f \in Applied /\ f # "div" /\ left.val \in Int
      /\ Convert("int64", right.val) \in Int /\ Convert("int64", left.val) \in Int
  BY Types, Int64 DEF IsObject, Applied, ShiftOps
<1>2. PICK o \in IF Rank[left.type] < Rank["int"] THEN {Object("int", object_get_integer(left))} ELSE {left} :
        r = Routine(o.type, f, o.val, object_get_integer(right))
  BY DEF Shift
<1>3. o.type \in Type /\ o.val \in Int
  BY <1>1, <1>2, ObjectIs DEF object_get_integer
<1> QED BY <1>1, <1>2, <1>3, RoutineType DEF object_get_integer

LEMMA RelationType ==
  ASSUME NEW f \in Relations
  PROVE  \E b \in BOOLEAN : Relation(f, left, right) = Truth(b)
<1> DEFINE c == object_compare(left, right).val
           eq == same \/ Round(Mantissa["double"], left.val) = NUMBERICAL_GET_VALUE(right)
<1>1. CASE f = "=="
  <2>1. Relation(f, left, right) = Truth(eq)
    BY <1>1 DEF Relation, object_equal
  <2> HIDE DEF eq
  <2>2. Truth(eq) = Truth(eq = TRUE)
    BY DEF Truth
  <2> QED BY <2>1, <2>2
<1>2. CASE f = "!="
  <2> DEFINE b == object_is_zero(object_equal(left, right))
  <2>1. Relation(f, left, right) = Truth(b) /\ b \in BOOLEAN
    BY <1>2 DEF Relation, object_is_zero
  <2> QED BY <2>1
<1>3. CASE f \in {"<", ">", "<=", ">="}
  <2>1. Relation(f, left, right) \in {Truth(c < 0), Truth(c > 0), Truth(c <= 0), Truth(c >= 0)}
    BY <1>3 DEF Relation
  <2>2. c \in {-1, 0, 1}
    BY DEF object_compare, object_numberical_compare, Sign, Object
  <2> HIDE DEF c
  <2>3. (c < 0) \in BOOLEAN /\ (c > 0) \in BOOLEAN /\ (c <= 0) \in BOOLEAN /\ (c >= 0) \in BOOLEAN
    BY <2>2
  <2> QED BY <2>1, <2>3
<1> QED BY <1>1, <1>2, <1>3 DEF Relations

\* Every object holds a value of its type, for any widths, mantissas and operands.
THEOREM TypeCorrect == Spec => []TypeOK
<1>1. ASSUME Inv PROVE TypeOK
  <2>1. IsObject(left) /\ IsObject(right) /\ Answered
    BY <1>1 DEF Inv
  <2>2. IsObject(result) \/ result \in {ERROR, CRASH}
    <3>1. CASE op = "none"
      BY <2>1, <3>1, Types DEF Answered, BitOps, ShiftOps, Relations
    <3>2. CASE op \in {"lnot", "land", "lor"}
      <4>1. \E b \in BOOLEAN : result = Truth(b)
        <5>1. CASE op = "lnot"
          BY <2>1, <5>1, Types DEF Answered, BitOps, ShiftOps, Relations, object_logic_not
        <5>2. CASE op = "land"
          BY <2>1, <5>2, Types DEF Answered, BitOps, ShiftOps, Relations, object_logic_and
        <5>3. CASE op = "lor"
          BY <2>1, <5>3, Types DEF Answered, BitOps, ShiftOps, Relations, object_logic_or
        <5> QED BY <3>2, <5>1, <5>2, <5>3
      <4> QED BY <4>1, TruthType
    <3>3. CASE op \in {"neg", "not"}
      <4>1. result \in Unary(op, left)
        BY <2>1, <3>3, Types DEF Answered, BitOps, ShiftOps, Relations
      <4> QED BY <2>1, <3>3, <4>1, UnaryType
    <3>4. CASE op \in Type
      <4>1. result \in object_cast(left, op)
        BY <2>1, <3>4, Types DEF Answered, BitOps, ShiftOps, Relations
      <4> QED BY <2>1, <3>4, <4>1, CastType
    <3>5. CASE op \in {"add", "sub", "mul", "div", "mod"} \cup BitOps
      <4>1. result \in Binary(op, left, right)
        BY <2>1, <3>5, Types DEF Answered, BitOps, ShiftOps, Relations
      <4> QED BY <2>1, <3>5, <4>1, BinaryType
    <3>6. CASE op \in ShiftOps
      <4>1. result \in Shift(op, left, right)
        BY <2>1, <3>6, Types DEF Answered, BitOps, ShiftOps, Relations
      <4> QED BY <2>1, <3>6, <4>1, ShiftType
    <3>7. CASE op \in Relations
      <4>1. result = Relation(op, left, right)
        BY <2>1, <3>7, Types DEF Answered, BitOps, ShiftOps, Relations
      <4> QED BY <3>7, <4>1, RelationType, TruthType
    <3> QED BY <2>1, <3>1, <3>2, <3>3, <3>4, <3>5, <3>6, <3>7 DEF Answered
  <2>3. op \in {"none", "lnot", "land", "lor", "div", "mod"} \cup Type \cup Relations \cup FloatingOps \cup IntegerOps
    BY <2>1 DEF Answered, IntegerOps, FloatingOps, ArithmeticOps
  <2>4. /\ result.type \in Type => IsValue(result.type, result.val)
        /\ result.type \in Type \/ result \in {ERROR, CRASH}
    BY <2>2, ObjectIs, Types DEF IsObject, ERROR, CRASH
  <2> QED BY <2>1, <2>3, <2>4 DEF TypeOK, IsObject
<1> QED BY <1>1, Invariance, PTL

-----------------------------------------------------------------------------
(* Arithmetic.                                                               *)

Named == {"int", "uint", "long", "ulong", "float", "double"}

\* The named types from int on, in the order of their numbers.
LEMMA NamedTypes ==
  ASSUME NEW t \in Named
  PROVE  /\ t \in Type /\ t # "bool" /\ Rank["int"] <= Rank[t] /\ (INTEGER_TYPE(t) => Promoted(t) = t)
         /\ CPromoted(t) = CType(t)
         /\ TypeOf[t].ops = IF FLOATING_TYPE(t) THEN FloatingOps ELSE IntegerOps
         /\ Width(t) = CASE t \in {"int", "uint"} -> Bits[32] [] t \in {"long", "ulong"} -> Bits[64]
                         [] t \in {"float", "double"} -> Mantissa[t]
         /\ TypeOf[t].signed = (t \notin {"uint", "ulong"})
<1>1. Bits[32] \in Nat /\ Bits[64] \in Nat /\ Bits[32] < Bits[64]
  BY NumbersAssumption
<1>2. t \in Type /\ t # "bool" /\ Rank["int"] <= Rank[t]
  BY DEF Named, Type, Rank
<1>3. /\ TypeOf[t].ops = IF FLOATING_TYPE(t) THEN FloatingOps ELSE IntegerOps
      /\ Width(t) = CASE t \in {"int", "uint"} -> Bits[32] [] t \in {"long", "ulong"} -> Bits[64]
                      [] t \in {"float", "double"} -> Mantissa[t]
      /\ TypeOf[t].signed = (t \notin {"uint", "ulong"})
  <2> USE DEF Width, TypeOf, FLOATING_TYPE, Integer
  <2>1. CASE t = "int"
    BY <2>1 DEF intobject
  <2>2. CASE t = "uint"
    BY <2>2 DEF uintobject
  <2>3. CASE t = "long"
    BY <2>3 DEF longobject
  <2>4. CASE t = "ulong"
    BY <2>4 DEF ulongobject
  <2>5. CASE t = "float"
    BY <2>5 DEF floatobject
  <2>6. CASE t = "double"
    BY <2>6 DEF doubleobject
  <2> QED BY <2>1, <2>2, <2>3, <2>4, <2>5, <2>6 DEF Named
<1>4. INTEGER_TYPE(t) => Width(t) >= Bits[32]
  BY <1>1, <1>3 DEF Named, INTEGER_TYPE, FLOATING_TYPE
<1>5. CPromoted(t) = CType(t)
  BY <1>4 DEF CPromoted, INTEGER_TYPE, Width
<1>6. INTEGER_TYPE(t) => Promoted(t) = t
  <2>1. Width(t) \in Nat
    BY <1>2, Widths
  <2> QED BY <1>1, <1>4, <2>1 DEF Promoted, Width
<1> QED BY <1>2, <1>3, <1>5, <1>6

Common(s, t) == IF Rank[s] < Rank[t] THEN t ELSE s

\* The order of the type numbers is that of the usual arithmetic conversions.
LEMMA CommonIs ==
  ASSUME NEW s \in Named, NEW t \in Named
  PROVE  Common(s, t) \in {s, t} /\ CCommon(CType(s), CType(t)) = CType(Common(s, t))
<1>1. /\ Bits[32] \in Nat /\ Bits[64] \in Nat /\ Bits[32] < Bits[64]
      /\ Mantissa["float"] \in Nat /\ Mantissa["double"] \in Nat /\ Mantissa["float"] <= Mantissa["double"]
  BY NumbersAssumption
<1> DEFINE c == CType(s)
           d == CType(t)
           F == {"float", "double"}
           U == {"uint", "ulong"}
<1>2. ASSUME NEW u \in Named
      PROVE  /\ CType(u).floating \in BOOLEAN /\ (CType(u).floating <=> u \in F)
             /\ CType(u).signed \in BOOLEAN /\ (CType(u).signed <=> u \notin U)
             /\ CType(u).bits = Width(u) /\ Width(u) \in Nat
             /\ u \in {"int", "uint"} => Width(u) = Bits[32]
             /\ u \in {"long", "ulong"} => Width(u) = Bits[64]
             /\ u \in F => Width(u) = Mantissa[u]
  <2>1. CType(u).floating \in BOOLEAN /\ (CType(u).floating <=> u \in F) /\ CType(u).bits = Width(u)
    <3>1. CType(u).floating = (u \in F)
      BY DEF CType, FLOATING_TYPE
    <3>2. CType(u).bits = Width(u)
      BY DEF CType, Width
    <3>3. (u \in F) \in BOOLEAN
      OBVIOUS
    <3> HIDE DEF F
    <3> QED BY <3>1, <3>2, <3>3
  <2>2. CType(u).signed \in BOOLEAN /\ (CType(u).signed <=> u \notin U)
    BY NamedTypes DEF CType
  <2>3. /\ u \in {"int", "uint"} => Width(u) = Bits[32]
        /\ u \in {"long", "ulong"} => Width(u) = Bits[64]
        /\ u \in F => Width(u) = Mantissa[u]
    <3>1. CASE u \in {"int", "uint"}
      BY <3>1, NamedTypes
    <3>2. CASE u \in {"long", "ulong"}
      BY <3>2, NamedTypes
    <3>3. CASE u \in F
      BY <3>3, NamedTypes
    <3> QED BY <3>1, <3>2, <3>3 DEF Named
  <2>4. Width(u) \in Nat
    BY Widths, NamedTypes
  <2> QED BY <2>1, <2>2, <2>3, <2>4
<1>3. ASSUME Rank[s] < Rank[t]
      PROVE  /\ s \in F => t \in F
             /\ (s \in F <=> t \in F) => Width(s) <= Width(t)
             /\ (s \in F <=> t \in F) /\ Width(s) = Width(t) => s \notin U
  BY <1>1, <1>2, <1>3 DEF Named, Rank
<1>4. ASSUME Rank[t] < Rank[s]
      PROVE  /\ t \in F => s \in F
             /\ (s \in F <=> t \in F) => Width(t) <= Width(s)
             /\ (s \in F <=> t \in F) /\ Width(s) = Width(t) => s \in U \/ (s \in F /\ t \in F)
  BY <1>1, <1>2, <1>4 DEF Named, Rank
<1>5. s \in F /\ t \in F /\ Width(s) = Width(t) => c = d
  <2>1. s \in F /\ t \in F => TypeOf[s].signed = TypeOf[t].signed
    BY NamedTypes
  <2> QED BY <2>1 DEF CType, FLOATING_TYPE, Width
<1>6. /\ c.floating \in BOOLEAN /\ (c.floating <=> s \in F) /\ d.floating \in BOOLEAN /\ (d.floating <=> t \in F)
      /\ c.signed \in BOOLEAN /\ (c.signed <=> s \notin U)
      /\ c.bits = Width(s) /\ d.bits = Width(t) /\ Width(s) \in Nat /\ Width(t) \in Nat
  BY <1>2
<1>7. CASE Rank[s] < Rank[t]
  <2> HIDE DEF c, d, F, U
  <2>1. CCommon(c, d) = d
    BY <1>3, <1>6, <1>7 DEF CCommon
  <2> QED BY <1>7, <2>1 DEF Common, c, d
<1>8. CASE Rank[t] < Rank[s]
  <2> HIDE DEF c, d, F, U
  <2>1. CCommon(c, d) = c
    BY <1>4, <1>5, <1>6, <1>8 DEF CCommon
  <2>2. ~(Rank[s] < Rank[t])
    BY <1>8, RankType, NamedTypes
  <2> QED BY <2>1, <2>2 DEF Common, c, d
<1>9. CASE ~(Rank[s] < Rank[t]) /\ ~(Rank[t] < Rank[s])
  <2>1. s = t
    BY <1>9 DEF Named, Rank
  <2> QED BY <2>1 DEF Common, CCommon
<1> QED BY <1>7, <1>8, <1>9 DEF Common

\* A conversion of C is that of the code.
LEMMA CConvertIs ==
  ASSUME NEW t \in Named, NEW n \in Int
  PROVE  CConvert(CType(t), n) = Convert(t, n) /\ (INTEGER_TYPE(t) => CRange(CType(t)) = IntegersOf(t))
<1>1. CASE FLOATING_TYPE(t)
  BY <1>1, NamedTypes DEF CConvert, CType, Convert, INTEGER_TYPE
<1>2. CASE INTEGER_TYPE(t)
  <2>1. t \in Type /\ t # "bool" /\ CType(t).bits = Width(t) /\ CType(t).signed = TypeOf[t].signed
        /\ CType(t).floating = FALSE
    BY <1>2, NamedTypes DEF CType, Width, INTEGER_TYPE
  <2>2. CRange(CType(t)) = IntegersOf(t)
    BY <2>1, Ranges DEF CRange, IntegersOf, Size, Width
  <2> DEFINE S == Size(t)
             c == Convert(t, n)
  <2>3. S \in Nat \ {0} /\ c \in IntegersOf(t) /\ Pow2[CType(t).bits] = S
    BY <1>2, <2>1, Ranges, Wraps DEF Size, Width
  <2>4. PICK k \in Int : c = n + k * S
    BY <1>2, <2>1, Wraps
  <2> HIDE DEF S, c
  <2>5. (c - n) % S = 0
    <3>1. c - n = k * S + 0
      BY <2>3, <2>4
    <3>2. (c - n) \in Int /\ 0 \in 0 .. S - 1
      BY <2>3, <2>4
    <3> QED BY <2>3, <3>1, <3>2, ModIs
  <2>6. ASSUME NEW m \in IntegersOf(t), (m - n) % S = 0 PROVE m = c
    <3>1. m \in Int
      BY <2>1, Ranges DEF IntegersOf
    <3>2. m - n = S * ((m - n) \div S) + ((m - n) % S) /\ (m - n) \div S \in Int
      BY <2>3, <3>1
    <3> DEFINE j == (m - n) \div S
    <3>3. j \in Int /\ m = n + j * S
      <4>1. j \in Int /\ m - n = S * j + 0
        BY <2>6, <3>2
      <4> HIDE DEF j
      <4> QED BY <2>3, <3>1, <4>1
    <3> HIDE DEF j
    <3>4. Convert(t, n) = m
      BY <1>2, <2>1, <3>3, ConvertIs DEF S
    <3> QED BY <3>4 DEF c
  <2>7. CConvert(CType(t), n) = CHOOSE m \in IntegersOf(t) : (m - n) % S = 0
    BY <2>1, <2>2, <2>3 DEF CConvert
  <2>8. CConvert(CType(t), n) = c
    BY <2>3, <2>5, <2>6, <2>7
  <2> QED BY <2>2, <2>8 DEF c
<1> QED BY <1>1, <1>2 DEF INTEGER_TYPE

\* A value of a type is converted to itself.
LEMMA OwnValue ==
  ASSUME NEW o, IsObject(o)
  PROVE  Convert(o.type, o.val) = o.val /\ o = Object(o.type, Convert(o.type, o.val))
<1>1. CASE FLOATING_TYPE(o.type)
  BY <1>1 DEF IsObject, IsValue, Convert, FLOATING_TYPE
<1>2. CASE INTEGER_TYPE(o.type)
  BY <1>2, IntegerValue, Kept DEF IsObject
<1> QED BY <1>1, <1>2 DEF INTEGER_TYPE, IsObject

\* The casts of the operands are those of C, if an integer operand beside a floating one
\* is one that int64_t has.
LEMMA BiggerIs ==
  ASSUME NEW o1, IsObject(o1), o1.type \in Named, NEW o2, o2.type \in Named,
         INTEGER_TYPE(o1.type) /\ FLOATING_TYPE(o2.type) => o1.val \in IntegersOf("int64")
  PROVE  OBJECT_BIGGER(o1, o2) =
           {Object(Common(o1.type, o2.type), Convert(Common(o1.type, o2.type), o1.val))}
<1>1. CASE ~(Rank[o1.type] < Rank[o2.type])
  BY <1>1, OwnValue DEF OBJECT_BIGGER, Common
<1>2. CASE Rank[o1.type] < Rank[o2.type]
  <2> DEFINE t == o2.type
             n == o1.val
  <2>1. t \in Type /\ t # "bool" /\ n \in Int /\ o1.type \in Type
    BY NamedTypes DEF IsObject
  <2>2. OBJECT_BIGGER(o1, o2) = object_cast(o1, t) /\ Common(o1.type, t) = t
    BY <1>2 DEF OBJECT_BIGGER, Common
  <2>3. CASE INTEGER_TYPE(o1.type)
    <3>1. Convert(t, Convert("int64", n)) = Convert(t, n)
      <4>1. CASE INTEGER_TYPE(t)
        BY <2>1, <4>1, Through
      <4>2. CASE FLOATING_TYPE(t)
        BY <2>3, <4>2, Int64
      <4> QED BY <4>1, <4>2 DEF INTEGER_TYPE
    <3> QED BY <2>2, <2>3, <3>1 DEF object_cast, object_get_integer
  <2>4. CASE ~INTEGER_TYPE(o1.type)
    <3>1. FLOATING_TYPE(t)
      BY <1>2, <2>1, <2>4, RankType DEF INTEGER_TYPE
    <3> QED BY <2>2, <2>4, <3>1 DEF object_cast, object_get_floating
  <2> QED BY <2>3, <2>4
<1> QED BY <1>1, <1>2

LEMMA OperandsAre ==
  ASSUME IsObject(left), IsObject(right), left.type \in Named, right.type \in Named,
         \A o \in {left, right} :
           INTEGER_TYPE(o.type) /\ (FLOATING_TYPE(left.type) \/ FLOATING_TYPE(right.type)) =>
             o.val \in IntegersOf("int64"),
         NEW u, u = Common(left.type, right.type)
  PROVE  Operands(left, right) = {<<Object(u, Convert(u, left.val)), Object(u, Convert(u, right.val))>>}
<1>1. CASE left.type # right.type
  <2>1. Common(right.type, left.type) = u
    BY <1>1 DEF Common, Named, Rank
  <2>2. OBJECT_BIGGER(left, right) = {Object(u, Convert(u, left.val))}
    BY BiggerIs
  <2>3. OBJECT_BIGGER(right, left) = {Object(u, Convert(u, right.val))}
    BY <2>1, BiggerIs
  <2>4. Operands(left, right) = {Object(u, Convert(u, left.val))} \X {Object(u, Convert(u, right.val))}
    BY <1>1, <2>2, <2>3 DEF Operands
  <2> DEFINE x == Object(u, Convert(u, left.val))
             y == Object(u, Convert(u, right.val))
  <2> HIDE DEF x, y
  <2>5. {x} \X {y} = {<<x, y>>}
    OBVIOUS
  <2> QED BY <2>4, <2>5 DEF x, y
<1>2. CASE left.type = right.type
  <2>1. ~(Rank[left.type] < Rank["int"]) /\ u = left.type
    BY <1>2, NamedTypes, RankType, Types DEF Common
  <2>2. Operands(left, right) = {<<left, right>>}
    BY <1>2, <2>1 DEF Operands
  <2> QED BY <1>2, <2>1, <2>2, OwnValue
<1> QED BY <1>1, <1>2

\* An operand that is taken for zero is zero when it is converted.
LEMMA ZeroIs ==
  ASSUME NEW o, IsObject(o), object_is_zero(o), NEW u \in Named,
         INTEGER_TYPE(u) => INTEGER_TYPE(o.type),
         INTEGER_TYPE(o.type) /\ FLOATING_TYPE(u) => o.val \in IntegersOf("int64")
  PROVE  Convert(u, o.val) = 0
<1>1. u \in Type /\ u # "bool" /\ Width(u) \in Nat \ {0} /\ Mantissa["double"] \in Nat \ {0} /\ o.val \in Int
  BY NamedTypes, Widths, NumbersAssumption DEF IsObject
<1>2. CASE INTEGER_TYPE(o.type)
  <2>1. Convert("int64", o.val) \in Int
    BY <1>1, Int64
  <2>2. Convert("int64", o.val) = 0
    BY <1>1, <1>2, <2>1, RoundZero DEF object_is_zero, NUMBERICAL_GET_VALUE, object_get_integer
  <2>3. CASE INTEGER_TYPE(u)
    <3>1. Convert(u, 0) = Convert(u, o.val)
      BY <1>1, <2>2, <2>3, Through
    <3>2. 0 \in IntegersOf(u)
      BY <1>1, Ranges DEF IntegersOf
    <3> QED BY <2>3, <1>1, <3>1, <3>2, Kept
  <2>4. CASE FLOATING_TYPE(u)
    <3>1. o.val = 0
      BY <1>2, <2>2, <2>4, Int64
    <3> QED BY <1>1, <2>4, <3>1, RoundZero DEF Convert, FLOATING_TYPE, Width
  <2> QED BY <2>3, <2>4 DEF INTEGER_TYPE
<1>3. CASE ~INTEGER_TYPE(o.type)
  <2>1. o.val = 0 /\ FLOATING_TYPE(u)
    BY <1>3 DEF object_is_zero, NUMBERICAL_GET_VALUE, object_get_floating, INTEGER_TYPE
  <2> QED BY <1>1, <2>1, RoundZero DEF Convert, FLOATING_TYPE, Width
<1> QED BY <1>2, <1>3

\* A quotient that C defines does not trap.
LEMMA NoTrap ==
  ASSUME NEW u \in Named, INTEGER_TYPE(u), NEW a \in Int, NEW b \in Int \ {0}, NEW f \in {"div", "mod"},
         CDefined(f, CType(u), a, b)
  PROVE  ~Traps(u, a, b)
<1> SUFFICES ASSUME TypeOf[u].signed, a = MinOf(u), b = -1 PROVE FALSE
  BY NamedTypes DEF Traps
<1>1. u \in Type /\ CType(u).floating = FALSE /\ CType(u).signed = TypeOf[u].signed /\ CRange(CType(u)) = IntegersOf(u)
  <2>1. u \in Type /\ CRange(CType(u)) = IntegersOf(u)
    BY NamedTypes, CConvertIs, 0 \in Int
  <2>2. CType(u).floating = FALSE
    BY DEF CType, INTEGER_TYPE
  <2>3. CType(u).signed = TypeOf[u].signed
    BY DEF CType
  <2> QED BY <2>1, <2>2, <2>3
<1>2. Quotient(a, b) \in IntegersOf(u)
  BY <1>1 DEF CDefined, CExact, BitOps
<1> DEFINE h == Pow2[Width(u) - 1]
<1>3. h \in Nat \ {0} /\ MinOf(u) = -h /\ MaxOf(u) = h - 1
  BY <1>1, Ranges
<1> HIDE DEF h
<1>4. Quotient(a, b) = h
  <2>1. Sign(a) = -1 /\ Abs(a) = h
    <3>1. a = -h /\ -h < 0 /\ ~(-h > 0) /\ -(-h) = h
      BY <1>3
    <3> QED BY <3>1 DEF Sign, Abs
  <2>2. Sign(b) = -1 /\ Abs(b) = 1
    <3>1. \A k \in Int : k + 1 = 0 => -k = 1 /\ k < 0 /\ ~(k > 0)
      OBVIOUS
    <3>2. b + 1 = 0
      OBVIOUS
    <3>3. -b = 1 /\ b < 0 /\ ~(b > 0)
      BY <3>1, <3>2, Zenon
    <3>4. Abs(b) = 1
      BY <3>3, Zenon DEF Abs
    <3> QED BY <3>3, <3>4 DEF Sign
  <2>3. h \div 1 = h /\ (-1) * (-1) = 1
    BY <1>3
  <2> QED BY <1>3, <2>1, <2>2, <2>3 DEF Quotient
<1> QED BY <1>2, <1>3, <1>4 DEF IntegersOf

\* What an operator of the code gives is what C gives.
LEMMA AnswerIs ==
  ASSUME NEW u \in Named, NEW x \in Int, result = Object(u, Convert(u, x))
  PROVE  result.type \in Type /\ CType(result.type) = CType(u) /\ result.val = CConvert(CType(u), x)
BY NamedTypes, CConvertIs, ObjectIs

LEMMA UnaryIsC ==
  ASSUME IsObject(left), left.type \in Named, NEW f \in {"neg", "not"}, f = "not" => INTEGER_TYPE(left.type),
         NEW r \in Unary(f, left)
  PROVE  r = Object(left.type, Convert(left.type, CExact(f, CType(left.type), left.val, 0)))
         /\ CExact(f, CType(left.type), left.val, 0) \in Int
<1> DEFINE t == left.type
<1>1. ~(Rank[t] < Rank["int"]) /\ left.val \in Int /\ Convert(t, left.val) = left.val
  BY NamedTypes, RankType, Types, OwnValue DEF IsObject
<1>2. r = Routine(t, f, left.val, 0)
  BY <1>1 DEF Unary, INTEGER_TYPE
<1>3. f \in TypeOf[t].ops
  <2>1. TypeOf[t].ops = IF FLOATING_TYPE(t) THEN FloatingOps ELSE IntegerOps
    BY NamedTypes
  <2> QED BY <2>1 DEF INTEGER_TYPE, IntegerOps, FloatingOps
<1>4. Computed(t, f, left.val, 0) = CExact(f, CType(t), left.val, 0)
  BY DEF Computed, CExact
<1>5. CExact(f, CType(t), left.val, 0) \in Int
  BY <1>1 DEF CExact, BitOps
<1>6. Made(t, f) = t
  BY DEF Made
<1> QED BY <1>2, <1>3, <1>4, <1>5, <1>6 DEF Routine

LEMMA BinaryIsC ==
  ASSUME IsObject(left), IsObject(right), left.type \in Named, right.type \in Named,
         NEW f \in {"add", "sub", "mul", "div", "mod"} \cup BitOps,
         f \in IF FLOATING_TYPE(left.type) \/ FLOATING_TYPE(right.type) THEN FloatingOps ELSE IntegerOps,
         \A o \in {left, right} :
           INTEGER_TYPE(o.type) /\ (FLOATING_TYPE(left.type) \/ FLOATING_TYPE(right.type)) =>
             o.val \in IntegersOf("int64"),
         ~(f = "sub" /\ \E p \in Operands(left, right) : p[1].type = "long"),
         NEW u, u = Common(left.type, right.type), NEW a, a = Convert(u, left.val),
         NEW b, b = Convert(u, right.val), CDefined(f, CType(u), a, b),
         NEW r \in Binary(f, left, right)
  PROVE  r = Object(u, Convert(u, CExact(f, CType(u), a, b))) /\ CExact(f, CType(u), a, b) \in Int
<1>1. u \in Named /\ u \in Type /\ f \in Applied
  BY CommonIs, NamedTypes DEF Applied
<1>2. FLOATING_TYPE(u) <=> FLOATING_TYPE(left.type) \/ FLOATING_TYPE(right.type)
  BY DEF Common, Named, Rank, FLOATING_TYPE
<1>3. a \in Int /\ b \in Int
  BY <1>1, ConvertType DEF IsObject
<1>4. f \in {"div", "mod"} => b # 0 /\ ~object_is_zero(right)
  <2>1. f \in {"div", "mod"} => b # 0
    BY DEF CDefined
  <2>2. object_is_zero(right) => b = 0
    BY <1>1, <1>2, ZeroIs DEF INTEGER_TYPE
  <2> QED BY <2>1, <2>2
<1>5. f \in BitOps => ~FLOATING_TYPE(left.type) /\ ~FLOATING_TYPE(right.type)
  BY DEF FloatingOps, TruthOps, ArithmeticOps, BitOps
<1>6. r \in {Routine(p[1].type, f, p[1].val, p[2].val) : p \in Operands(left, right)}
  BY <1>4, <1>5 DEF Binary
<1>7. Operands(left, right) = {<<Object(u, a), Object(u, b)>>}
  BY OperandsAre
<1>8. r = Routine(u, f, a, b)
  BY <1>6, <1>7, ObjectIs
<1>9. f \in TypeOf[u].ops
  <2>1. TypeOf[u].ops = IF FLOATING_TYPE(u) THEN FloatingOps ELSE IntegerOps
    BY <1>1, NamedTypes
  <2> QED BY <1>2, <2>1
<1>10. ~(f \in {"div", "mod"} /\ INTEGER_TYPE(u) /\ Traps(u, a, b))
  BY <1>1, <1>3, <1>4, NoTrap
<1>11. Made(u, f) = u
  BY <1>7, ObjectIs DEF Made
<1>12. r = Object(u, Convert(u, Computed(u, f, a, b)))
  BY <1>8, <1>9, <1>10, <1>11 DEF Routine
<1>13. Computed(u, f, a, b) = CExact(f, CType(u), a, b)
  BY DEF Computed, CExact, CType, BitOps
<1>14. Computed(u, f, a, b) \in Int
  BY <1>1, <1>3, <1>4, ComputedType
<1> QED BY <1>12, <1>13, <1>14

LEMMA ShiftIsC ==
  ASSUME IsObject(left), IsObject(right), left.type \in Named, INTEGER_TYPE(left.type), INTEGER_TYPE(right.type),
         NEW f \in ShiftOps, ~(f = "rshift" /\ left.type = "long"),
         CDefined(f, CType(left.type), left.val, right.val), NEW r \in Shift(f, left, right)
  PROVE  r = Object(left.type, Convert(left.type, CExact(f, CType(left.type), left.val, right.val)))
         /\ CExact(f, CType(left.type), left.val, right.val) \in Int
<1> DEFINE t == left.type
           w == Width(t)
           n == right.val
<1>1. /\ t \in Type /\ ~(Rank[t] < Rank["int"]) /\ Promoted(t) = t /\ left.val \in Int
      /\ Convert(t, left.val) = left.val /\ f \in Applied
  BY NamedTypes, RankType, Types, OwnValue DEF IsObject, Applied
<1>2. w \in Nat \ {0} /\ w <= Width("int64") /\ Width("int64") \in Nat \ {0}
  BY <1>1, Widths, Int64
<1>3. n \in 0 .. w - 1
  BY DEF CDefined, CType, Width
<1>4. Convert("int64", n) = n
  <2> DEFINE v == Width("int64") - 1
  <2>1. v \in Nat /\ n \in Nat /\ n <= v
    BY <1>2, <1>3
  <2>2. v < Pow2[v] /\ Pow2[v] \in Nat
    <3> HIDE DEF v
    <3> QED BY <2>1, PowBig, PowType
  <2>3. MinOf("int64") = -Pow2[v] /\ MaxOf("int64") = Pow2[v] - 1
    <3>1. TypeOf["int64"].signed = TRUE
      BY Widths
    <3> QED BY <3>1, Int64, Ranges
  <2> HIDE DEF v
  <2>4. n \in IntegersOf("int64")
    BY <2>1, <2>2, <2>3 DEF IntegersOf
  <2> QED BY <2>4, Int64
<1>5. r = Routine(t, f, left.val, n)
  BY <1>1, <1>4 DEF Shift, INTEGER_TYPE, object_get_integer
<1>6. f \in TypeOf[t].ops
  <2>1. TypeOf[t].ops = IF FLOATING_TYPE(t) THEN FloatingOps ELSE IntegerOps
    BY NamedTypes
  <2> QED BY <2>1 DEF INTEGER_TYPE, IntegerOps
<1>7. Power(t, n) = Pow2[n] /\ Read(t, f) = t /\ Made(t, f) = t
  <2>1. n % w = n
    <3> HIDE DEF w, n
    <3> QED BY <1>2, <1>3
  <2> QED BY <1>1, <2>1 DEF Power, Width, Read, Made, ShiftOps
<1>8. Computed(t, f, left.val, n) = CExact(f, CType(t), left.val, n)
  BY <1>1, <1>7 DEF Computed, CExact, ShiftOps, BitOps
<1>9. Computed(t, f, left.val, n) \in Int
  BY <1>1, <1>2, <1>3, ComputedType DEF ShiftOps
<1> QED BY <1>5, <1>6, <1>7, <1>8, <1>9 DEF Routine, ShiftOps

\* On int, uint, long, ulong, float and double the operators give what the usual
\* arithmetic conversions of C give, wherever C defines a result, for any widths and
\* operands, but for the routines and operands that ArithmeticIsC names.
THEOREM ArithmeticFollowsC == Spec => []ArithmeticIsC
<1>1. ASSUME Inv PROVE ArithmeticIsC
  <2> DEFINE l == CPromoted(left.type)
             c == IF op \in {"neg", "not"} \cup ShiftOps THEN l ELSE CCommon(l, CPromoted(right.type))
             a == CConvert(c, left.val)
             b == IF op \in ShiftOps THEN right.val ELSE CConvert(c, right.val)
             Goal == /\ result.type \in Type
                     /\ CType(result.type) = c
                     /\ result.val = CConvert(c, CExact(op, c, a, b))
  <2> SUFFICES ASSUME ~(op = "sub" /\ \E p \in Operands(left, right) : p[1].type = "long"),
                      ~(op = "rshift" /\ left.type = "long"),
                      ~(\E o \in {left, right} :
                          INTEGER_TYPE(o.type) /\ o.val \notin IntegersOf("int64")
                            /\ (FLOATING_TYPE(left.type) \/ FLOATING_TYPE(right.type))),
                      CApplies, op \notin TruthOps, left.type \in Named, right.type \in Named,
                      CDefined(op, c, a, b)
               PROVE  Goal
    <3>1. FollowsC(Named) = FollowsC({"int", "uint", "long", "ulong", "float", "double"})
      BY DEF Named
    <3>2. ASSUME CApplies /\ op \notin TruthOps /\ {left.type, right.type} \subseteq Named
                   /\ CDefined(op, c, a, b) => Goal
          PROVE  FollowsC(Named)
      BY <3>2 DEF FollowsC
    <3> HIDE DEF Goal, a, b, c, l
    <3> QED BY <3>1, <3>2 DEF ArithmeticIsC
  <2>1. IsObject(left) /\ IsObject(right) /\ Answered
    BY <1>1 DEF Inv
  <2>2. left.type \in Type /\ right.type \in Type /\ l = CType(left.type) /\ CPromoted(right.type) = CType(right.type)
    BY NamedTypes
  <2>3. left.val \in Int /\ right.val \in Int
    BY <2>1 DEF IsObject
  <2>4. op \in ArithmeticOps \cup {"neg", "mod", "not"} \cup BitOps \cup ShiftOps
    BY DEF CApplies, IntegerOps, FloatingOps
  <2>5. CASE op \in {"neg", "not"}
    <3>1. c = CType(left.type) /\ a = left.val
      BY <2>1, <2>2, <2>3, <2>5, CConvertIs, OwnValue
    <3>2. result \in Unary(op, left)
      BY <2>1, <2>5, Types DEF Answered, BitOps, ShiftOps, Relations
    <3>3. op = "not" => INTEGER_TYPE(left.type)
      BY DEF CApplies, FloatingOps, TruthOps, ArithmeticOps, INTEGER_TYPE
    <3>4. CExact(op, c, a, b) = CExact(op, CType(left.type), left.val, 0)
      <4> HIDE DEF a, b, c
      <4> QED BY <2>5, <3>1 DEF CExact, BitOps
    <3> HIDE DEF a, b, c, l
    <3> QED BY <2>1, <2>5, <3>1, <3>2, <3>3, <3>4, UnaryIsC, AnswerIs
  <2>6. CASE op \in ShiftOps
    <3>1. c = CType(left.type) /\ a = left.val /\ b = right.val
      BY <2>1, <2>2, <2>3, <2>6, CConvertIs, OwnValue
    <3>2. result \in Shift(op, left, right)
      BY <2>1, <2>6, Types DEF Answered, BitOps, ShiftOps, Relations
    <3>3. INTEGER_TYPE(left.type) /\ INTEGER_TYPE(right.type)
      BY <2>6 DEF CApplies, FloatingOps, TruthOps, ArithmeticOps, ShiftOps, INTEGER_TYPE
    <3> HIDE DEF a, b, c, l
    <3> QED BY <2>1, <2>6, <3>1, <3>2, <3>3, ShiftIsC, AnswerIs
  <2>7. CASE op \in ArithmeticOps \cup {"mod"} \cup BitOps
    <3> DEFINE u == Common(left.type, right.type)
    <3>1. c = CType(u) /\ u \in Named
      BY <2>2, <2>7, CommonIs DEF ArithmeticOps, BitOps, ShiftOps
    <3>2. a = Convert(u, left.val) /\ b = Convert(u, right.val)
      BY <2>3, <2>7, <3>1, CConvertIs DEF ArithmeticOps, BitOps, ShiftOps
    <3>3. result \in Binary(op, left, right)
      BY <2>1, <2>7, Types DEF Answered, ArithmeticOps, BitOps, ShiftOps, Relations
    <3>4. op \in {"add", "sub", "mul", "div", "mod"} \cup BitOps
      BY <2>7 DEF ArithmeticOps
    <3>5. op \in IF FLOATING_TYPE(left.type) \/ FLOATING_TYPE(right.type) THEN FloatingOps ELSE IntegerOps
      BY DEF CApplies
    <3>6. \A o \in {left, right} :
            INTEGER_TYPE(o.type) /\ (FLOATING_TYPE(left.type) \/ FLOATING_TYPE(right.type)) =>
              o.val \in IntegersOf("int64")
      OBVIOUS
    <3> HIDE DEF a, b, c, l, u
    <3>7. result = Object(u, Convert(u, CExact(op, CType(u), a, b))) /\ CExact(op, CType(u), a, b) \in Int
      BY <2>1, <3>1, <3>2, <3>3, <3>4, <3>5, <3>6, BinaryIsC DEF u
    <3> QED BY <3>1, <3>7, AnswerIs
  <2> QED BY <2>4, <2>5, <2>6, <2>7
<1> QED BY <1>1, Invariance, PTL
=============================================================================
