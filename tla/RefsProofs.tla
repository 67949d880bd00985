------------------------------ MODULE RefsProofs ------------------------------
(*****************************************************************************)
(* Proofs about Refs, for any objects, variables and programs: how opcodes   *)
(* end, and that they count references right.                                *)
(*****************************************************************************)
EXTENDS Refs, FiniteSetTheorems, SequenceTheorems, TLAPS

\* The opcode has ended as it should.
Fine == status' \in {"runs", "ended"}

\* An opcode that ends by one of these four ends as it should.
LEMMA ContinueFine == ASSUME NEW op, NEW a, NEW h, NEW s, NEW vs, Continue(op, a, h, s, vs) PROVE Fine
BY DEF Continue, Leave, Fine

LEMMA PushFine == ASSUME NEW op, NEW a, NEW h, NEW s, NEW v, STACK_PUSH(op, a, h, s, v) PROVE Fine
BY ContinueFine DEF STACK_PUSH

LEMMA FailedFine == ASSUME NEW op, NEW a, NEW h, NEW s, Failed(op, a, h, s) PROVE Fine
BY DEF Failed, HANDLE_EXCEPTION, Leave, Fine

LEMMA CalledFine == ASSUME NEW op, NEW n, NEW r, Called(op, n, r) PROVE Fine
BY PushFine, FailedFine DEF Called

LEMMA BlameIs == \A op, a : Blame(op, a).op = op /\ Blame(op, a).type = TypeOf(heap, a)
BY DEF Blame

\* One that dies, goes on in spite of an error or fails without one is blamed.
LEMMA DiesIs ==
  ASSUME NEW op, NEW a, Dies(op, a)
  PROVE  status' = "dead" /\ blame'.op = op /\ blame'.type = TypeOf(heap, a)
BY BlameIs DEF Dies, Leave

LEMMA QuietIs ==
  ASSUME NEW op, NEW a, NEW h, NEW s, FailedQuietly(op, a, h, s)
  PROVE  status' = "quiet" /\ blame'.op = op /\ blame'.type = TypeOf(heap, a)
BY BlameIs DEF FailedQuietly, HANDLE_EXCEPTION, Leave

\* A condition that is no number is ignored: the opcode goes on in spite of the error.
LEMMA TestIs ==
  ASSUME NEW op, NEW a, NEW h, NEW s, Test(op, a, h, s)
  PROVE  Fine \/ (status' = "ignored" /\ blame'.op = op /\ blame'.type \notin NumberTypes
                  /\ blame'.type = TypeOf(heap, a))
<1>1. CASE IsNumber(heap, a)
  BY <1>1, ContinueFine DEF Test
<1>2. CASE ~IsNumber(heap, a)
  BY <1>2, BlameIs DEF Test, Leave, IsNumber
<1> QED BY <1>1, <1>2

\* Only compounds have members.
LEMMA HasMembers ==
  ASSUME NEW h, NEW a, NEW f, NEW d \in get_member(h, a, f), d.v # NULL
  PROVE  TypeOf(h, a) \in Compounds
BY DEF get_member, Nothing, Got, Compounds

-----------------------------------------------------------------------------

\* Constants, variables and blocks: these opcodes end as they should.
LEMMA VariableSteps ==
  ASSUME \/ LoadConst \/ LoadVar \/ StoreLocal \/ StoreDef \/ StoreVar \/ EnterTry \/ LeaveBlock
         \/ PopStack \/ VarIp \/ \E post \in BOOLEAN : VarInc(post)
  PROVE  Fine
<1> USE ContinueFine, PushFine, FailedFine
<1>1. CASE LoadConst
  BY <1>1 DEF LoadConst
<1>2. CASE LoadVar
  BY <1>2 DEF LoadVar
<1>3. CASE StoreLocal
  BY <1>3 DEF StoreLocal
<1>4. CASE StoreDef
  BY <1>4 DEF StoreDef
<1>5. CASE StoreVar
  BY <1>5 DEF StoreVar
<1>6. CASE EnterTry
  BY <1>6 DEF EnterTry, Leave, Fine
<1>7. CASE LeaveBlock
  BY <1>7 DEF LeaveBlock, Leave, Fine
<1>8. CASE PopStack
  BY <1>8 DEF PopStack
<1>9. CASE VarIp
  BY <1>9 DEF VarIp
<1>10. CASE \E post \in BOOLEAN : VarInc(post)
  BY <1>10 DEF VarInc
<1> QED BY <1>1, <1>2, <1>3, <1>4, <1>5, <1>6, <1>7, <1>8, <1>9, <1>10

\* So do operators, elements and members but for those of OtherSteps.
LEMMA OperatorSteps ==
  ASSUME TypeCast \/ Unary \/ Binary \/ BitAnd \/ LoadIndex \/ StoreIndex \/ IndexIp \/ LoadMember
         \/ StoreMember \/ JumpCase
  PROVE  Fine
<1> USE ContinueFine, PushFine, FailedFine
<1>1. CASE TypeCast
  BY <1>1 DEF TypeCast
<1>2. CASE Unary
  BY <1>2 DEF Unary
<1>3. CASE Binary
  BY <1>3 DEF Binary
<1>4. CASE BitAnd
  BY <1>4 DEF BitAnd
<1>5. CASE LoadIndex
  BY <1>5 DEF LoadIndex
<1>6. CASE StoreIndex
  BY <1>6 DEF StoreIndex
<1>7. CASE IndexIp
  BY <1>7 DEF IndexIp
<1>8. CASE LoadMember
  BY <1>8 DEF LoadMember
<1>9. CASE StoreMember
  BY <1>9 DEF StoreMember
<1>10. CASE JumpCase
  BY <1>10 DEF JumpCase
<1> QED BY <1>1, <1>2, <1>3, <1>4, <1>5, <1>6, <1>7, <1>8, <1>9, <1>10

\* A step that does not end as it should is one of those that the property names.
Excused ==
  \/ status' = "quiet" /\ blame'.op = "MEMBER_IP" /\ blame'.type \in Compounds
  \/ status' = "ignored" /\ blame'.op \in {"JUMP", "CON_SEL"} /\ blame'.type \notin NumberTypes
  \/ status' = "dead" /\ \/ blame'.op \in {"INDEX_INC", "MEMBER_INC", "MEMBER_POINC"}
                         \/ blame'.op = "COPY" /\ blame'.type \in {"dict", "union"}
                         \/ blame'.op = "CALL_FUNC" /\ blame'.type = "vec"

\* The opcodes with an end that the property names, and those next to them.
LEMMA OtherSteps ==
  ASSUME \/ \E post \in BOOLEAN : IndexInc(post) \/ MemberInc(post)
         \/ MemberIp \/ Jump \/ ConSel \/ _builtin_append \/ _builtin_remove \/ _builtin_copy \/ CallOther
  PROVE  Fine \/ Excused
<1> USE ContinueFine, PushFine, FailedFine, CalledFine
<1>1. ASSUME NEW post \in BOOLEAN, IndexInc(post) PROVE Fine \/ Excused
  <2>1. PICK p \in Place(heap, Arg(2), Arg(1)) :
          IF object_index(heap, Arg(2), p) = NULL THEN Dies("INDEX_INC", Arg(2)) ELSE Fine
    BY <1>1 DEF IndexInc
  <2> QED BY <2>1, DiesIs DEF Excused
<1>2. ASSUME NEW post \in BOOLEAN, MemberInc(post) PROVE Fine \/ Excused
  <2> DEFINE op == IF post THEN "MEMBER_POINC" ELSE "MEMBER_INC"
  <2>1. Dies(op, Arg(1)) \/ Fine
    BY <1>2 DEF MemberInc
  <2> QED BY <2>1, DiesIs DEF Excused
<1>3. CASE MemberIp
  <2>1. \E f \in Fields : \E d \in get_member(heap, Arg(1), f) :
          Fine \/ (d.v # NULL /\ \E h : FailedQuietly("MEMBER_IP", Arg(1), h, Under(2)))
    BY <1>3 DEF MemberIp
  <2> QED BY <2>1, QuietIs, HasMembers DEF Excused
<1>4. CASE Jump
  BY <1>4, TestIs DEF Jump, Excused
<1>5. CASE ConSel
  BY <1>5, TestIs DEF ConSel, Excused
<1>6. CASE _builtin_append
  BY <1>6 DEF _builtin_append
<1>7. CASE _builtin_remove
  BY <1>7 DEF _builtin_remove
<1>8. CASE _builtin_copy
  <2>1. Fine \/ (Dies("COPY", Arg(1)) /\ TypeOf(heap, Arg(1)) \in {"dict", "union"})
    BY <1>8 DEF _builtin_copy
  <2> QED BY <2>1, DiesIs DEF Excused
<1>9. CASE CallOther
  <2>1. Fine \/ (Dies("CALL_FUNC", Arg(1)) /\ TypeOf(heap, Arg(1)) = "vec")
    BY <1>9 DEF CallOther
  <2> QED BY <2>1, DiesIs DEF Excused
<1> QED BY <1>1, <1>2, <1>3, <1>4, <1>5, <1>6, <1>7, <1>8, <1>9

\* For any objects, variables and programs: an opcode fails only with an error reported,
\* goes on only without one and never uses a missing object, but for the few of
\* FailuresAreReported.
THEOREM FailuresHaveErrors == Spec => []FailuresAreReported
<1>1. Init => FailuresAreReported
  BY DEF Init, FailuresAreReported
<1>2. FailuresAreReported /\ [Next]_vv => FailuresAreReported'
  <2> SUFFICES ASSUME FailuresAreReported, [Next]_vv PROVE FailuresAreReported'
    OBVIOUS
  <2>1. CASE UNCHANGED vv
    BY <2>1 DEF vv, FailuresAreReported
  <2>2. CASE Next
    <3>1. Fine \/ Excused
      BY <2>2, VariableSteps, OperatorSteps, OtherSteps DEF Next
    <3> QED BY <3>1 DEF Fine, Excused, FailuresAreReported
  <2> QED BY <2>1, <2>2
<1> QED BY <1>1, <1>2, PTL DEF Spec

-----------------------------------------------------------------------------
(* Counting.  One(v, i) is how often v is i.                               *)

One(v, i) == IF v = i THEN 1 ELSE 0

\* A bijection keeps the size.
LEMMA SameSize ==
  ASSUME NEW S, NEW T, IsFiniteSet(S), NEW f \in [S -> T],
         \A x, y \in S : f[x] = f[y] => x = y, \A y \in T : \E x \in S : f[x] = y
  PROVE  IsFiniteSet(T) /\ Cardinality(T) = Cardinality(S)
<1>1. f \in Bijection(S, T)
  BY DEF Bijection, Injection, Surjection, IsInjective
<1> QED BY <1>1, FS_Bijection DEF ExistsBijection

\* A set of indices is finite.
LEMMA FiniteUpTo ==
  ASSUME NEW n \in Nat, NEW S \in SUBSET (1 .. n)
  PROVE  IsFiniteSet(S) /\ Cardinality(S) \in Nat
<1>1. IsFiniteSet(1 .. n)
  BY FS_Interval
<1> QED BY <1>1, FS_Subset, FS_CardinalityType

TimesTo(i, s, n) == Cardinality({k \in 1 .. n : s[k] = i})

\* How often i is among the first n elements of s.
LEMMA TimesToIs ==
  ASSUME NEW i, NEW s, NEW n \in Nat
  PROVE  /\ TimesTo(i, s, n) \in Nat
         /\ TimesTo(i, s, 0) = 0
         /\ TimesTo(i, s, n + 1) = TimesTo(i, s, n) + One(s[n + 1], i)
<1> DEFINE S == {k \in 1 .. n : s[k] = i}
           T == {k \in 1 .. n + 1 : s[k] = i}
<1>1. IsFiniteSet(1 .. n)
  BY FS_Interval
<1>2. IsFiniteSet(S) /\ Cardinality(S) \in Nat
  BY <1>1, FS_Subset, FS_CardinalityType
<1>3. {k \in 1 .. 0 : s[k] = i} = {}
  OBVIOUS
<1>4. CASE s[n + 1] = i
  <2>1. T = S \cup {n + 1} /\ n + 1 \notin S
    BY <1>4
  <2> QED BY <1>2, <1>3, <1>4, <2>1, FS_AddElement, FS_EmptySet DEF TimesTo, One
<1>5. CASE s[n + 1] # i
  <2>1. T = S
    BY <1>5
  <2> QED BY <1>2, <1>3, <1>5, <2>1, FS_EmptySet DEF TimesTo, One
<1> QED BY <1>4, <1>5

\* It depends on those elements only.
LEMMA TimesToSame ==
  ASSUME NEW i, NEW s, NEW r, NEW n \in Nat, \A k \in 1 .. n : s[k] = r[k]
  PROVE  TimesTo(i, s, n) = TimesTo(i, r, n)
<1>1. {k \in 1 .. n : s[k] = i} = {k \in 1 .. n : r[k] = i}
  OBVIOUS
<1> QED BY <1>1 DEF TimesTo

\* Times counts the whole sequence.
LEMMA TimesIsTo ==
  ASSUME NEW i, NEW S, NEW s \in Seq(S)
  PROVE  Times(i, s) = TimesTo(i, s, Len(s)) /\ Times(i, s) \in Nat
<1>1. DOMAIN s = 1 .. Len(s) /\ Len(s) \in Nat
  OBVIOUS
<1>2. TimesTo(i, s, Len(s)) \in Nat
  BY <1>1, TimesToIs
<1> QED BY <1>1, <1>2 DEF Times, TimesTo

\* How often a value is in a sequence after each operation on sequences that the model uses.
LEMMA TimesAppend ==
  ASSUME NEW i, NEW S, NEW s \in Seq(S), NEW v \in S
  PROVE  Times(i, Append(s, v)) = Times(i, s) + One(v, i)
<1> DEFINE r == Append(s, v)
<1>1. r \in Seq(S) /\ Len(r) = Len(s) + 1 /\ r[Len(s) + 1] = v /\ \A k \in 1 .. Len(s) : s[k] = r[k]
  OBVIOUS
<1> HIDE DEF r
<1>2. Times(i, r) = TimesTo(i, r, Len(s)) + One(v, i)
  <2>1. Times(i, r) = TimesTo(i, r, Len(s) + 1)
    BY <1>1, TimesIsTo
  <2> QED BY <1>1, <2>1, TimesToIs, Len(s) \in Nat
<1>3. TimesTo(i, s, Len(s)) = TimesTo(i, r, Len(s))
  BY <1>1, TimesToSame, Len(s) \in Nat
<1> QED BY <1>2, <1>3, TimesIsTo DEF r

LEMMA TimesShort ==
  ASSUME NEW i, NEW S, NEW u \in S, NEW v \in S, NEW w \in S
  PROVE  /\ Times(i, <<>>) = 0
         /\ Times(i, <<u>>) = One(u, i)
         /\ Times(i, <<u, v>>) = One(u, i) + One(v, i)
         /\ Times(i, <<u, v, w>>) = One(u, i) + One(v, i) + One(w, i)
<1>1. Times(i, <<>>) = 0
  <2>1. <<>> \in Seq(S) /\ Len(<<>>) = 0
    OBVIOUS
  <2> QED BY <2>1, TimesIsTo, TimesToIs
<1>2. Times(i, <<u>>) = One(u, i)
  <2> DEFINE r == <<u>>
  <2>1. r \in Seq(S) /\ Len(r) = 1 /\ r[1] = u
    OBVIOUS
  <2> HIDE DEF r
  <2>2. TimesTo(i, r, 0 + 1) = 0 + One(u, i)
    BY <2>1, TimesToIs
  <2>3. Times(i, r) = TimesTo(i, r, 1)
    BY <2>1, TimesIsTo
  <2>4. TimesTo(i, r, 1) = One(u, i)
    BY <2>2 DEF One
  <2>5. Times(i, r) = One(u, i)
    BY <2>3, <2>4
  <2> QED BY <2>5 DEF r
<1>3. Times(i, <<u, v>>) = One(u, i) + One(v, i)
  <2> DEFINE r == <<u, v>>
  <2>1. r \in Seq(S) /\ Len(r) = 2 /\ r[1] = u /\ r[2] = v
    OBVIOUS
  <2> HIDE DEF r
  <2>2. TimesTo(i, r, 0 + 1) = 0 + One(u, i) /\ TimesTo(i, r, 1 + 1) = TimesTo(i, r, 1) + One(v, i)
    BY <2>1, TimesToIs
  <2>3. Times(i, r) = TimesTo(i, r, 2)
    BY <2>1, TimesIsTo
  <2>4. TimesTo(i, r, 1) = One(u, i) /\ TimesTo(i, r, 2) = TimesTo(i, r, 1) + One(v, i)
    BY <2>2 DEF One
  <2>5. Times(i, r) = One(u, i) + One(v, i)
    BY <2>3, <2>4
  <2> QED BY <2>5 DEF r
<1>4. Times(i, <<u, v, w>>) = One(u, i) + One(v, i) + One(w, i)
  <2> DEFINE r == <<u, v, w>>
  <2>1. r \in Seq(S) /\ Len(r) = 3 /\ r[1] = u /\ r[2] = v /\ r[3] = w
    OBVIOUS
  <2> HIDE DEF r
  <2>2. TimesTo(i, r, 0 + 1) = 0 + One(u, i) /\ TimesTo(i, r, 1 + 1) = TimesTo(i, r, 1) + One(v, i)
        /\ TimesTo(i, r, 2 + 1) = TimesTo(i, r, 2) + One(w, i)
    BY <2>1, TimesToIs
  <2>3. Times(i, r) = TimesTo(i, r, 3)
    BY <2>1, TimesIsTo
  <2>4. TimesTo(i, r, 1) = One(u, i) /\ TimesTo(i, r, 2) = TimesTo(i, r, 1) + One(v, i) /\ TimesTo(i, r, 3) = TimesTo(i, r, 2) + One(w, i)
    BY <2>2 DEF One
  <2>5. Times(i, r) = One(u, i) + One(v, i) + One(w, i)
    BY <2>3, <2>4
  <2> QED BY <2>5 DEF r
<1> QED BY <1>1, <1>2, <1>3, <1>4

LEMMA TimesPrefix ==
  ASSUME NEW i, NEW S, NEW s \in Seq(S), NEW n \in 0 .. Len(s)
  PROVE  SubSeq(s, 1, n) \in Seq(S) /\ Times(i, SubSeq(s, 1, n)) = TimesTo(i, s, n)
<1> DEFINE r == SubSeq(s, 1, n)
<1>1. r \in Seq(S) /\ Len(r) = n /\ \A k \in 1 .. n : s[k] = r[k]
  OBVIOUS
<1> HIDE DEF r
<1>2. TimesTo(i, s, n) = TimesTo(i, r, n)
  BY <1>1, TimesToSame
<1> QED BY <1>1, <1>2, TimesIsTo DEF r

LEMMA TimesExcept ==
  ASSUME NEW i, NEW S, NEW s \in Seq(S), NEW p \in DOMAIN s, NEW v \in S
  PROVE  Times(i, [s EXCEPT ![p] = v]) + One(s[p], i) = Times(i, s) + One(v, i)
<1> DEFINE r == [s EXCEPT ![p] = v]
           A == {k \in 1 .. Len(s) : s[k] = i}
           B == {k \in 1 .. Len(s) : r[k] = i}
<1>1. r[p] = v /\ (\A k \in 1 .. Len(s) : k # p => r[k] = s[k]) /\ DOMAIN r = 1 .. Len(s)
      /\ DOMAIN s = 1 .. Len(s) /\ p \in 1 .. Len(s) /\ Len(s) \in Nat
  OBVIOUS
<1>2. Times(i, s) = Cardinality(A) /\ Times(i, r) = Cardinality(B)
  BY <1>1 DEF Times
<1> HIDE DEF r
<1>3. IsFiniteSet(A) /\ IsFiniteSet(B) /\ Cardinality(A) \in Nat /\ Cardinality(B) \in Nat
  BY <1>1, FiniteUpTo
<1> HIDE DEF A, B
<1>4. A \ {p} = B \ {p} /\ (p \in A <=> s[p] = i) /\ (p \in B <=> v = i)
  BY <1>1 DEF A, B
<1>5. /\ Cardinality(A \ {p}) = IF p \in A THEN Cardinality(A) - 1 ELSE Cardinality(A)
      /\ Cardinality(B \ {p}) = IF p \in B THEN Cardinality(B) - 1 ELSE Cardinality(B)
  BY <1>3, FS_RemoveElement
<1>6. Cardinality(A \ {p}) = Cardinality(B \ {p})
  BY <1>4
<1>7. Cardinality(B) + One(s[p], i) = Cardinality(A) + One(v, i)
  <2>1. One(s[p], i) = (IF p \in A THEN 1 ELSE 0) /\ One(v, i) = (IF p \in B THEN 1 ELSE 0)
    BY <1>4 DEF One
  <2> QED BY <1>3, <1>5, <1>6, <2>1
<1> QED BY <1>2, <1>7 DEF r

LEMMA TimesRemoveAt ==
  ASSUME NEW i, NEW S, NEW s \in Seq(S), NEW p \in DOMAIN s
  PROVE  /\ RemoveAt(s, p) \in Seq(S) /\ Len(RemoveAt(s, p)) = Len(s) - 1
         /\ \A k \in DOMAIN RemoveAt(s, p) : \E j \in DOMAIN s : RemoveAt(s, p)[k] = s[j]
         /\ Times(i, RemoveAt(s, p)) + One(s[p], i) = Times(i, s)
<1> DEFINE r == RemoveAt(s, p)
           A == {k \in 1 .. Len(s) : s[k] = i}
           B == {k \in 1 .. Len(r) : r[k] = i}
           f == [k \in A \ {p} |-> IF k < p THEN k ELSE k - 1]
<1>1. DOMAIN s = 1 .. Len(s) /\ p \in 1 .. Len(s) /\ Len(s) \in Nat
  OBVIOUS
<1>2. r \in Seq(S) /\ Len(r) = Len(s) - 1 /\ \A k \in 1 .. Len(r) : r[k] = IF k < p THEN s[k] ELSE s[k + 1]
  <2>1. SubSeq(s, 1, p - 1) \in Seq(S) /\ Len(SubSeq(s, 1, p - 1)) = p - 1
        /\ \A k \in 1 .. p - 1 : SubSeq(s, 1, p - 1)[k] = s[k]
    BY <1>1
  <2>2. SubSeq(s, p + 1, Len(s)) \in Seq(S) /\ Len(SubSeq(s, p + 1, Len(s))) = Len(s) - p
        /\ \A k \in 1 .. Len(s) - p : SubSeq(s, p + 1, Len(s))[k] = s[k + p]
    BY <1>1
  <2>3. r = SubSeq(s, 1, p - 1) \o SubSeq(s, p + 1, Len(s))
    BY DEF RemoveAt
  <2> HIDE DEF r
  <2> DEFINE t == SubSeq(s, 1, p - 1)
             u == SubSeq(s, p + 1, Len(s))
  <2> HIDE DEF t, u
  <2>4. /\ r \in Seq(S) /\ Len(r) = Len(s) - 1
        /\ \A k \in 1 .. Len(r) : r[k] = IF k <= p - 1 THEN t[k] ELSE u[k - (p - 1)]
    <3>1. r = t \o u /\ t \in Seq(S) /\ u \in Seq(S) /\ Len(t) = p - 1 /\ Len(u) = Len(s) - p
      BY <2>1, <2>2, <2>3 DEF t, u
    <3>2. /\ r \in Seq(S) /\ Len(r) = Len(t) + Len(u)
          /\ \A k \in 1 .. Len(t) + Len(u) : r[k] = IF k <= Len(t) THEN t[k] ELSE u[k - Len(t)]
      BY <3>1, ConcatProperties
    <3>3. Len(t) + Len(u) = Len(s) - 1
      BY <1>1, <3>1
    <3> QED BY <3>1, <3>2, <3>3
  <2>5. ASSUME NEW k \in 1 .. Len(r) PROVE r[k] = IF k < p THEN s[k] ELSE s[k + 1]
    <3>1. CASE k < p
      BY <1>1, <2>1, <2>4, <3>1 DEF t
    <3>2. CASE ~(k < p)
      <4>1. r[k] = u[k - (p - 1)] /\ k - (p - 1) \in 1 .. Len(s) - p /\ k - (p - 1) + p = k + 1
        BY <1>1, <2>4, <3>2
      <4> QED BY <2>2, <3>2, <4>1 DEF u
    <3> QED BY <3>1, <3>2
  <2> QED BY <2>4, <2>5
<1> HIDE DEF r
<1>3. Times(i, s) = Cardinality(A) /\ Times(i, r) = Cardinality(B) /\ DOMAIN r = 1 .. Len(r)
  <2>1. DOMAIN r = 1 .. Len(r)
    BY <1>2
  <2> QED BY <1>1, <2>1 DEF Times
<1>4. IsFiniteSet(A) /\ Cardinality(A) \in Nat /\ (p \in A <=> s[p] = i)
  BY <1>1, FiniteUpTo
<1>5. IsFiniteSet(A \ {p}) /\ Cardinality(A \ {p}) = Cardinality(A) - One(s[p], i)
  <2> HIDE DEF A
  <2> QED BY <1>4, FS_RemoveElement DEF One
<1>6. f \in [A \ {p} -> B]
  BY <1>1, <1>2
<1>7. \A x, y \in A \ {p} : f[x] = f[y] => x = y
  BY <1>1
<1>8. ASSUME NEW y \in B PROVE \E x \in A \ {p} : f[x] = y
  <2>1. CASE y < p
    BY <1>1, <1>2, <2>1, y \in A \ {p}, f[y] = y
  <2>2. CASE ~(y < p)
    BY <1>1, <1>2, <2>2, y + 1 \in A \ {p}, f[y + 1] = y
  <2> QED BY <2>1, <2>2
<1> HIDE DEF f, A, B
<1>9. Cardinality(B) = Cardinality(A \ {p})
  BY <1>5, <1>6, <1>7, <1>8, SameSize
<1>10. \A k \in 1 .. Len(r) : \E j \in 1 .. Len(s) : r[k] = s[j]
  <2> TAKE k \in 1 .. Len(r)
  <2>1. k \in 1 .. Len(s) /\ k + 1 \in 1 .. Len(s)
    BY <1>1, <1>2
  <2> QED BY <1>1, <1>2, <2>1
<1>11. Times(i, r) + One(s[p], i) = Times(i, s)
  BY <1>3, <1>4, <1>5, <1>9 DEF One
<1> QED BY <1>1, <1>2, <1>3, <1>10, <1>11 DEF r

-----------------------------------------------------------------------------
(* Values, and how often variables hold one.                                *)

Places == Ids \cup {Literal}
Vals == Places \cup Consts

\* The shared constants, with their types, and that they are no objects and no marks.
LEMMA ConstsAre ==
  /\ Consts = {"small", "text", "null", "dummy"}
  /\ ConstType["small"] = "int" /\ ConstType["text"] = "double"
  /\ ConstType["null"] = "null" /\ ConstType["dummy"] = "void"
BY DEF Consts, ConstType

LEMMA Apart ==
  /\ Ids \cap Consts = {} /\ Literal \notin Ids \cup Consts
  /\ NULL \notin Vals /\ Unset \notin Vals
BY RefsAssumption, ConstsAre DEF Vals, Places, NULL, Unset

VarTimes(i, vs, ns) == Cardinality({n \in ns : vs[n] = i})

\* How often the variables ns hold i: a number, the sum over parts of ns, and what a store changes.
LEMMA VarTimesType ==
  ASSUME NEW i, NEW vs, NEW ns \in SUBSET Names
  PROVE  IsFiniteSet({n \in ns : vs[n] = i}) /\ VarTimes(i, vs, ns) \in Nat
<1>1. IsFiniteSet(Names)
  BY RefsAssumption DEF Names
<1>2. {n \in ns : vs[n] = i} \in SUBSET Names
  OBVIOUS
<1> QED BY <1>1, <1>2, FS_Subset, FS_CardinalityType DEF VarTimes

LEMMA VarTimesSplit ==
  ASSUME NEW i, NEW vs, NEW ns \in SUBSET Names, NEW ms \in SUBSET ns
  PROVE  VarTimes(i, vs, ns) = VarTimes(i, vs, ms) + VarTimes(i, vs, ns \ ms)
<1> DEFINE A == {n \in ms : vs[n] = i}
           B == {n \in ns \ ms : vs[n] = i}
<1>1. {n \in ns : vs[n] = i} = A \cup B /\ A \cap B = {}
  OBVIOUS
<1>2. IsFiniteSet(A) /\ IsFiniteSet(B) /\ Cardinality(A) \in Nat /\ Cardinality(B) \in Nat
  BY VarTimesType DEF VarTimes
<1>3. Cardinality(A \cup B) = Cardinality(A) + Cardinality(B)
  <2> HIDE DEF A, B
  <2>1. Cardinality(A \cup B) = Cardinality(A) + Cardinality(B) - Cardinality(A \cap B)
    BY <1>2, FS_Union
  <2>2. Cardinality(A \cap B) = 0
    BY <1>1, FS_EmptySet
  <2> QED BY <1>2, <2>1, <2>2
<1> QED BY <1>1, <1>3 DEF VarTimes

LEMMA VarTimesSame ==
  ASSUME NEW i, NEW vs, NEW us, NEW ns, \A n \in ns : vs[n] = us[n]
  PROVE  VarTimes(i, vs, ns) = VarTimes(i, us, ns)
<1>1. {n \in ns : vs[n] = i} = {n \in ns : us[n] = i}
  OBVIOUS
<1> QED BY <1>1 DEF VarTimes

LEMMA VarTimesOne ==
  ASSUME NEW i, NEW vs, NEW n \in Names
  PROVE  VarTimes(i, vs, Names) = VarTimes(i, vs, Names \ {n}) + One(vs[n], i)
<1>1. VarTimes(i, vs, Names) = VarTimes(i, vs, {n}) + VarTimes(i, vs, Names \ {n})
  BY VarTimesSplit
<1>2. VarTimes(i, vs, {n}) = One(vs[n], i)
  <2>1. CASE vs[n] = i
    <3>1. {m \in {n} : vs[m] = i} = {n}
      BY <2>1
    <3> QED BY <2>1, <3>1, FS_Singleton DEF VarTimes, One
  <2>2. CASE vs[n] # i
    <3>1. {m \in {n} : vs[m] = i} = {}
      BY <2>2
    <3> QED BY <2>2, <3>1, FS_EmptySet DEF VarTimes, One
  <2> QED BY <2>1, <2>2
<1>3. VarTimes(i, vs, Names \ {n}) \in Nat
  BY VarTimesType
<1> QED BY <1>1, <1>2, <1>3 DEF One

LEMMA VarTimesExcept ==
  ASSUME NEW i, NEW S, NEW vs \in [Names -> S], NEW n \in Names, NEW v
  PROVE  VarTimes(i, [vs EXCEPT ![n] = v], Names) = VarTimes(i, vs, Names \ {n}) + One(v, i)
<1> DEFINE us == [vs EXCEPT ![n] = v]
<1>1. us[n] = v /\ \A m \in Names \ {n} : us[m] = vs[m]
  OBVIOUS
<1> HIDE DEF us
<1>2. VarTimes(i, us, Names) = VarTimes(i, us, Names \ {n}) + One(v, i)
  BY <1>1, VarTimesOne
<1>3. VarTimes(i, us, Names \ {n}) = VarTimes(i, vs, Names \ {n})
  BY <1>1, VarTimesSame
<1> QED BY <1>2, <1>3 DEF us

\* Each element of a finite set is once in its sequence.
LEMMA SetToSeqIs ==
  ASSUME NEW S, IsFiniteSet(S)
  PROVE  /\ SetToSeq(S) \in [1 .. Cardinality(S) -> S]
         /\ \A j, k \in 1 .. Cardinality(S) : SetToSeq(S)[j] = SetToSeq(S)[k] => j = k
         /\ \A x \in S : \E k \in 1 .. Cardinality(S) : SetToSeq(S)[k] = x
<1>1. ExistsBijection(1 .. Cardinality(S), S)
  BY FS_CardinalityType
<1>2. PICK f \in [1 .. Cardinality(S) -> S] : IsInjective(f)
  BY <1>1 DEF ExistsBijection, Bijection, Injection
<1>3. SetToSeq(S) \in [1 .. Cardinality(S) -> S] /\ IsInjective(SetToSeq(S))
  BY <1>2 DEF SetToSeq
<1> DEFINE g == SetToSeq(S)
           n == Cardinality(S)
<1>4. n \in Nat /\ IsFiniteSet(1 .. n) /\ Cardinality(1 .. n) = n
  BY FS_CardinalityType, FS_Interval
<1> HIDE DEF g, n
<1>5. g \in Injection(1 .. n, S)
  BY <1>3 DEF g, n, Injection
<1>6. g \in Surjection(1 .. n, S)
  BY <1>4, <1>5, FS_Injection DEF n
<1> QED BY <1>3, <1>6 DEF g, n, Surjection, IsInjective

\* The values of the variables ns that are set, each as often as variables hold it; and what is left.
LEMMA ValuesAre ==
  ASSUME vars \in [Names -> Vals \cup {Unset}], NEW ns \in SUBSET Names
  PROVE  /\ Values(ns) \in Seq(Vals)
         /\ \A i \in Vals : Times(i, Values(ns)) = VarTimes(i, vars, ns)
<1> DEFINE S == {n \in ns : vars[n] # Unset}
           q == SetToSeq(S)
           r == [k \in DOMAIN q |-> vars[q[k]]]
<1>1. IsFiniteSet(S) /\ Cardinality(S) \in Nat
  <2>1. IsFiniteSet(Names)
    BY RefsAssumption DEF Names
  <2>2. S \in SUBSET Names
    OBVIOUS
  <2> QED BY <2>1, <2>2, FS_Subset, FS_CardinalityType
<1>2. q \in [1 .. Cardinality(S) -> S]
  BY <1>1, SetToSeqIs
<1>3. \A j, k \in 1 .. Cardinality(S) : q[j] = q[k] => j = k
  BY <1>1, SetToSeqIs
<1>4. \A x \in S : \E k \in 1 .. Cardinality(S) : q[k] = x
  BY <1>1, SetToSeqIs
<1>5. \A x \in S : vars[x] \in Vals
  OBVIOUS
<1>6. Values(ns) = r
  BY DEF Values
<1> DEFINE N == Cardinality(S)
<1>7. r = [k \in 1 .. N |-> vars[q[k]]] /\ r \in [1 .. N -> Vals] /\ r \in Seq(Vals)
  <2>1. r = [k \in 1 .. N |-> vars[q[k]]]
    BY <1>2
  <2>2. \A k \in 1 .. N : vars[q[k]] \in Vals
    BY <1>2
  <2> HIDE DEF q, S, r, N
  <2>3. r \in [1 .. N -> Vals]
    BY <2>1, <2>2
  <2> QED BY <1>1, <2>1, <2>3 DEF N
<1>8. ASSUME NEW i \in Vals PROVE Times(i, r) = VarTimes(i, vars, ns)
  <2> DEFINE A == {k \in 1 .. N : r[k] = i}
             B == {n \in ns : vars[n] = i}
             f == [k \in A |-> q[k]]
  <2>1. Times(i, r) = Cardinality(A)
    <3>1. DOMAIN r = 1 .. N
      BY <1>7
    <3> QED BY <3>1 DEF Times
  <2>2. \A k \in 1 .. N : r[k] = vars[q[k]]
    BY <1>7
  <2>3. IsFiniteSet(A)
    BY <1>1, FiniteUpTo
  <2>4. f \in [A -> B]
    BY <1>2, <2>2
  <2>5. \A x, y \in A : f[x] = f[y] => x = y
    BY <1>3
  <2>6. ASSUME NEW n \in B PROVE \E k \in A : f[k] = n
    <3>1. n \in S
      BY <2>6, Apart
    <3>2. PICK k \in 1 .. N : q[k] = n
      BY <1>4, <3>1
    <3> QED BY <2>2, <2>6, <3>2, k \in A
  <2> HIDE DEF f, A, B, r
  <2>7. Cardinality(B) = Cardinality(A)
    BY <2>3, <2>4, <2>5, <2>6, SameSize
  <2> QED BY <2>1, <2>7 DEF VarTimes, B
<1> QED BY <1>6, <1>7, <1>8

LEMMA WithoutAre ==
  ASSUME vars \in [Names -> Vals \cup {Unset}], NEW ns \in SUBSET Names
  PROVE  /\ Without(ns) \in [Names -> Vals \cup {Unset}]
         /\ \A i \in Vals : VarTimes(i, Without(ns), Names) = VarTimes(i, vars, Names \ ns)
<1>1. Without(ns) \in [Names -> Vals \cup {Unset}]
  BY DEF Without
<1>2. ASSUME NEW i \in Vals PROVE VarTimes(i, Without(ns), Names) = VarTimes(i, vars, Names \ ns)
  <2>1. {n \in Names : Without(ns)[n] = i} = {n \in Names \ ns : vars[n] = i}
    BY Apart DEF Without
  <2> QED BY <2>1 DEF VarTimes
<1> QED BY <1>1, <1>2

-----------------------------------------------------------------------------
(* How often containers hold a value.                                       *)

\* Those other than a.
HeldBut(h, i, a) ==
  Cardinality({p \in (Places \ {a}) \X (1 .. MaxLen + 2) :
                 p[2] \in DOMAIN Slots(h, p[1]) /\ Slots(h, p[1])[p[2]] = i})

\* The places of elements and members are finitely many.
LEMMA FinitePlaces ==
  ASSUME NEW X \in SUBSET (Places \X (1 .. MaxLen + 2))
  PROVE  IsFiniteSet(X) /\ Cardinality(X) \in Nat
<1>1. IsFiniteSet(Places)
  BY RefsAssumption, FS_AddElement DEF Places
<1>2. IsFiniteSet(1 .. MaxLen + 2)
  BY RefsAssumption, FS_Interval
<1>3. IsFiniteSet(Places \X (1 .. MaxLen + 2))
  BY <1>1, <1>2, FS_Product
<1> QED BY <1>3, FS_Subset, FS_CardinalityType

\* The elements and members that hold i are those of a and those of the others.
LEMMA HeldSplit ==
  ASSUME NEW h, NEW i, NEW a \in Places, NEW S, Slots(h, a) \in Seq(S), Len(Slots(h, a)) <= MaxLen + 2
  PROVE  /\ Held(h, i) = HeldBut(h, i, a) + Times(i, Slots(h, a))
         /\ HeldBut(h, i, a) \in Nat /\ Held(h, i) \in Nat
<1> DEFINE Z == 1 .. MaxLen + 2
           A == {p \in (Places \ {a}) \X Z : p[2] \in DOMAIN Slots(h, p[1]) /\ Slots(h, p[1])[p[2]] = i}
           B == {p \in {a} \X Z : p[2] \in DOMAIN Slots(h, p[1]) /\ Slots(h, p[1])[p[2]] = i}
           C == {p \in Places \X Z : p[2] \in DOMAIN Slots(h, p[1]) /\ Slots(h, p[1])[p[2]] = i}
           D == {k \in DOMAIN Slots(h, a) : Slots(h, a)[k] = i}
           f == [k \in D |-> <<a, k>>]
<1>1. C = A \cup B /\ A \cap B = {}
  OBVIOUS
<1>2. A \in SUBSET (Places \X Z) /\ B \in SUBSET (Places \X Z) /\ C \in SUBSET (Places \X Z)
  OBVIOUS
<1>3. /\ IsFiniteSet(A) /\ IsFiniteSet(B)
      /\ Cardinality(A) \in Nat /\ Cardinality(B) \in Nat /\ Cardinality(C) \in Nat
  <2> HIDE DEF A, B, C
  <2> QED BY <1>2, FinitePlaces
<1>4. Cardinality(C) = Cardinality(A) + Cardinality(B)
  <2> HIDE DEF A, B, C
  <2>1. Cardinality(A \cup B) = Cardinality(A) + Cardinality(B) - Cardinality(A \cap B)
    BY <1>3, FS_Union
  <2>2. Cardinality(A \cap B) = 0
    BY <1>1, FS_EmptySet
  <2> QED BY <1>1, <1>3, <2>1, <2>2
<1>5. Cardinality(B) = Cardinality(D)
  <2>1. DOMAIN Slots(h, a) = 1 .. Len(Slots(h, a)) /\ Len(Slots(h, a)) \in Nat
    OBVIOUS
  <2>2. IsFiniteSet(D)
    BY <2>1, FiniteUpTo
  <2>3. D \subseteq Z
    BY <2>1, RefsAssumption
  <2>4. f \in [D -> B]
    BY <2>3
  <2>5. \A x, y \in D : f[x] = f[y] => x = y
    OBVIOUS
  <2>6. \A y \in B : \E x \in D : f[x] = y
    OBVIOUS
  <2> HIDE DEF B, D, f
  <2> QED BY <2>2, <2>4, <2>5, <2>6, SameSize
<1>6. Held(h, i) = Cardinality(C)
  BY DEF Held, Places
<1>7. HeldBut(h, i, a) = Cardinality(A)
  BY DEF HeldBut
<1>8. Times(i, Slots(h, a)) = Cardinality(D)
  BY DEF Times
<1> QED BY <1>3, <1>4, <1>5, <1>6, <1>7, <1>8

\* Held depends on the elements and members only.
LEMMA HeldButSame ==
  ASSUME NEW h, NEW g, NEW i, NEW a, \A j \in Places \ {a} : Slots(h, j) = Slots(g, j)
  PROVE  HeldBut(h, i, a) = HeldBut(g, i, a)
<1> DEFINE P(q, p) == p[2] \in DOMAIN Slots(q, p[1]) /\ Slots(q, p[1])[p[2]] = i
<1>1. {p \in (Places \ {a}) \X (1 .. MaxLen + 2) : P(h, p)}
        = {p \in (Places \ {a}) \X (1 .. MaxLen + 2) : P(g, p)}
  OBVIOUS
<1> QED BY <1>1 DEF HeldBut

LEMMA HeldSame ==
  ASSUME NEW h, NEW g, NEW i, \A j \in Places : Slots(h, j) = Slots(g, j)
  PROVE  Held(h, i) = Held(g, i)
<1> DEFINE P(q, p) == p[2] \in DOMAIN Slots(q, p[1]) /\ Slots(q, p[1])[p[2]] = i
<1>1. {p \in Places \X (1 .. MaxLen + 2) : P(h, p)} = {p \in Places \X (1 .. MaxLen + 2) : P(g, p)}
  OBVIOUS
<1> QED BY <1>1 DEF Held, Places

\* It is 0 when none holds i, and not 0 when one does.
LEMMA HeldNot ==
  ASSUME NEW h, NEW i, \A j \in Places : \A k \in DOMAIN Slots(h, j) : Slots(h, j)[k] # i
  PROVE  Held(h, i) = 0
<1>1. {p \in (Ids \cup {Literal}) \X (1 .. MaxLen + 2) :
         p[2] \in DOMAIN Slots(h, p[1]) /\ Slots(h, p[1])[p[2]] = i} = {}
  BY DEF Places
<1> QED BY <1>1, FS_EmptySet DEF Held

LEMMA HeldSome ==
  ASSUME NEW h, NEW i, NEW j \in Places, NEW S, Slots(h, j) \in Seq(S), Len(Slots(h, j)) <= MaxLen + 2,
         NEW k \in DOMAIN Slots(h, j), Slots(h, j)[k] = i
  PROVE  Held(h, i) >= 1
<1> DEFINE C == {p \in Places \X (1 .. MaxLen + 2) : p[2] \in DOMAIN Slots(h, p[1]) /\ Slots(h, p[1])[p[2]] = i}
<1>1. k \in 1 .. MaxLen + 2
  BY RefsAssumption
<1>2. <<j, k>> \in C /\ C \in SUBSET (Places \X (1 .. MaxLen + 2))
  BY <1>1
<1>3. Held(h, i) = Cardinality(C)
  BY DEF Held, Places
<1> HIDE DEF C
<1>4. IsFiniteSet(C) /\ Cardinality(C) \in Nat
  BY <1>2, FinitePlaces
<1>5. Cardinality(C) # 0
  BY <1>2, <1>4, FS_EmptySet
<1> QED BY <1>3, <1>4, <1>5

-----------------------------------------------------------------------------
(* The recursive functions of the heap, step by step.  Induction is the     *)
(* choice of a least counterexample.                                        *)

LEMMA Least == ASSUME NEW S \in SUBSET Nat, S # {} PROVE \E m \in S : \A k \in S : m <= k
<1> PICK n \in S : TRUE
  OBVIOUS
<1> DEFINE T == {0 .. k : k \in S \cap (0 .. n)}
<1>1. IsFiniteSet(0 .. n)
  BY FS_Interval
<1>2. T \subseteq SUBSET (0 .. n) /\ T # {}
  OBVIOUS
<1>3. PICK x \in T : \A y \in T : <<y, x>> \notin StrictSubsetOrdering(0 .. n)
  <2>1. IsWellFoundedOn(StrictSubsetOrdering(0 .. n), SUBSET (0 .. n))
    BY <1>1, FS_StrictSubsetOrderingWellFounded, FS_FiniteSubsetsOfFinite
  <2> HIDE DEF T
  <2> QED BY <1>2, <2>1, WFMin
<1>4. PICK m \in S \cap (0 .. n) : x = 0 .. m
  BY <1>3
<1>5. ASSUME NEW k \in S, k < m PROVE FALSE
  <2>1. 0 .. k \in T
    BY <1>4, <1>5
  <2>2. 0 .. k \subseteq 0 .. m /\ 0 .. k # 0 .. m
    BY <1>4, <1>5
  <2> QED BY <1>2, <1>3, <1>4, <2>1, <2>2 DEF StrictSubsetOrdering
<1> QED BY <1>4, <1>5

\* The heaps of the loop that lets go of the elements s: h, and one after each element.
Walked(f, h, s) ==
  /\ f[0] = h /\ f[Len(s)] = UnrefElements(h, s)
  /\ \A n \in 1 .. Len(s) : f[n] = UnrefNumber(f[n - 1], s[n])

\* There is such a sequence of heaps, of the loop over elements and of the one over values.
LEMMA WalkedIs ==
  ASSUME NEW h, NEW s, Len(s) \in Nat
  PROVE  \E f : /\ f[0] = h /\ f[Len(s)] = UnrefElements(h, s)
               /\ \A n \in 1 .. Len(s) : f[n] = UnrefNumber(f[n - 1], s[n])
<1> DEFINE Walk(f, n) == f = [k \in 0 .. n |-> IF k = 0 THEN h ELSE UnrefNumber(f[k - 1], s[k])]
           Bad == {n \in Nat : ~ \E f : Walk(f, n)}
<1>1. ASSUME Bad # {} PROVE FALSE
  <2>1. PICK m \in Bad : \A k \in Bad : m <= k
    BY <1>1, Least
  <2>2. CASE m = 0
    <3>1. Walk([k \in 0 .. 0 |-> h], 0)
      OBVIOUS
    <3> QED BY <2>1, <2>2, <3>1
  <2>3. CASE m # 0
    <3>1. m - 1 \in Nat /\ ~(m <= m - 1)
      BY <2>1, <2>3
    <3>2. PICK f : Walk(f, m - 1)
      BY <2>1, <3>1
    <3> DEFINE g == [k \in 0 .. m |-> IF k = m THEN UnrefNumber(f[m - 1], s[m]) ELSE f[k]]
    <3>3. \A k \in 0 .. m - 1 : f[k] = IF k = 0 THEN h ELSE UnrefNumber(f[k - 1], s[k])
      BY <3>2
    <3>4. \A k \in 0 .. m : g[k] = IF k = 0 THEN h ELSE UnrefNumber(g[k - 1], s[k])
      <4> TAKE k \in 0 .. m
      <4>1. CASE k = m
        BY <2>1, <2>3, <4>1
      <4>2. CASE k # m
        BY <2>1, <3>3, <4>2
      <4> QED BY <4>1, <4>2
    <3>5. g = [k \in 0 .. m |-> g[k]]
      OBVIOUS
    <3> HIDE DEF g
    <3>6. Walk(g, m)
      BY <3>4, <3>5
    <3> QED BY <2>1, <3>6
  <2> QED BY <2>2, <2>3
<1> DEFINE a == CHOOSE f : Walk(f, Len(s))
<1>2. Walk(a, Len(s))
  BY <1>1
<1>3. a[Len(s)] = UnrefElements(h, s)
  BY DEF UnrefElements
<1> HIDE DEF a
<1>4. a[0] = h /\ \A n \in 1 .. Len(s) : a[n] = UnrefNumber(a[n - 1], s[n])
  BY <1>2
<1> QED BY <1>3, <1>4

LEMMA ElementsWalk == ASSUME NEW h, NEW s, Len(s) \in Nat PROVE \E f : Walked(f, h, s)
BY WalkedIs DEF Walked

\* The same for UnrefAll.
LEMMA AllWalk ==
  ASSUME NEW h, NEW s, Len(s) \in Nat
  PROVE  \E f : /\ f[0] = h /\ f[Len(s)] = UnrefAll(h, s)
               /\ \A n \in 1 .. Len(s) : f[n] = object_unref(f[n - 1], s[n])
<1> DEFINE Walk(f, n) == f = [k \in 0 .. n |-> IF k = 0 THEN h ELSE object_unref(f[k - 1], s[k])]
           Bad == {n \in Nat : ~ \E f : Walk(f, n)}
<1>1. ASSUME Bad # {} PROVE FALSE
  <2>1. PICK m \in Bad : \A k \in Bad : m <= k
    BY <1>1, Least
  <2>2. CASE m = 0
    <3>1. Walk([k \in 0 .. 0 |-> h], 0)
      OBVIOUS
    <3> QED BY <2>1, <2>2, <3>1
  <2>3. CASE m # 0
    <3>1. m - 1 \in Nat /\ ~(m <= m - 1)
      BY <2>1, <2>3
    <3>2. PICK f : Walk(f, m - 1)
      BY <2>1, <3>1
    <3> DEFINE g == [k \in 0 .. m |-> IF k = m THEN object_unref(f[m - 1], s[m]) ELSE f[k]]
    <3>3. \A k \in 0 .. m - 1 : f[k] = IF k = 0 THEN h ELSE object_unref(f[k - 1], s[k])
      BY <3>2
    <3>4. \A k \in 0 .. m : g[k] = IF k = 0 THEN h ELSE object_unref(g[k - 1], s[k])
      <4> TAKE k \in 0 .. m
      <4>1. CASE k = m
        BY <2>1, <2>3, <4>1
      <4>2. CASE k # m
        BY <2>1, <3>3, <4>2
      <4> QED BY <4>1, <4>2
    <3>5. g = [k \in 0 .. m |-> g[k]]
      OBVIOUS
    <3> HIDE DEF g
    <3>6. Walk(g, m)
      BY <3>4, <3>5
    <3> QED BY <2>1, <3>6
  <2> QED BY <2>2, <2>3
<1> DEFINE a == CHOOSE f : Walk(f, Len(s))
<1>2. Walk(a, Len(s))
  BY <1>1
<1>3. a[Len(s)] = UnrefAll(h, s)
  BY DEF UnrefAll
<1> HIDE DEF a
<1>4. a[0] = h /\ \A n \in 1 .. Len(s) : a[n] = object_unref(a[n - 1], s[n])
  BY <1>2
<1> QED BY <1>3, <1>4
-----------------------------------------------------------------------------
(* What the heap keeps: the shapes of objects, whose elements and members   *)
(* are numbers or null, and the counts.                                     *)

Objects == [type : Types \cup {"none"}, ref : Int, slots : Seq(Vals)]
Heaps == [o : [Places -> Objects], wild : BOOLEAN]

Fits(h, x) ==
  /\ Len(x.slots) <= MaxLen + 2
  /\ x.type \in NumberTypes => x.slots = <<>>
  /\ x.type = "struct" => Len(x.slots) = 2 /\ TypeOf(h, x.slots[1]) = "int"
  /\ x.type = "union" => Len(x.slots) <= 1
  /\ x.type = "dict" => Len(x.slots) \in {0, 2}
  /\ \A k \in DOMAIN x.slots : TypeOf(h, x.slots[k]) \in NumberTypes \cup {"null"}

Shaped(h) ==
  /\ h \in Heaps
  /\ h.o[Literal].type = "vec"
  /\ \A j \in Places : Fits(h, h.o[j]) /\ (~Live(h, j) => h.o[j] = NoObject)

(* Each count is the number of elements and members that hold the object,    *)
(* b(i), the variables' references, and e(i), those that the opcode has in   *)
(* hand.  F are the objects without a count yet.  An object that a variable  *)
(* holds is of the type it had when the opcode began.                        *)
Owns(h, b, e, F) ==
  /\ Shaped(h)
  /\ b \in [Ids -> Nat] /\ e \in [Ids -> Nat]
  /\ \A i \in Ids : /\ h.o[i].ref = Held(h, i) + b[i] + e[i]
                    /\ i \in F <=> Live(h, i) /\ h.o[i].ref = 0
                    /\ b[i] > 0 => TypeOf(h, i) = TypeOf(heap, i)

Plus(e, v) == [i \in Ids |-> e[i] + One(v, i)]
Minus(e, v) == [i \in Ids |-> e[i] - One(v, i)]

\* The objects of g are those of h: none is new and none has been changed.
Same(h, g) ==
  \A j \in Places : Live(g, j) => g.o[j].type = h.o[j].type /\ g.o[j].slots = h.o[j].slots

\* The types, and reading a heap.
LEMMA TypesApart ==
  /\ "none" \notin Types /\ "null" \notin Types /\ "void" \notin Types
  /\ NumberTypes \subseteq Types /\ "vec" \notin NumberTypes
BY DEF Types, NumberTypes, Compounds

\* The type of an object is in the heap.
LEMMA TypeOfId == ASSUME NEW h, NEW j \in Places PROVE TypeOf(h, j) = h.o[j].type
BY Apart DEF TypeOf, Places

\* Using an object leaves the heap as it is when the object is there.
LEMMA TouchIs ==
  ASSUME NEW h \in Heaps, NEW v
  PROVE  /\ Touch(h, v) \in Heaps /\ Touch(h, v).o = h.o
         /\ Touch(h, v).wild <=> h.wild \/ (v \in Ids /\ ~Live(h, v))
         /\ v \notin Ids \/ Live(h, v) => Touch(h, v) = h
BY DEF Touch, Heaps

\* What an object of a heap consists of.
LEMMA HeapIs ==
  ASSUME NEW h \in Heaps, NEW j \in Places
  PROVE  /\ h.o[j] \in Objects /\ h.o[j].type \in Types \cup {"none"} /\ h.o[j].ref \in Int
         /\ h.o[j].slots \in Seq(Vals)
         /\ DOMAIN h.o[j].slots = 1 .. Len(h.o[j].slots)
         /\ \A k \in DOMAIN h.o[j].slots : h.o[j].slots[k] \in Vals
BY DEF Heaps, Objects

\* What is left when the objects of D are gone.
LEMMA StillShaped ==
  ASSUME NEW h, NEW g \in Heaps, Shaped(h), NEW D \in SUBSET Ids,
         \A j \in Places \ D : g.o[j].type = h.o[j].type /\ g.o[j].slots = h.o[j].slots,
         \A j \in Places \ D : ~Live(h, j) => g.o[j] = NoObject,
         \A j \in D : g.o[j] = NoObject,
         \A j \in Places \ D : \A k \in DOMAIN h.o[j].slots : h.o[j].slots[k] \notin D
  PROVE  Shaped(g)
<1>1. g.o[Literal].type = "vec"
  BY Apart DEF Places, Shaped
<1>2. ASSUME NEW j \in Places, j \in D PROVE Fits(g, g.o[j]) /\ (~Live(g, j) => g.o[j] = NoObject)
  BY <1>2, RefsAssumption, TypesApart DEF Fits, NoObject
<1>3. ASSUME NEW j \in Places, j \notin D PROVE Fits(g, g.o[j]) /\ (~Live(g, j) => g.o[j] = NoObject)
  <2>1. \A k \in DOMAIN h.o[j].slots : h.o[j].slots[k] \in Vals \ D
    BY <1>3, HeapIs DEF Shaped
  <2>2. \A v \in Vals \ D : TypeOf(g, v) = TypeOf(h, v)
    BY DEF Vals, TypeOf
  <2>3. \A k \in DOMAIN h.o[j].slots : TypeOf(g, h.o[j].slots[k]) = TypeOf(h, h.o[j].slots[k])
    BY <2>1, <2>2
  <2>4. Fits(h, h.o[j]) /\ g.o[j].type = h.o[j].type /\ g.o[j].slots = h.o[j].slots
    BY <1>3 DEF Shaped
  <2>5. h.o[j].type = "struct" => 1 \in DOMAIN h.o[j].slots
    BY <2>4, HeapIs DEF Fits, Shaped
  <2>6. Fits(g, g.o[j])
    BY <2>3, <2>4, <2>5 DEF Fits
  <2> QED BY <1>3, <2>4, <2>6 DEF Live, Shaped
<1> QED BY <1>1, <1>2, <1>3 DEF Shaped

\* Held is a number, which splits over the objects.
LEMMA HeldType ==
  ASSUME NEW h, Shaped(h), NEW i
  PROVE  /\ Held(h, i) \in Nat
         /\ \A a \in Places : /\ Held(h, i) = HeldBut(h, i, a) + Times(i, Slots(h, a))
                              /\ HeldBut(h, i, a) \in Nat /\ Times(i, Slots(h, a)) \in Nat
<1>1. ASSUME NEW a \in Places
      PROVE  /\ Slots(h, a) \in Seq(Vals) /\ Len(Slots(h, a)) <= MaxLen + 2
             /\ Held(h, i) = HeldBut(h, i, a) + Times(i, Slots(h, a))
             /\ HeldBut(h, i, a) \in Nat /\ Held(h, i) \in Nat /\ Times(i, Slots(h, a)) \in Nat
  <2>1. Slots(h, a) \in Seq(Vals) /\ Len(Slots(h, a)) <= MaxLen + 2
    BY HeapIs DEF Shaped, Slots, Fits
  <2> QED BY <2>1, HeldSplit, TimesIsTo
<1>2. Literal \in Places
  BY DEF Places
<1> QED BY <1>1, <1>2

\* What has no references is in no container, and containers are in none.
LEMMA NotHeld ==
  ASSUME NEW h, Shaped(h), NEW i, Held(h, i) = 0, NEW j \in Places, NEW k \in DOMAIN h.o[j].slots
  PROVE  h.o[j].slots[k] # i
<1>1. Slots(h, j) \in Seq(Vals) /\ Len(Slots(h, j)) <= MaxLen + 2 /\ Slots(h, j) = h.o[j].slots
  BY HeapIs DEF Shaped, Slots, Fits
<1> QED BY <1>1, HeldSome

\* Containers are in no container.
LEMMA ContainerNotHeld ==
  ASSUME NEW h, Shaped(h), NEW i, TypeOf(h, i) \notin NumberTypes \cup {"null"}
  PROVE  Held(h, i) = 0
<1>1. \A j \in Places : \A k \in DOMAIN Slots(h, j) : Slots(h, j)[k] # i
  BY DEF Shaped, Fits, Slots
<1> QED BY <1>1, HeldNot

-----------------------------------------------------------------------------
(* Counting and letting go.                                                 *)

LEMMA PlusIs ==
  ASSUME NEW e \in [Ids -> Nat], NEW v
  PROVE  Plus(e, v) \in [Ids -> Nat] /\ \A i \in Ids : Plus(e, v)[i] = e[i] + One(v, i)
BY DEF Plus, One

\* One reference less in hand.
LEMMA MinusIs ==
  ASSUME NEW e \in [Ids -> Nat], NEW v, v \in Ids => e[v] > 0
  PROVE  Minus(e, v) \in [Ids -> Nat] /\ \A i \in Ids : Minus(e, v)[i] = e[i] - One(v, i)
BY DEF Minus, One

SetRef(h, v, r) == [h EXCEPT !.o[v].ref = r]
SetSlots(h, v, s) == [h EXCEPT !.o[v].slots = s]
Less(h, v) == SetRef(h, v, h.o[v].ref - 1)
Gone(h, v) == [h EXCEPT !.o[v] = NoObject]

\* Heaps in which one object, its count or its elements have been set.
LEMMA SetIs ==
  ASSUME NEW h \in Heaps, NEW j \in Places, NEW x \in Objects
  PROVE  /\ [h EXCEPT !.o[j] = x] \in Heaps /\ [h EXCEPT !.o[j] = x].wild = h.wild
         /\ [h EXCEPT !.o[j] = x].o[j] = x
         /\ \A k \in Places : k # j => [h EXCEPT !.o[j] = x].o[k] = h.o[k]
BY DEF Heaps

\* One count set.
LEMMA SetRefIs ==
  ASSUME NEW h \in Heaps, NEW j \in Places, NEW r \in Nat
  PROVE  /\ SetRef(h, j, r) \in Heaps /\ SetRef(h, j, r).wild = h.wild
         /\ SetRef(h, j, r).o[j].ref = r
         /\ \A k \in Places : /\ SetRef(h, j, r).o[k].type = h.o[k].type
                              /\ SetRef(h, j, r).o[k].slots = h.o[k].slots
                              /\ k # j => SetRef(h, j, r).o[k] = h.o[k]
<1> DEFINE x == [h.o[j] EXCEPT !.ref = r]
           g == SetRef(h, j, r)
<1>1. h.o[j] \in Objects
  BY DEF Heaps
<1>2. x \in Objects /\ x.type = h.o[j].type /\ x.slots = h.o[j].slots /\ x.ref = r
  BY <1>1 DEF Objects
<1>3. g = [h EXCEPT !.o[j] = x]
  BY DEF Heaps, SetRef
<1> HIDE DEF x, g
<1>4. g \in Heaps /\ g.wild = h.wild /\ g.o[j] = x /\ \A k \in Places : k # j => g.o[k] = h.o[k]
  BY <1>2, <1>3, SetIs
<1>5. g \in Heaps /\ g.wild = h.wild /\ g.o[j].ref = r
  BY <1>2, <1>4
<1>6. ASSUME NEW k \in Places
      PROVE g.o[k].type = h.o[k].type /\ g.o[k].slots = h.o[k].slots /\ (k # j => g.o[k] = h.o[k])
  BY <1>2, <1>4
<1> QED BY <1>5, <1>6 DEF g

\* The elements or members of one object set.
LEMMA SetSlotsIs ==
  ASSUME NEW h \in Heaps, NEW j \in Places, NEW s \in Seq(Vals)
  PROVE  /\ SetSlots(h, j, s) \in Heaps /\ SetSlots(h, j, s).wild = h.wild
         /\ SetSlots(h, j, s).o[j].slots = s
         /\ \A k \in Places : /\ SetSlots(h, j, s).o[k].type = h.o[k].type
                              /\ SetSlots(h, j, s).o[k].ref = h.o[k].ref
                              /\ k # j => SetSlots(h, j, s).o[k] = h.o[k]
<1> DEFINE x == [h.o[j] EXCEPT !.slots = s]
           g == SetSlots(h, j, s)
<1>1. h.o[j] \in Objects
  BY DEF Heaps
<1>2. x \in Objects /\ x.type = h.o[j].type /\ x.ref = h.o[j].ref /\ x.slots = s
  BY <1>1 DEF Objects
<1>3. g = [h EXCEPT !.o[j] = x]
  BY DEF Heaps, SetSlots
<1> HIDE DEF x, g
<1>4. g \in Heaps /\ g.wild = h.wild /\ g.o[j] = x /\ \A k \in Places : k # j => g.o[k] = h.o[k]
  BY <1>2, <1>3, SetIs
<1>5. g \in Heaps /\ g.wild = h.wild /\ g.o[j].slots = s
  BY <1>2, <1>4
<1>6. ASSUME NEW k \in Places
      PROVE g.o[k].type = h.o[k].type /\ g.o[k].ref = h.o[k].ref /\ (k # j => g.o[k] = h.o[k])
  BY <1>2, <1>4
<1> QED BY <1>5, <1>6 DEF g

\* One object gone.
LEMMA GoneIs ==
  ASSUME NEW h \in Heaps, NEW j \in Places
  PROVE  /\ Gone(h, j) \in Heaps /\ Gone(h, j).wild = h.wild /\ Gone(h, j).o[j] = NoObject
         /\ \A k \in Places : k # j => Gone(h, j).o[k] = h.o[k]
<1>1. NoObject \in Objects
  BY DEF NoObject, Objects
<1> QED BY <1>1, SetIs DEF Gone

\* The counts and what is in hand, one object at a time.
LEMMA OwnsAt ==
  ASSUME NEW h, NEW b, NEW e, NEW F, Owns(h, b, e, F), NEW i \in Ids
  PROVE  /\ b[i] \in Nat /\ e[i] \in Nat /\ Held(h, i) \in Nat
         /\ h.o[i].ref = Held(h, i) + b[i] + e[i] /\ h.o[i].ref \in Nat
         /\ (i \in F <=> Live(h, i) /\ h.o[i].ref = 0)
         /\ (h.o[i].ref > 0 => Live(h, i))
         /\ (b[i] > 0 => TypeOf(h, i) = TypeOf(heap, i))
         /\ h \in Heaps /\ Shaped(h) /\ i \in Places
<1>1. /\ b[i] \in Nat /\ e[i] \in Nat /\ h.o[i].ref = Held(h, i) + b[i] + e[i]
      /\ (i \in F <=> Live(h, i) /\ h.o[i].ref = 0)
      /\ (b[i] > 0 => TypeOf(h, i) = TypeOf(heap, i)) /\ Shaped(h) /\ i \in Places
  BY DEF Owns, Places
<1>2. Held(h, i) \in Nat
  BY <1>1, HeldType
<1>3. ~Live(h, i) => h.o[i] = NoObject
  BY <1>1 DEF Shaped
<1> QED BY <1>1, <1>2, <1>3 DEF Shaped, NoObject

\* Of a heap with other counts, and the same objects.
Counted(h, b, d, v, r) == r = Held(h, v) + b[v] + d[v]

\* A count that is set to the number of its holders, the hand included.
LEMMA CountOwns ==
  ASSUME NEW h, NEW b, NEW e, NEW F, Owns(h, b, e, F), NEW v \in Ids, Live(h, v), NEW r \in Nat,
         NEW d \in [Ids -> Nat], \A i \in Ids : i # v => d[i] = e[i], Counted(h, b, d, v, r),
         NEW g, g = SetRef(h, v, r), NEW G, v \in G <=> r = 0, \A i \in Ids : i # v => (i \in G <=> i \in F)
  PROVE  /\ Owns(g, b, d, G) /\ g.wild = h.wild
         /\ \A j \in Places : g.o[j].type = h.o[j].type /\ g.o[j].slots = h.o[j].slots
<1>0. h \in Heaps /\ v \in Places /\ Shaped(h)
  BY DEF Owns, Shaped, Places
<1>1. /\ g \in Heaps /\ g.wild = h.wild /\ g.o[v].ref = r
      /\ \A j \in Places : /\ g.o[j].type = h.o[j].type /\ g.o[j].slots = h.o[j].slots
                           /\ j # v => g.o[j] = h.o[j]
  BY <1>0, SetRefIs
<1>2. Shaped(g)
  <2>1. \A j \in Places : ~Live(h, j) => g.o[j] = NoObject
    BY <1>0, <1>1 DEF Shaped
  <2>2. g.o[Literal].type = "vec"
    BY <1>0, <1>1 DEF Shaped, Places
  <2>3. \A j \in Places : /\ g.o[j].type = h.o[j].type /\ g.o[j].slots = h.o[j].slots
    BY <1>1
  <2> DEFINE D == {}
  <2>4. /\ D \in SUBSET Ids /\ \A j \in D : g.o[j] = NoObject
        /\ \A j \in Places \ D : \A k \in DOMAIN h.o[j].slots : h.o[j].slots[k] \notin D
        /\ \A j \in Places \ D : ~Live(h, j) => g.o[j] = NoObject
        /\ \A j \in Places \ D : g.o[j].type = h.o[j].type /\ g.o[j].slots = h.o[j].slots
    BY <2>1, <2>3
  <2> HIDE DEF D
  <2> QED BY <1>0, <1>1, <2>1, <2>3, <2>4, StillShaped
<1>3. ASSUME NEW i \in Ids
      PROVE  /\ g.o[i].ref = Held(g, i) + b[i] + d[i]
             /\ (i \in G <=> Live(g, i) /\ g.o[i].ref = 0)
             /\ (b[i] > 0 => TypeOf(g, i) = TypeOf(heap, i))
  <2>1. i \in Places /\ TypeOf(g, i) = TypeOf(h, i) /\ (Live(g, i) <=> Live(h, i))
    BY <1>1, TypeOfId DEF Places, Live
  <2>2. Held(g, i) = Held(h, i)
    BY <1>1, HeldSame DEF Slots
  <2>3. /\ h.o[i].ref = Held(h, i) + b[i] + e[i] /\ (i \in F <=> Live(h, i) /\ h.o[i].ref = 0)
        /\ (b[i] > 0 => TypeOf(h, i) = TypeOf(heap, i))
    BY OwnsAt
  <2>4. CASE i = v
    BY <1>1, <2>1, <2>2, <2>3, <2>4 DEF Counted
  <2>5. CASE i # v
    BY <1>1, <2>1, <2>2, <2>3, <2>5
  <2> QED BY <2>4, <2>5
<1>4. b \in [Ids -> Nat]
  BY DEF Owns
<1>5. Owns(g, b, d, G)
  BY <1>2, <1>3, <1>4 DEF Owns
<1> QED BY <1>1, <1>5

\* Owns depends only on which objects are new, and how many references are in hand.
LEMMA SameF ==
  ASSUME NEW h, NEW b, NEW e, NEW F, NEW G, Owns(h, b, e, F), \A i \in Ids : i \in F <=> i \in G
  PROVE  Owns(h, b, e, G)
BY DEF Owns

LEMMA SameE ==
  ASSUME NEW h, NEW b, NEW e, NEW d \in [Ids -> Nat], NEW F, Owns(h, b, e, F), \A i \in Ids : e[i] = d[i]
  PROVE  Owns(h, b, d, F)
BY DEF Owns

\* object_ref adds a reference, which is in hand; the object is new no more.
LEMMA RefOwns ==
  ASSUME NEW h, NEW b, NEW e, NEW F, Owns(h, b, e, F), NEW v, v \in Ids => Live(h, v)
  PROVE  /\ Owns(object_ref(h, v), b, Plus(e, v), F \ {v})
         /\ object_ref(h, v).wild = h.wild
         /\ \A j \in Places : /\ object_ref(h, v).o[j].type = h.o[j].type
                              /\ object_ref(h, v).o[j].slots = h.o[j].slots
<1>0. h \in Heaps /\ e \in [Ids -> Nat]
  BY DEF Owns, Shaped
<1>1. CASE v \notin Ids
  <2>1. object_ref(h, v) = h
    BY <1>1 DEF object_ref
  <2>2. Plus(e, v) \in [Ids -> Nat] /\ \A i \in Ids : e[i] = Plus(e, v)[i]
    BY <1>0, <1>1, PlusIs DEF One
  <2>3. Owns(h, b, e, F \ {v})
    BY <1>1, SameF
  <2>4. Owns(h, b, Plus(e, v), F \ {v})
    BY <2>2, <2>3, SameE
  <2> QED BY <2>1, <2>4
<1>2. CASE v \in Ids
  <2> DEFINE r == h.o[v].ref + 1
  <2>1. h.o[v].ref = Held(h, v) + b[v] + e[v] /\ Held(h, v) \in Nat /\ b[v] \in Nat /\ e[v] \in Nat
    BY <1>2, OwnsAt
  <2>2. r \in Nat /\ r # 0 /\ r = Held(h, v) + b[v] + Plus(e, v)[v]
    BY <1>0, <1>2, <2>1, PlusIs DEF One
  <2>3. Plus(e, v) \in [Ids -> Nat] /\ \A i \in Ids : i # v => Plus(e, v)[i] = e[i]
    BY <1>0, PlusIs DEF One
  <2>4. object_ref(h, v) = SetRef(h, v, r)
    BY <1>0, <1>2, TouchIs DEF object_ref, SetRef
  <2> DEFINE G == F \ {v}
  <2>5. v \notin G /\ \A i \in Ids : i # v => (i \in G <=> i \in F)
    OBVIOUS
  <2> HIDE DEF r, G
  <2>6. /\ Owns(SetRef(h, v, r), b, Plus(e, v), G) /\ SetRef(h, v, r).wild = h.wild
        /\ \A j \in Places : SetRef(h, v, r).o[j].type = h.o[j].type /\ SetRef(h, v, r).o[j].slots = h.o[j].slots
    <3> Counted(h, b, Plus(e, v), v, r)
      BY <2>2 DEF Counted
    <3> QED BY <1>2, <2>2, <2>3, <2>5, CountOwns
  <2> QED BY <2>4, <2>6 DEF G
<1> QED BY <1>1, <1>2

\* One reference less, when others are left.
LEMMA LessOwns ==
  ASSUME NEW h, NEW b, NEW e, NEW F, Owns(h, b, e, F), NEW v \in Ids, e[v] > 0, h.o[v].ref > 1,
         NEW g, g = Less(h, v)
  PROVE  Owns(g, b, Minus(e, v), F) /\ g.wild = h.wild /\ Same(h, g) /\ g.o[v].ref > 0
<1> DEFINE r == h.o[v].ref - 1
<1>1. /\ h.o[v].ref = Held(h, v) + b[v] + e[v] /\ Held(h, v) \in Nat /\ b[v] \in Nat /\ e[v] \in Nat
      /\ Live(h, v) /\ h \in Heaps /\ v \in Places /\ v \notin F
  BY OwnsAt
<1>2. e \in [Ids -> Nat]
  BY DEF Owns
<1>3. Minus(e, v) \in [Ids -> Nat] /\ Minus(e, v)[v] = e[v] - 1 /\ \A i \in Ids : i # v => Minus(e, v)[i] = e[i]
  BY <1>2, MinusIs DEF One
<1>4. r \in Nat /\ r # 0 /\ r > 0
  BY <1>1
<1>5. g = SetRef(h, v, r)
  BY DEF Less
<1> HIDE DEF r
<1>6. /\ Owns(g, b, Minus(e, v), F) /\ g.wild = h.wild
      /\ \A j \in Places : g.o[j].type = h.o[j].type /\ g.o[j].slots = h.o[j].slots
  <2> Counted(h, b, Minus(e, v), v, r)
    BY <1>1, <1>3 DEF Counted, r
  <2> QED BY <1>1, <1>3, <1>4, <1>5, CountOwns
<1>7. g.o[v].ref = r
  <2>1. h \in Heaps /\ v \in Places /\ r \in Nat
    BY <1>1, <1>4
  <2>2. SetRef(h, v, r).o[v].ref = r
    BY <2>1, SetRefIs
  <2> QED BY <2>2, <1>5
<1> QED BY <1>4, <1>6, <1>7 DEF Same

\* The last reference goes, and what the object held is in hand.
Freed(e, v, s) == [i \in Ids |-> (IF i = v THEN 0 ELSE e[i]) + Times(i, s)]

\* The object goes with its last reference, and its elements come into the hand.
LEMMA LastOwns ==
  ASSUME NEW h, NEW b, NEW e, NEW F, Owns(h, b, e, F), NEW v \in Ids, h.o[v].ref = e[v],
         NEW g, g = Gone(h, v)
  PROVE  /\ Owns(g, b, Freed(e, v, h.o[v].slots), F \ {v})
         /\ g.wild = h.wild /\ Same(h, g) /\ ~Live(g, v)
<1> DEFINE d == Freed(e, v, h.o[v].slots)
<1>0. h \in Heaps /\ v \in Places /\ Shaped(h)
  BY DEF Owns, Shaped, Places
<1>1. /\ g \in Heaps /\ g.wild = h.wild
      /\ g.o[v] = NoObject /\ \A j \in Places : j # v => g.o[j] = h.o[j]
  BY <1>0, GoneIs
<1>3. Held(h, v) = 0 /\ b[v] = 0
  <2>1. h.o[v].ref = Held(h, v) + b[v] + e[v] /\ Held(h, v) \in Nat /\ b[v] \in Nat /\ e[v] \in Nat
    BY OwnsAt
  <2> QED BY <2>1
<1>4. Shaped(g)
  <2> DEFINE D == {v}
  <2>1. \A j \in Places \ D : \A k \in DOMAIN h.o[j].slots : h.o[j].slots[k] \notin D
    BY <1>0, <1>3, NotHeld
  <2>2. \A j \in Places \ D : g.o[j].type = h.o[j].type /\ g.o[j].slots = h.o[j].slots
    BY <1>0, <1>1
  <2>3. \A j \in Places \ D : ~Live(h, j) => g.o[j] = NoObject
    BY <1>0, <1>1 DEF Shaped
  <2>4. D \in SUBSET Ids /\ \A j \in D : g.o[j] = NoObject
    BY <1>1
  <2> HIDE DEF D
  <2> QED BY <1>0, <1>1, <2>1, <2>2, <2>3, <2>4, StillShaped
<1>5. ASSUME NEW i \in Ids
      PROVE  /\ Held(g, i) = Held(h, i) - Times(i, h.o[v].slots) /\ Held(g, i) \in Nat
             /\ Times(i, h.o[v].slots) \in Nat /\ Held(h, i) \in Nat
  <2>1. HeldBut(g, i, v) = HeldBut(h, i, v)
    BY <1>1, HeldButSame DEF Slots
  <2>2. Held(h, i) = HeldBut(h, i, v) + Times(i, h.o[v].slots) /\ HeldBut(h, i, v) \in Nat
        /\ Times(i, h.o[v].slots) \in Nat
    BY <1>0, HeldType DEF Slots
  <2>3. Held(g, i) = HeldBut(g, i, v) + Times(i, <<>>)
    BY <1>0, <1>1, <1>4, HeldType DEF Slots, NoObject
  <2>4. Times(i, <<>>) = 0
    BY TimesShort
  <2> QED BY <2>1, <2>2, <2>3, <2>4
<1>6. d \in [Ids -> Nat] /\ \A i \in Ids : d[i] = (IF i = v THEN 0 ELSE e[i]) + Times(i, h.o[v].slots)
  BY <1>5 DEF Owns, Freed
<1> HIDE DEF d
<1>7. ASSUME NEW i \in Ids
      PROVE  /\ g.o[i].ref = Held(g, i) + b[i] + d[i]
             /\ (i \in F \ {v} <=> Live(g, i) /\ g.o[i].ref = 0)
             /\ (b[i] > 0 => TypeOf(g, i) = TypeOf(heap, i))
  <2>1. i \in Places
    BY DEF Places
  <2>2. /\ h.o[i].ref = Held(h, i) + b[i] + e[i] /\ (i \in F <=> Live(h, i) /\ h.o[i].ref = 0)
        /\ (b[i] > 0 => TypeOf(h, i) = TypeOf(heap, i))
        /\ b[i] \in Nat /\ e[i] \in Nat
    BY OwnsAt
  <2>3. CASE i = v
    <3>1. Times(v, h.o[v].slots) = 0
      BY <1>3, <1>5
    <3>2. d[i] = 0
      BY <1>6, <2>3, <3>1
    <3>3. g.o[i].ref = 0 /\ ~Live(g, i)
      BY <1>1, <2>3 DEF NoObject, Live
    <3>4. Held(g, i) = 0
      BY <1>3, <1>5, <2>3, <3>1
    <3> QED BY <1>3, <2>3, <3>2, <3>3, <3>4
  <2>4. CASE i # v
    <3>1. g.o[i] = h.o[i] /\ TypeOf(g, i) = TypeOf(h, i) /\ (Live(g, i) <=> Live(h, i))
      BY <1>1, <2>1, <2>4, TypeOfId DEF Live
    <3>2. d[i] = e[i] + Times(i, h.o[v].slots)
      BY <1>6, <2>2, <2>4
    <3>3. g.o[i].ref = Held(g, i) + b[i] + d[i]
      BY <1>5, <2>2, <3>1, <3>2
    <3> QED BY <2>2, <2>4, <3>1, <3>3
  <2> QED BY <2>3, <2>4
<1>8. Owns(g, b, d, F \ {v})
  BY <1>4, <1>6, <1>7 DEF Owns
<1>9. Same(h, g) /\ ~Live(g, v)
  BY <1>1 DEF Same, Live, NoObject
<1> QED BY <1>1, <1>8, <1>9 DEF d

\* Letting go of a number, which holds nothing.
LEMMA UnrefNumberOwns ==
  ASSUME NEW h, NEW b, NEW e, NEW F, Owns(h, b, e, F), NEW v, v \in Ids => e[v] > 0,
         TypeOf(h, v) \in NumberTypes \cup {"null"}
  PROVE  /\ Owns(UnrefNumber(h, v), b, Minus(e, v), F)
         /\ UnrefNumber(h, v).wild = h.wild /\ Same(h, UnrefNumber(h, v))
<1> DEFINE f == UnrefNumber(h, v)
           g == Less(h, v)
<1>0. h \in Heaps /\ Shaped(h) /\ e \in [Ids -> Nat]
  BY DEF Owns, Shaped
<1>1. CASE v \notin Ids
  <2>1. f = h
    BY <1>1 DEF UnrefNumber
  <2>2. Minus(e, v) \in [Ids -> Nat] /\ \A i \in Ids : e[i] = Minus(e, v)[i]
    BY <1>0, <1>1, MinusIs DEF One
  <2>3. Owns(h, b, Minus(e, v), F)
    BY <2>2, SameE
  <2> QED BY <2>1, <2>3 DEF Same
<1>2. CASE v \in Ids
  <2>1. /\ h.o[v].ref = Held(h, v) + b[v] + e[v] /\ b[v] \in Nat /\ e[v] \in Nat /\ Held(h, v) \in Nat
        /\ Live(h, v) /\ v \in Places /\ v \notin F
    BY <1>2, OwnsAt
  <2>3. g.o[v].ref = h.o[v].ref - 1
    <3>1. h.o[v].ref - 1 \in Nat
      BY <1>2, <2>1
    <3> QED BY <1>0, <2>1, <3>1, SetRefIs DEF Less
  <2>4. f = IF g.o[v].ref <= 0 THEN Gone(g, v) ELSE g
    BY <1>0, <1>2, <2>1, TouchIs DEF UnrefNumber, Gone, SetRef, Less
  <2>5. CASE h.o[v].ref > 1
    <3>1. ~(g.o[v].ref <= 0)
      BY <2>1, <2>3, <2>5
    <3>2. f = g
      BY <2>4, <3>1
    <3> QED BY <1>2, <2>5, <3>2, LessOwns
  <2>6. CASE ~(h.o[v].ref > 1)
    <3>0. e[v] > 0
      BY <1>2
    <3>1. e[v] = 1 /\ h.o[v].ref = 1 /\ g.o[v].ref <= 0
      <4> HIDE DEF g
      <4> QED BY <2>1, <2>3, <2>6, <3>0
    <3>2. f = Gone(h, v)
      BY <1>0, <2>1, <2>4, <3>1 DEF Heaps, Gone, SetRef, Less
    <3>3. h.o[v].slots = <<>>
      <4>1. h.o[v].type \in NumberTypes
        BY <1>0, <2>1, TypeOfId, HeapIs, TypesApart DEF Live
      <4> QED BY <1>0, <2>1, <4>1 DEF Shaped, Fits
    <3>4. Minus(e, v) \in [Ids -> Nat] /\ \A i \in Ids : Freed(e, v, h.o[v].slots)[i] = Minus(e, v)[i]
      <4>1. Minus(e, v) \in [Ids -> Nat] /\ \A i \in Ids : Minus(e, v)[i] = e[i] - One(v, i)
        BY <1>0, MinusIs
      <4>2. \A i \in Ids : Times(i, <<>>) = 0
        BY TimesShort
      <4> QED BY <3>1, <3>3, <4>1, <4>2, <1>0 DEF One, Freed
    <3>6. Owns(f, b, Freed(e, v, h.o[v].slots), F \ {v}) /\ f.wild = h.wild /\ Same(h, f)
      BY <1>2, <3>1, <3>2, LastOwns
    <3>7. F \ {v} = F
      BY <2>1
    <3>8. Owns(f, b, Minus(e, v), F)
      BY <3>4, <3>6, <3>7, SameE
    <3> QED BY <3>6, <3>8
  <2> QED BY <2>5, <2>6
<1> QED BY <1>1, <1>2

-----------------------------------------------------------------------------
(* What a helper leaves alone: Same, and the counts of the elements it walks. *)

\* Same is reflexive and transitive, and keeps types.
LEMMA SameSelf == ASSUME NEW h PROVE Same(h, h)
BY DEF Same

LEMMA SameThen == ASSUME NEW h, NEW g, NEW k, Same(h, g), Same(g, k) PROVE Same(h, k)
BY DEF Same, Live

LEMMA SameType ==
  ASSUME NEW h, NEW g, Same(h, g), Shaped(g), NEW v \in Vals, v \in Ids => Live(g, v)
  PROVE  TypeOf(g, v) = TypeOf(h, v) /\ (v \in Places => g.o[v].slots = h.o[v].slots /\ Live(g, v) /\ Live(h, v))
<1>1. CASE v \in Consts
  <2>1. v \notin Places
    BY <1>1, Apart DEF Places
  <2> QED BY <1>1, <2>1 DEF TypeOf
<1>2. CASE v \in Places
  <2>1. Live(g, v)
    BY <1>2, TypesApart DEF Places, Shaped, Live
  <2> QED BY <1>2, <2>1, TypeOfId DEF Same, Live
<1> QED BY <1>1, <1>2 DEF Vals

Rest(e, s, n) == [i \in Ids |-> e[i] - TimesTo(i, s, n)]

\* The references in hand after n of the elements s have been let go of.
LEMMA RestIs ==
  ASSUME NEW e \in [Ids -> Nat], NEW S, NEW s \in Seq(S), NEW n \in 0 .. Len(s),
         \A i \in Ids : Times(i, s) <= e[i]
  PROVE  /\ Rest(e, s, n) \in [Ids -> Nat]
         /\ \A i \in Ids : Rest(e, s, n)[i] = e[i] - TimesTo(i, s, n)
         /\ n > 0 => /\ s[n] \in Ids => Rest(e, s, n - 1)[s[n]] > 0
                     /\ \A i \in Ids : Rest(e, s, n)[i] = Rest(e, s, n - 1)[i] - One(s[n], i)
<1> DEFINE Up(m) == \A i \in Ids : TimesTo(i, s, m) <= Times(i, s)
<1>1. \A m \in 0 .. Len(s) : \A i \in Ids : TimesTo(i, s, m) \in Nat /\ TimesTo(i, s, m) <= Times(i, s)
  <2> TAKE m \in 0 .. Len(s)
  <2> TAKE i \in Ids
  <2>1. {k \in 1 .. m : s[k] = i} \subseteq {k \in 1 .. Len(s) : s[k] = i}
    OBVIOUS
  <2>2. IsFiniteSet({k \in 1 .. Len(s) : s[k] = i})
    BY FiniteUpTo, Len(s) \in Nat
  <2>3. TimesTo(i, s, m) <= TimesTo(i, s, Len(s))
    BY <2>1, <2>2, FS_Subset DEF TimesTo
  <2>4. TimesTo(i, s, m) \in Nat /\ TimesTo(i, s, Len(s)) = Times(i, s)
    <3>1. m \in Nat /\ Len(s) \in Nat
      OBVIOUS
    <3>2. TimesTo(i, s, m) \in Nat
      BY <3>1, TimesToIs
    <3>3. Times(i, s) = TimesTo(i, s, Len(s))
      BY TimesIsTo
    <3> QED BY <3>2, <3>3
  <2> QED BY <2>3, <2>4
<1>2. \A m \in 0 .. Len(s) : \A i \in Ids : e[i] - TimesTo(i, s, m) \in Nat
  <2> TAKE m \in 0 .. Len(s)
  <2> TAKE i \in Ids
  <2>1. TimesTo(i, s, m) \in Nat /\ TimesTo(i, s, m) <= Times(i, s) /\ Times(i, s) \in Nat /\ e[i] \in Nat
    BY <1>1, TimesIsTo
  <2> QED BY <2>1
<1>3. Rest(e, s, n) \in [Ids -> Nat]
  BY <1>2 DEF Rest
<1>4. ASSUME n > 0 PROVE /\ s[n] \in Ids => Rest(e, s, n - 1)[s[n]] > 0
                         /\ \A i \in Ids : Rest(e, s, n)[i] = Rest(e, s, n - 1)[i] - One(s[n], i)
  <2>1. n - 1 \in Nat /\ n - 1 \in 0 .. Len(s) /\ (n - 1) + 1 = n
    BY <1>4
  <2>2. ASSUME NEW i \in Ids
        PROVE  /\ Rest(e, s, n)[i] = Rest(e, s, n - 1)[i] - One(s[n], i)
               /\ Rest(e, s, n - 1)[i] >= One(s[n], i)
    <3>1. TimesTo(i, s, n) = TimesTo(i, s, n - 1) + One(s[n], i)
      BY <2>1, TimesToIs
    <3>2. TimesTo(i, s, n - 1) \in Nat /\ e[i] \in Nat /\ e[i] - TimesTo(i, s, n) \in Nat
      BY <1>1, <1>2, <2>1
    <3>3. One(s[n], i) \in Nat
      BY DEF One
    <3> QED BY <3>1, <3>2, <3>3 DEF Rest
  <2>3. ASSUME s[n] \in Ids PROVE Rest(e, s, n - 1)[s[n]] > 0
    <3>1. Rest(e, s, n - 1)[s[n]] >= One(s[n], s[n])
      BY <2>2, <2>3
    <3>2. Rest(e, s, n - 1)[s[n]] \in Nat
      BY <1>2, <2>1, <2>3 DEF Rest
    <3> QED BY <3>1, <3>2 DEF One
  <2> QED BY <2>2, <2>3
<1> QED BY <1>3, <1>4 DEF Rest

\* The loop lets go of each of the elements, whose references are in hand.
LEMMA ElementsOwns ==
  ASSUME NEW h, NEW b, NEW e, NEW F, Owns(h, b, e, F), NEW s \in Seq(Vals),
         \A k \in DOMAIN s : TypeOf(h, s[k]) \in NumberTypes \cup {"null"},
         \A i \in Ids : Times(i, s) <= e[i]
  PROVE  /\ Owns(UnrefElements(h, s), b, Rest(e, s, Len(s)), F)
         /\ UnrefElements(h, s).wild = h.wild /\ Same(h, UnrefElements(h, s))
<1>0. Len(s) \in Nat
  OBVIOUS
<1>1. PICK f : /\ f[0] = h /\ f[Len(s)] = UnrefElements(h, s)
               /\ \A n \in 1 .. Len(s) : f[n] = UnrefNumber(f[n - 1], s[n])
  <2>1. \E f : Walked(f, h, s)
    BY <1>0, ElementsWalk
  <2> QED BY <2>1 DEF Walked
<1>e. e \in [Ids -> Nat]
  BY DEF Owns
<1> DEFINE P(n) == Owns(f[n], b, Rest(e, s, n), F) /\ f[n].wild = h.wild /\ Same(h, f[n])
           Bad == {n \in 0 .. Len(s) : ~P(n)}
<1>2. P(0)
  <2>1. Rest(e, s, 0) \in [Ids -> Nat] /\ \A i \in Ids : e[i] = Rest(e, s, 0)[i]
    <3>1. \A i \in Ids : TimesTo(i, s, 0) = 0
      BY TimesToIs
    <3> QED BY <1>e, <3>1 DEF Rest
  <2>2. Owns(h, b, Rest(e, s, 0), F)
    BY <2>1, SameE
  <2> QED BY <1>1, <2>2, SameSelf
<1>3. ASSUME NEW n \in 1 .. Len(s), P(n - 1) PROVE P(n)
  <2> DEFINE g == f[n - 1]
             v == s[n]
             d == Rest(e, s, n - 1)
  <2>0. n \in 0 .. Len(s) /\ n > 0 /\ n \in DOMAIN s /\ f[n] = UnrefNumber(g, v) /\ v \in Vals
    BY <1>1
  <2>1. Owns(g, b, d, F) /\ g.wild = h.wild /\ Same(h, g) /\ Shaped(g)
    BY <1>3 DEF Owns
  <2>2. v \in Ids => d[v] > 0
    BY <1>e, <2>0, RestIs
  <2>3. v \in Ids => Live(g, v)
    <3>1. CASE v \in Ids
      <4>1. /\ b[v] \in Nat /\ d[v] \in Nat /\ Held(g, v) \in Nat
            /\ g.o[v].ref = Held(g, v) + b[v] + d[v] /\ (g.o[v].ref > 0 => Live(g, v))
        BY <2>1, <3>1, OwnsAt
      <4> HIDE DEF g, v, d
      <4> QED BY <2>2, <3>1, <4>1
    <3> QED BY <3>1
  <2>4. TypeOf(g, v) \in NumberTypes \cup {"null"}
    <3>1. TypeOf(g, v) = TypeOf(h, v)
      BY <2>0, <2>1, <2>3, SameType
    <3> QED BY <2>0, <3>1
  <2>5. \A i \in Ids : Rest(e, s, n)[i] = d[i] - One(v, i)
    BY <1>e, <2>0, RestIs
  <2>6. Rest(e, s, n) \in [Ids -> Nat]
    BY <1>e, <2>0, RestIs
  <2> HIDE DEF g, v, d
  <2>7. /\ Owns(UnrefNumber(g, v), b, Minus(d, v), F)
        /\ UnrefNumber(g, v).wild = g.wild /\ Same(g, UnrefNumber(g, v))
    BY <2>1, <2>2, <2>4, UnrefNumberOwns
  <2>8. \A i \in Ids : Minus(d, v)[i] = Rest(e, s, n)[i]
    BY <2>5 DEF Minus
  <2>9. Owns(UnrefNumber(g, v), b, Rest(e, s, n), F)
    BY <2>6, <2>7, <2>8, SameE
  <2> QED BY <2>0, <2>1, <2>7, <2>9, SameThen
<1>4. ASSUME Bad # {} PROVE FALSE
  <2>1. Bad \in SUBSET Nat
    OBVIOUS
  <2> HIDE DEF P
  <2>2. PICK m \in Bad : \A k \in Bad : m <= k
    <3> HIDE DEF Bad
    <3> QED BY <1>4, <2>1, Least
  <2>3. m \in 0 .. Len(s) /\ ~P(m) /\ m # 0
    BY <1>2, <2>2
  <2>4. m \in 1 .. Len(s) /\ m - 1 \in 0 .. Len(s) /\ ~(m <= m - 1)
    BY <2>3
  <2>5. P(m - 1)
    BY <2>2, <2>4
  <2> QED BY <1>3, <2>3, <2>4, <2>5
<1>5. P(Len(s))
  <2>1. Len(s) \in 0 .. Len(s)
    OBVIOUS
  <2> HIDE DEF P
  <2> QED BY <1>4, <2>1
<1> QED BY <1>1, <1>5

-----------------------------------------------------------------------------
\* What is in hand, e, is d and a reference to v, or to each of s.
Gives(e, d, v) == \A i \in Ids : e[i] = d[i] + One(v, i)
GivesAll(e, d, s) == \A i \in Ids : e[i] = d[i] + Times(i, s)

\* Letting go of a reference in hand, to whatever it is.
LEMMA UnrefOwns ==
  ASSUME NEW h, NEW b, NEW e, NEW F, Owns(h, b, e, F), NEW v \in Vals,
         NEW d \in [Ids -> Nat], Gives(e, d, v)
  PROVE  /\ Owns(object_unref(h, v), b, d, F)
         /\ object_unref(h, v).wild = h.wild /\ Same(h, object_unref(h, v))
<1> DEFINE f == object_unref(h, v)
<1>0. h \in Heaps /\ Shaped(h) /\ e \in [Ids -> Nat]
  BY DEF Owns, Shaped
<1>1. CASE v \notin Ids
  <2>1. f = h
    BY <1>1 DEF object_unref
  <2>2. \A i \in Ids : e[i] = d[i]
    BY <1>1 DEF One, Gives
  <2> QED BY <2>1, <2>2, SameE, SameSelf
<1>2. CASE v \in Ids
  <2>1. /\ h.o[v].ref = Held(h, v) + b[v] + e[v] /\ b[v] \in Nat /\ e[v] \in Nat /\ Held(h, v) \in Nat
        /\ (h.o[v].ref > 0 => Live(h, v)) /\ v \in Places /\ (v \in F => h.o[v].ref = 0)
    BY <1>2, OwnsAt
  <2>2. e[v] > 0 /\ e[v] = d[v] + 1
    BY <1>2, <2>1 DEF One, Gives
  <2>3. h.o[v].ref >= 1 /\ Live(h, v) /\ v \notin F /\ h.o[v].ref \in Nat
    BY <2>1, <2>2
  <2> DEFINE g == Less(h, v)
             s == h.o[v].slots
  <2>4. h.o[v].ref - 1 \in Nat
    BY <2>3
  <2>5. g \in Heaps /\ g.o[v].ref = h.o[v].ref - 1 /\ g.o[v].type = h.o[v].type /\ g.o[v].slots = s
    BY <1>0, <2>1, <2>4, SetRefIs DEF Less
  <2>6. Touch(g, v) = g
    BY <2>3, <2>5, TouchIs DEF Live
  <2>7. f = object_free(g, v)
    BY <1>0, <1>2, <2>3, TouchIs DEF object_unref, Less, SetRef
  <2>8. CASE h.o[v].ref > 1
    <3>1. g.o[v].ref > 0
      BY <2>3, <2>5, <2>8
    <3>2. f = g
      BY <2>6, <2>7, <3>1 DEF object_free
    <3>3. Owns(g, b, Minus(e, v), F) /\ g.wild = h.wild /\ Same(h, g)
      BY <1>2, <2>2, <2>8, LessOwns
    <3>4. \A i \in Ids : Minus(e, v)[i] = d[i]
      BY DEF Minus, One, Gives
    <3> QED BY <3>2, <3>3, <3>4, SameE
  <2>9. CASE ~(h.o[v].ref > 1)
    <3>1. h.o[v].ref = 1 /\ h.o[v].ref = e[v] /\ ~(g.o[v].ref > 0) /\ Held(h, v) = 0
      <4> HIDE DEF g
      <4>1. h.o[v].ref = 1
        BY <2>3, <2>9
      <4>2. e[v] > 0 /\ e[v] \in Nat /\ b[v] \in Nat /\ Held(h, v) \in Nat
        BY <2>1, <2>2
      <4>3. Held(h, v) + b[v] + e[v] = 1
        BY <2>1, <4>1
      <4>4. e[v] = 1 /\ Held(h, v) = 0
        BY <4>2, <4>3
      <4> QED BY <2>5, <4>1, <4>4
    <3>2. [g EXCEPT !.o[v] = NoObject] = Gone(h, v)
      BY <1>0, <2>1 DEF Heaps, Gone, SetRef, Less
    <3>3. f = UnrefElements(Gone(h, v), s)
      BY <1>2, <2>5, <2>6, <2>7, <3>1, <3>2 DEF object_free, Slots
    <3> DEFINE k == Gone(h, v)
               c == Freed(e, v, s)
    <3>4. Owns(k, b, c, F \ {v}) /\ k.wild = h.wild /\ Same(h, k) /\ ~Live(k, v)
      <4>1. h.o[v].ref = e[v]
        BY <3>1
      <4> QED BY <1>2, <4>1, LastOwns
    <3>5. F \ {v} = F
      BY <2>3
    <3>6. s \in Seq(Vals) /\ DOMAIN s = 1 .. Len(s)
      BY <1>0, <2>1, HeapIs
    <3>7. \A j \in DOMAIN s : TypeOf(k, s[j]) \in NumberTypes \cup {"null"}
      <4> TAKE j \in DOMAIN s
      <4>1. TypeOf(h, s[j]) \in NumberTypes \cup {"null"} /\ s[j] # v /\ s[j] \in Vals
        BY <1>0, <2>1, <3>1, <3>6, NotHeld DEF Shaped, Fits
      <4>2. k.o[v] = NoObject /\ \A p \in Places : p # v => k.o[p] = h.o[p]
        BY <1>0, <2>1, GoneIs
      <4> HIDE DEF k
      <4> QED BY <4>1, <4>2 DEF TypeOf, Vals
    <3>8. \A i \in Ids : Times(i, s) \in Nat
      BY <3>6, TimesIsTo
    <3>9. \A i \in Ids : c[i] = (IF i = v THEN 0 ELSE e[i]) + Times(i, s)
      BY DEF Freed
    <3> HIDE DEF g, s, k, c
    <3>10. \A i \in Ids : Times(i, s) <= c[i]
      BY <1>0, <3>8, <3>9
    <3>11. Owns(k, b, c, F)
      BY <3>4, <3>5
    <3>12. /\ Owns(UnrefElements(k, s), b, Rest(c, s, Len(s)), F)
           /\ UnrefElements(k, s).wild = k.wild /\ Same(k, UnrefElements(k, s))
      BY <3>6, <3>7, <3>10, <3>11, ElementsOwns
    <3>13. \A i \in Ids : Rest(c, s, Len(s))[i] = d[i]
      <4> TAKE i \in Ids
      <4>1. TimesTo(i, s, Len(s)) = Times(i, s)
        BY <3>6, TimesIsTo
      <4>2. Rest(c, s, Len(s))[i] = c[i] - Times(i, s)
        BY <4>1 DEF Rest
      <4>3. e[i] = d[i] + One(v, i) /\ d[i] \in Nat /\ e[v] = 1
        BY <2>2, <3>1 DEF Gives
      <4>4. CASE i = v
        BY <2>2, <3>1, <3>8, <3>9, <4>2, <4>4
      <4>5. CASE i # v
        BY <3>8, <3>9, <4>2, <4>3, <4>5 DEF One
      <4> QED BY <4>4, <4>5
    <3>14. Owns(UnrefElements(k, s), b, d, F)
      BY <3>12, <3>13, SameE
    <3>15. f = UnrefElements(k, s)
      BY <3>3 DEF k, s
    <3> HIDE DEF f
    <3>16. Owns(f, b, d, F) /\ f.wild = h.wild /\ Same(h, f)
      BY <3>4, <3>12, <3>14, <3>15, SameThen
    <3> QED BY <3>16 DEF f
  <2> QED BY <2>8, <2>9
<1> QED BY <1>1, <1>2

\* Freeing what has no references yet.
LEMMA FreeOwns ==
  ASSUME NEW h, NEW b, NEW e, NEW F, Owns(h, b, e, F), NEW v, v \in Ids => v \in F
  PROVE  /\ Owns(object_free(h, v), b, e, F \ {v})
         /\ object_free(h, v).wild = h.wild /\ Same(h, object_free(h, v))
<1> DEFINE f == object_free(h, v)
<1>0. h \in Heaps /\ Shaped(h) /\ e \in [Ids -> Nat]
  BY DEF Owns, Shaped
<1>1. CASE v \notin Ids
  <2>1. f = h
    BY <1>0, <1>1, TouchIs DEF object_free
  <2>2. Owns(h, b, e, F \ {v})
    BY <1>1, SameF
  <2> QED BY <2>1, <2>2, SameSelf
<1>2. CASE v \in Ids
  <2> DEFINE s == h.o[v].slots
             k == Gone(h, v)
             c == Freed(e, v, s)
  <2>1. /\ h.o[v].ref = Held(h, v) + b[v] + e[v] /\ b[v] \in Nat /\ e[v] \in Nat /\ Held(h, v) \in Nat
        /\ h.o[v].ref = 0 /\ Live(h, v) /\ v \in Places
    BY <1>2, OwnsAt
  <2>2. e[v] = 0 /\ h.o[v].ref = e[v] /\ Held(h, v) = 0 /\ ~(h.o[v].ref > 0)
    BY <2>1
  <2>3. Touch(h, v) = h
    BY <1>0, <2>1, TouchIs
  <2>4. f = UnrefElements(k, s)
    BY <1>2, <2>2, <2>3 DEF object_free, Slots, Gone
  <2>5. Owns(k, b, c, F \ {v}) /\ k.wild = h.wild /\ Same(h, k) /\ ~Live(k, v)
    BY <1>2, <2>2, LastOwns
  <2>6. s \in Seq(Vals) /\ DOMAIN s = 1 .. Len(s)
    BY <1>0, <2>1, HeapIs
  <2>7. \A j \in DOMAIN s : TypeOf(k, s[j]) \in NumberTypes \cup {"null"}
    <3> TAKE j \in DOMAIN s
    <3>1. TypeOf(h, s[j]) \in NumberTypes \cup {"null"} /\ s[j] # v /\ s[j] \in Vals
      BY <1>0, <2>1, <2>2, <2>6, NotHeld DEF Shaped, Fits
    <3>2. k.o[v] = NoObject /\ \A p \in Places : p # v => k.o[p] = h.o[p]
      BY <1>0, <2>1, GoneIs
    <3> HIDE DEF k
    <3> QED BY <3>1, <3>2 DEF TypeOf, Vals
  <2>8. \A i \in Ids : Times(i, s) \in Nat
    BY <2>6, TimesIsTo
  <2>9. \A i \in Ids : c[i] = (IF i = v THEN 0 ELSE e[i]) + Times(i, s)
    BY DEF Freed
  <2> HIDE DEF s, k, c
  <2>10. \A i \in Ids : Times(i, s) <= c[i]
    BY <1>0, <2>8, <2>9
  <2>12. /\ Owns(UnrefElements(k, s), b, Rest(c, s, Len(s)), F \ {v})
         /\ UnrefElements(k, s).wild = k.wild /\ Same(k, UnrefElements(k, s))
    BY <2>5, <2>6, <2>7, <2>10, ElementsOwns
  <2>13. \A i \in Ids : Rest(c, s, Len(s))[i] = e[i]
    <3> TAKE i \in Ids
    <3>1. TimesTo(i, s, Len(s)) = Times(i, s)
      BY <2>6, TimesIsTo
    <3>2. Rest(c, s, Len(s))[i] = c[i] - Times(i, s)
      BY <3>1 DEF Rest
    <3>3. e[i] \in Nat /\ (i = v => e[i] = 0)
      BY <1>0, <2>2
    <3> QED BY <2>8, <2>9, <3>2, <3>3
  <2>14. Owns(UnrefElements(k, s), b, e, F \ {v})
    BY <1>0, <2>12, <2>13, SameE
  <2> HIDE DEF f
  <2>16. Owns(f, b, e, F \ {v}) /\ f.wild = h.wild /\ Same(h, f)
    BY <2>4, <2>5, <2>12, <2>14, SameThen
  <2> QED BY <2>16 DEF f
<1> QED BY <1>1, <1>2

\* The loop over values of any type lets go of each of them.
LEMMA UnrefAllOwns ==
  ASSUME NEW h, NEW b, NEW e, NEW F, Owns(h, b, e, F), NEW s \in Seq(Vals),
         NEW d \in [Ids -> Nat], GivesAll(e, d, s)
  PROVE  /\ Owns(UnrefAll(h, s), b, d, F)
         /\ UnrefAll(h, s).wild = h.wild /\ Same(h, UnrefAll(h, s))
<1>z. Len(s) \in Nat
  OBVIOUS
<1>0. Len(s) \in 0 .. Len(s)
  OBVIOUS
<1>1. PICK f : /\ f[0] = h /\ f[Len(s)] = UnrefAll(h, s)
               /\ \A n \in 1 .. Len(s) : f[n] = object_unref(f[n - 1], s[n])
  BY <1>z, AllWalk
<1>e. e \in [Ids -> Nat] /\ \A i \in Ids : Times(i, s) \in Nat /\ Times(i, s) <= e[i]
  <2>1. e \in [Ids -> Nat]
    BY DEF Owns
  <2>2. \A i \in Ids : Times(i, s) \in Nat
    BY TimesIsTo
  <2> QED BY <2>1, <2>2 DEF GivesAll
<1> DEFINE P(n) == Owns(f[n], b, Rest(e, s, n), F) /\ f[n].wild = h.wild /\ Same(h, f[n])
           Bad == {n \in 0 .. Len(s) : ~P(n)}
<1>2. P(0)
  <2>1. Rest(e, s, 0) \in [Ids -> Nat] /\ \A i \in Ids : e[i] = Rest(e, s, 0)[i]
    <3>1. \A i \in Ids : TimesTo(i, s, 0) = 0
      BY TimesToIs
    <3> QED BY <1>e, <3>1 DEF Rest
  <2>2. Owns(h, b, Rest(e, s, 0), F)
    BY <2>1, SameE
  <2> QED BY <1>1, <2>2, SameSelf
<1>3. ASSUME NEW n \in 1 .. Len(s), P(n - 1) PROVE P(n)
  <2> DEFINE g == f[n - 1]
             v == s[n]
             c == Rest(e, s, n - 1)
             r == Rest(e, s, n)
  <2>0. n \in 0 .. Len(s) /\ n > 0 /\ f[n] = object_unref(g, v) /\ v \in Vals /\ n - 1 \in 0 .. Len(s)
    BY <1>1
  <2>1. Owns(g, b, c, F) /\ g.wild = h.wild /\ Same(h, g)
    BY <1>3
  <2>2. r \in [Ids -> Nat] /\ \A i \in Ids : r[i] = c[i] - One(v, i)
    BY <1>e, <2>0, RestIs
  <2>3. c \in [Ids -> Nat]
    BY <1>e, <2>0, RestIs
  <2> HIDE DEF g, v, c, r
  <2>4. \A i \in Ids : c[i] = r[i] + One(v, i)
    <3> TAKE i \in Ids
    <3>1. c[i] \in Nat /\ r[i] \in Nat /\ One(v, i) \in Nat /\ r[i] = c[i] - One(v, i)
      BY <2>2, <2>3 DEF One
    <3> QED BY <3>1
  <2>5. Owns(object_unref(g, v), b, r, F) /\ object_unref(g, v).wild = g.wild /\ Same(g, object_unref(g, v))
    BY <2>0, <2>1, <2>2, <2>4, UnrefOwns DEF Gives
  <2> QED BY <2>0, <2>1, <2>5, SameThen DEF r
<1>4. ASSUME Bad # {} PROVE FALSE
  <2>1. Bad \in SUBSET Nat
    OBVIOUS
  <2> HIDE DEF P
  <2>2. PICK m \in Bad : \A k \in Bad : m <= k
    <3> HIDE DEF Bad
    <3> QED BY <1>4, <2>1, Least
  <2>3. m \in 0 .. Len(s) /\ ~P(m) /\ m # 0
    BY <1>2, <2>2
  <2>4. m \in 1 .. Len(s) /\ m - 1 \in 0 .. Len(s) /\ ~(m <= m - 1)
    BY <2>3
  <2>5. P(m - 1)
    BY <2>2, <2>4
  <2> QED BY <1>3, <2>3, <2>4, <2>5
<1>5. P(Len(s))
  <2> HIDE DEF P
  <2> QED BY <1>0, <1>4
<1>6. \A i \in Ids : Rest(e, s, Len(s))[i] = d[i]
  <2> TAKE i \in Ids
  <2>1. TimesTo(i, s, Len(s)) = Times(i, s)
    BY TimesIsTo
  <2>2. Rest(e, s, Len(s))[i] = e[i] - Times(i, s) /\ Times(i, s) \in Nat /\ d[i] \in Nat
    BY <1>e, <2>1 DEF Rest
  <2> QED BY <2>2 DEF GivesAll
<1>7. Owns(UnrefAll(h, s), b, d, F)
  BY <1>1, <1>5, <1>6, SameE
<1> QED BY <1>1, <1>5, <1>7

\* A variable's reference comes into the opcode's hand.
Moves(b, e, c, d) == \A i \in Ids : c[i] <= b[i] /\ c[i] + d[i] = b[i] + e[i]

\* It is of no account whether a reference is a variable's or in hand.
LEMMA Resplit ==
  ASSUME NEW h, NEW b, NEW e, NEW F, Owns(h, b, e, F), NEW c \in [Ids -> Nat], NEW d \in [Ids -> Nat],
         Moves(b, e, c, d)
  PROVE  Owns(h, c, d, F)
<1>1. ASSUME NEW i \in Ids
      PROVE  /\ h.o[i].ref = Held(h, i) + c[i] + d[i]
             /\ (i \in F <=> Live(h, i) /\ h.o[i].ref = 0)
             /\ (c[i] > 0 => TypeOf(h, i) = TypeOf(heap, i))
  <2>1. /\ h.o[i].ref = Held(h, i) + b[i] + e[i] /\ (i \in F <=> Live(h, i) /\ h.o[i].ref = 0)
        /\ (b[i] > 0 => TypeOf(h, i) = TypeOf(heap, i)) /\ b[i] \in Nat /\ e[i] \in Nat /\ Held(h, i) \in Nat
    BY OwnsAt
  <2>2. c[i] <= b[i] /\ c[i] + d[i] = b[i] + e[i] /\ c[i] \in Nat /\ d[i] \in Nat
    BY DEF Moves
  <2> QED BY <2>1, <2>2
<1>2. Shaped(h)
  BY DEF Owns
<1> QED BY <1>1, <1>2 DEF Owns

-----------------------------------------------------------------------------
(* What can be used, and what operations make.                              *)

Usable(h, v) == v \in Vals /\ (v \in Ids => Live(h, v))
Like(h, g, v) == TypeOf(g, v) = TypeOf(h, v) /\ (v \in Places => Slots(g, v) = Slots(h, v))
\* Objects have been added, and none has been changed.
Grows(h, g) == \A j \in Places : Live(h, j) => g.o[j] = h.o[j]

\* What can be used after something was let go of could be used before, and is as it was.
LEMMA SameLike ==
  ASSUME NEW h, NEW g, Same(h, g), Shaped(g), NEW v, Usable(g, v)
  PROVE  Like(h, g, v) /\ Usable(h, v)
<1>1. v \in Vals /\ (v \in Ids => Live(g, v))
  BY DEF Usable
<1>2. TypeOf(g, v) = TypeOf(h, v) /\ (v \in Places => g.o[v].slots = h.o[v].slots /\ Live(g, v) /\ Live(h, v))
  BY <1>1, SameType
<1> QED BY <1>1, <1>2 DEF Like, Usable, Slots, Places

LEMMA GrowsLike ==
  ASSUME NEW h, NEW g, Grows(h, g), Shaped(h), NEW v, Usable(h, v)
  PROVE  Like(h, g, v) /\ Usable(g, v)
<1>1. v \in Vals /\ (v \in Ids => Live(h, v))
  BY DEF Usable
<1>2. CASE v \in Consts
  <2>1. v \notin Places
    BY <1>2, Apart DEF Places
  <2> QED BY <1>1, <1>2, <2>1 DEF TypeOf, Like, Usable, Places
<1>3. CASE v \in Places
  <2>1. Live(h, v)
    BY <1>1, <1>3, TypesApart DEF Places, Shaped, Live
  <2>2. g.o[v] = h.o[v]
    BY <1>3, <2>1 DEF Grows
  <2> QED BY <1>1, <1>3, <2>1, <2>2, TypeOfId DEF Like, Usable, Slots, Live
<1> QED BY <1>1, <1>2, <1>3 DEF Vals

LEMMA GrowsSelf == ASSUME NEW h PROVE Grows(h, h)
BY DEF Grows

LEMMA LikeThen == ASSUME NEW h, NEW g, NEW k, NEW v, Like(h, g, v), Like(g, k, v) PROVE Like(h, k, v)
BY DEF Like

\* A value in hand, held by a variable or new can be used; so can the elements of what can.
LEMMA HandUsable ==
  ASSUME NEW h, NEW b, NEW e, NEW F, Owns(h, b, e, F), NEW v \in Vals,
         v \in Ids => e[v] > 0 \/ b[v] > 0 \/ v \in F
  PROVE  Usable(h, v)
<1>1. CASE v \in Ids
  <2>1. /\ b[v] \in Nat /\ e[v] \in Nat /\ Held(h, v) \in Nat
        /\ h.o[v].ref = Held(h, v) + b[v] + e[v] /\ (v \in F => Live(h, v))
        /\ (h.o[v].ref > 0 => Live(h, v))
    BY <1>1, OwnsAt
  <2> QED BY <1>1, <2>1 DEF Usable
<1> QED BY <1>1 DEF Usable

LEMMA GivesUsable ==
  ASSUME NEW h, NEW b, NEW e, NEW F, Owns(h, b, e, F), NEW v \in Vals, NEW d \in [Ids -> Nat], Gives(e, d, v)
  PROVE  Usable(h, v)
<1>1. v \in Ids => e[v] > 0
  BY DEF Gives, One
<1> QED BY <1>1, HandUsable

LEMMA SlotUsable ==
  ASSUME NEW h, NEW b, NEW e, NEW F, Owns(h, b, e, F), NEW a \in Places, NEW k \in DOMAIN Slots(h, a)
  PROVE  /\ Usable(h, Slots(h, a)[k]) /\ TypeOf(h, Slots(h, a)[k]) \in NumberTypes \cup {"null"}
         /\ Slots(h, a) \in Seq(Vals) /\ DOMAIN Slots(h, a) = 1 .. Len(Slots(h, a))
<1>1. Shaped(h) /\ h \in Heaps
  BY DEF Owns, Shaped
<1>2. Slots(h, a) = h.o[a].slots
  BY DEF Slots
<1>3. /\ Slots(h, a) \in Seq(Vals) /\ DOMAIN Slots(h, a) = 1 .. Len(Slots(h, a)) /\ Slots(h, a)[k] \in Vals
  BY <1>1, <1>2, HeapIs
<1>4. TypeOf(h, Slots(h, a)[k]) \in NumberTypes \cup {"null"}
  BY <1>1, <1>2 DEF Shaped, Fits
<1>5. ASSUME Slots(h, a)[k] \in Ids PROVE Live(h, Slots(h, a)[k])
  <2>1. TypeOf(h, Slots(h, a)[k]) = h.o[Slots(h, a)[k]].type
    BY <1>5, TypeOfId DEF Places
  <2>2. "none" \notin NumberTypes \cup {"null"}
    BY DEF NumberTypes
  <2> QED BY <1>4, <2>1, <2>2 DEF Live
<1> QED BY <1>3, <1>4, <1>5 DEF Usable

\* What has a type can be used.
LEMMA NumberUsable ==
  ASSUME NEW h \in Heaps, NEW v \in Vals, TypeOf(h, v) # "none"
  PROVE  Usable(h, v)
BY TypeOfId DEF Usable, Live, Places

\* One more reference, which is in hand, and the same objects.
Referred(h, g, b, d, F) ==
  /\ Owns(g, b, d, F) /\ g.wild = h.wild /\ Same(h, g)
  /\ \A j \in Places : g.o[j].type = h.o[j].type /\ g.o[j].slots = h.o[j].slots

\* object_ref on what can be used.
LEMMA AddRef ==
  ASSUME NEW h, NEW b, NEW e, NEW F, Owns(h, b, e, F), NEW v, Usable(h, v),
         NEW d \in [Ids -> Nat], Gives(d, e, v)
  PROVE  Referred(h, object_ref(h, v), b, d, F \ {v})
<1> DEFINE g == object_ref(h, v)
<1>0. e \in [Ids -> Nat]
  BY DEF Owns
<1>1. /\ Owns(g, b, Plus(e, v), F \ {v}) /\ g.wild = h.wild
      /\ \A j \in Places : g.o[j].type = h.o[j].type /\ g.o[j].slots = h.o[j].slots
  BY RefOwns DEF Usable
<1> HIDE DEF g
<1>2. \A i \in Ids : Plus(e, v)[i] = d[i]
  BY <1>0, PlusIs DEF Gives
<1>3. Owns(g, b, d, F \ {v})
  BY <1>1, <1>2, SameE
<1> QED BY <1>1, <1>3 DEF g, Same, Referred

\* An object of type t may have the elements or members s.
FitsAs(h, t, s) == Fits(h, [type |-> t, ref |-> 0, slots |-> s])

\* Other elements or members.
Swaps(e, old, d, new) == \A i \in Ids : e[i] + Times(i, old) = d[i] + Times(i, new)

\* Elements replaced, their references exchanged with the hand.
LEMMA PutSlots ==
  ASSUME NEW h, NEW b, NEW e, NEW F, Owns(h, b, e, F), NEW a \in Places, Live(h, a), NEW s \in Seq(Vals),
         FitsAs(h, h.o[a].type, s),
         NEW d \in [Ids -> Nat], Swaps(e, Slots(h, a), d, s)
  PROVE  /\ Owns(SetSlots(h, a, s), b, d, F) /\ SetSlots(h, a, s).wild = h.wild
         /\ Slots(SetSlots(h, a, s), a) = s
         /\ \A j \in Places : /\ SetSlots(h, a, s).o[j].type = h.o[j].type
                              /\ SetSlots(h, a, s).o[j].ref = h.o[j].ref
                              /\ j # a => SetSlots(h, a, s).o[j] = h.o[j]
<1> DEFINE g == SetSlots(h, a, s)
<1>0. h \in Heaps /\ Shaped(h) /\ e \in [Ids -> Nat] /\ b \in [Ids -> Nat]
  BY DEF Owns, Shaped
<1>1. /\ g \in Heaps /\ g.wild = h.wild /\ g.o[a].slots = s
      /\ \A j \in Places : /\ g.o[j].type = h.o[j].type /\ g.o[j].ref = h.o[j].ref
                           /\ j # a => g.o[j] = h.o[j]
  BY <1>0, SetSlotsIs
<1> HIDE DEF g
<1>2. \A v \in Vals : TypeOf(g, v) = TypeOf(h, v)
  BY <1>1 DEF Vals, TypeOf
<1>3. ASSUME NEW j \in Places PROVE Fits(g, g.o[j]) /\ (~Live(g, j) => g.o[j] = NoObject)
  <2>1. CASE j = a
    <3>1. Fits(g, g.o[j])
      <4> DEFINE x == [type |-> h.o[a].type, ref |-> 0, slots |-> s]
      <4>1. g.o[a].type = x.type /\ x.slots = s /\ g.o[a].slots = s /\ Fits(h, x)
        BY <1>1 DEF FitsAs
      <4> HIDE DEF x
      <4>2. \A k \in DOMAIN s : s[k] \in Vals
        OBVIOUS
      <4>3. x.type = "struct" => 1 \in DOMAIN s
        BY <4>1 DEF Fits
      <4> QED BY <1>2, <2>1, <4>1, <4>2, <4>3 DEF Fits
    <3>2. Live(g, j)
      BY <1>1, <2>1 DEF Live
    <3> QED BY <3>1, <3>2
  <2>2. CASE j # a
    <3>1. g.o[j] = h.o[j] /\ Fits(h, h.o[j]) /\ (~Live(h, j) => h.o[j] = NoObject)
      BY <1>0, <1>1, <2>2 DEF Shaped
    <3>2. \A k \in DOMAIN h.o[j].slots : h.o[j].slots[k] \in Vals
      BY <1>0, HeapIs
    <3>3. h.o[j].type = "struct" => 1 \in DOMAIN h.o[j].slots
      BY <1>0, <3>1, HeapIs DEF Fits
    <3> QED BY <1>2, <3>1, <3>2, <3>3 DEF Fits, Live
  <2> QED BY <2>1, <2>2
<1>4. Shaped(g)
  BY <1>0, <1>1, <1>3 DEF Shaped, Places
<1>5. Slots(h, a) \in Seq(Vals) /\ Slots(g, a) = s
  BY <1>0, <1>1, HeapIs DEF Slots
<1>6. ASSUME NEW i \in Ids
      PROVE  /\ g.o[i].ref = Held(g, i) + b[i] + d[i]
             /\ (i \in F <=> Live(g, i) /\ g.o[i].ref = 0)
             /\ (b[i] > 0 => TypeOf(g, i) = TypeOf(heap, i))
  <2>1. /\ h.o[i].ref = Held(h, i) + b[i] + e[i] /\ (i \in F <=> Live(h, i) /\ h.o[i].ref = 0)
        /\ (b[i] > 0 => TypeOf(h, i) = TypeOf(heap, i)) /\ i \in Places
        /\ b[i] \in Nat /\ e[i] \in Nat /\ Held(h, i) \in Nat
    BY OwnsAt
  <2>2. Held(h, i) = HeldBut(h, i, a) + Times(i, Slots(h, a)) /\ HeldBut(h, i, a) \in Nat
        /\ Times(i, Slots(h, a)) \in Nat
    BY <1>0, HeldType
  <2>3. /\ Held(g, i) = HeldBut(g, i, a) + Times(i, s) /\ Times(i, s) \in Nat
        /\ Held(g, i) \in Nat /\ HeldBut(g, i, a) \in Nat
    BY <1>4, <1>5, HeldType
  <2>4. HeldBut(g, i, a) = HeldBut(h, i, a)
    BY <1>1, HeldButSame DEF Slots
  <2>5. e[i] + Times(i, Slots(h, a)) = d[i] + Times(i, s) /\ d[i] \in Nat
    BY DEF Swaps
  <2>6. g.o[i].ref = h.o[i].ref /\ TypeOf(g, i) = TypeOf(h, i) /\ (Live(g, i) <=> Live(h, i))
    BY <1>1, <2>1, TypeOfId DEF Live
  <2>7. g.o[i].ref = Held(g, i) + b[i] + d[i]
    <3> DEFINE x == Held(h, i)
               y == Held(g, i)
               z == HeldBut(h, i, a)
               p == Times(i, Slots(h, a))
               q == Times(i, s)
               m == e[i]
               n == d[i]
               k == b[i]
    <3>1. /\ x \in Nat /\ y \in Nat /\ z \in Nat /\ p \in Nat /\ q \in Nat /\ m \in Nat /\ n \in Nat /\ k \in Nat
          /\ x = z + p /\ y = z + q /\ m + p = n + q
      BY <2>1, <2>2, <2>3, <2>4, <2>5
    <3>2. g.o[i].ref = x + k + m
      BY <2>1, <2>6
    <3>3. x + k + m = y + k + n
      <4> HIDE DEF x, y, z, p, q, m, n, k
      <4> QED BY <3>1
    <3> QED BY <3>2, <3>3
  <2> QED BY <2>1, <2>6, <2>7
<1>7. Owns(g, b, d, F)
  BY <1>0, <1>4, <1>6 DEF Owns
<1> QED BY <1>1, <1>5, <1>7 DEF g

\* A new object of type t, which nothing counts yet.
Newly(h, b, d, F, r, t) ==
  /\ Owns(r.h, b, d, F \cup {r.v}) /\ r.h.wild = h.wild /\ Grows(h, r.h)
  /\ r.v \in Ids /\ ~Live(h, r.v) /\ TypeOf(r.h, r.v) = t

\* A new object takes the references of its elements from the hand.
LEMMA NewOwns ==
  ASSUME NEW h, NEW b, NEW e, NEW F, Owns(h, b, e, F), NEW t \in Types, NEW s \in Seq(Vals),
         FitsAs(h, t, s),
         NEW d \in [Ids -> Nat], GivesAll(e, d, s), NEW r \in New(h, t, s)
  PROVE  Newly(h, b, d, F, r, t)
<1> DEFINE v == r.v
           g == r.h
           x == [type |-> t, ref |-> 0, slots |-> s]
<1>0. h \in Heaps /\ Shaped(h) /\ e \in [Ids -> Nat] /\ b \in [Ids -> Nat] /\ x \in Objects
  BY DEF Owns, Shaped, Objects
<1>1. v \in Ids /\ ~Live(h, v) /\ g = [h EXCEPT !.o[v] = x] /\ v \in Places
  BY DEF New, Got, FreeIds, Places
<1>2. /\ g \in Heaps /\ g.wild = h.wild /\ g.o[v] = x /\ \A j \in Places : j # v => g.o[j] = h.o[j]
  BY <1>0, <1>1, SetIs
<1>3. x.type = t /\ x.ref = 0 /\ x.slots = s /\ Fits(h, x)
  BY DEF FitsAs
<1>4. t # "none"
  BY TypesApart
<1>5. h.o[v] = NoObject /\ Slots(h, v) = <<>> /\ h.o[v].ref = 0
  BY <1>0, <1>1 DEF Shaped, NoObject, Slots
<1> HIDE DEF x, g, v
<1>6. Held(h, v) = 0 /\ b[v] = 0 /\ e[v] = 0
  <2>1. h.o[v].ref = Held(h, v) + b[v] + e[v] /\ b[v] \in Nat /\ e[v] \in Nat /\ Held(h, v) \in Nat
    BY <1>1, OwnsAt
  <2> QED BY <1>5, <2>1
<1>7. \A i \in Ids : Times(i, s) \in Nat /\ e[i] = d[i] + Times(i, s) /\ d[i] \in Nat
  BY TimesIsTo DEF GivesAll
<1>8. \A k \in DOMAIN s : s[k] \in Vals /\ s[k] # v
  <2>1. Times(v, s) = 0
    BY <1>1, <1>6, <1>7
  <2>2. ASSUME NEW k \in DOMAIN s, s[k] = v PROVE FALSE
    <3>1. {j \in DOMAIN s : s[j] = v} # {} /\ {j \in DOMAIN s : s[j] = v} \in SUBSET (1 .. Len(s))
      BY <2>2
    <3>2. IsFiniteSet({j \in DOMAIN s : s[j] = v})
      BY <3>1, FiniteUpTo, Len(s) \in Nat
    <3> QED BY <2>1, <3>1, <3>2, FS_EmptySet DEF Times
  <2> QED BY <2>2
<1>9. \A u \in Vals : u # v => TypeOf(g, u) = TypeOf(h, u)
  BY <1>2 DEF Vals, TypeOf
<1>10. ASSUME NEW j \in Places PROVE Fits(g, g.o[j]) /\ (~Live(g, j) => g.o[j] = NoObject)
  <2>1. CASE j = v
    <3>1. x.type = "struct" => 1 \in DOMAIN s
      BY <1>3 DEF Fits
    <3>2. Fits(g, x)
      BY <1>3, <1>8, <1>9, <3>1 DEF Fits
    <3> QED BY <1>2, <1>3, <1>4, <2>1, <3>2 DEF Live
  <2>2. CASE j # v
    <3>1. g.o[j] = h.o[j] /\ Fits(h, h.o[j]) /\ (~Live(h, j) => h.o[j] = NoObject)
      BY <1>0, <1>2, <2>2 DEF Shaped
    <3>2. \A k \in DOMAIN h.o[j].slots : h.o[j].slots[k] \in Vals /\ h.o[j].slots[k] # v
      BY <1>0, <1>6, HeapIs, NotHeld
    <3>3. h.o[j].type = "struct" => 1 \in DOMAIN h.o[j].slots
      BY <1>0, <3>1, HeapIs DEF Fits
    <3> QED BY <1>9, <3>1, <3>2, <3>3 DEF Fits, Live
  <2> QED BY <2>1, <2>2
<1>11. Shaped(g)
  <2>1. g.o[Literal].type = "vec"
    BY <1>0, <1>1, <1>2, Apart DEF Shaped, Places
  <2> QED BY <1>2, <1>10, <2>1 DEF Shaped
<1>12. ASSUME NEW i \in Ids
      PROVE  /\ g.o[i].ref = Held(g, i) + b[i] + d[i]
             /\ (i \in F \cup {v} <=> Live(g, i) /\ g.o[i].ref = 0)
             /\ (b[i] > 0 => TypeOf(g, i) = TypeOf(heap, i))
  <2>1. /\ h.o[i].ref = Held(h, i) + b[i] + e[i] /\ (i \in F <=> Live(h, i) /\ h.o[i].ref = 0)
        /\ (b[i] > 0 => TypeOf(h, i) = TypeOf(heap, i)) /\ i \in Places
        /\ b[i] \in Nat /\ e[i] \in Nat /\ Held(h, i) \in Nat
    BY OwnsAt
  <2>2. Held(h, i) = HeldBut(h, i, v) + Times(i, <<>>) /\ HeldBut(h, i, v) \in Nat
    BY <1>0, <1>1, <1>5, HeldType
  <2>3. Held(g, i) = HeldBut(g, i, v) + Times(i, s)
    <3>1. Slots(g, v) = s
      BY <1>2, <1>3 DEF Slots
    <3> QED BY <1>1, <1>11, <3>1, HeldType
  <2>4. HeldBut(g, i, v) = HeldBut(h, i, v)
    BY <1>2, HeldButSame DEF Slots
  <2>5. Times(i, <<>>) = 0
    BY TimesShort
  <2>6. e[i] = d[i] + Times(i, s) /\ d[i] \in Nat /\ Times(i, s) \in Nat
    BY <1>7
  <2>7. Held(g, i) + b[i] + d[i] = h.o[i].ref
    BY <2>1, <2>2, <2>3, <2>4, <2>5, <2>6
  <2>8. CASE i = v
    BY <1>1, <1>2, <1>3, <1>4, <1>5, <1>6, <2>7, <2>8 DEF Live
  <2>9. CASE i # v
    <3>1. g.o[i] = h.o[i] /\ TypeOf(g, i) = TypeOf(h, i) /\ (Live(g, i) <=> Live(h, i))
      BY <1>2, <2>1, <2>9, TypeOfId DEF Live
    <3> QED BY <2>1, <2>7, <2>9, <3>1
  <2> QED BY <2>8, <2>9
<1>13. Owns(g, b, d, F \cup {v})
  BY <1>0, <1>11, <1>12 DEF Owns
<1>14. Grows(h, g) /\ TypeOf(g, v) = t
  BY <1>1, <1>2, <1>3, TypeOfId DEF Grows
<1> QED BY <1>1, <1>2, <1>13, <1>14 DEF g, v, Newly

-----------------------------------------------------------------------------
\* A number that nothing counts yet, or NULL.
Made(h, b, e, F, r) ==
  /\ Owns(r.h, b, e, F \cup {r.v}) /\ r.h.wild = h.wild /\ Grows(h, r.h)
  /\ r.v # NULL => Usable(r.h, r.v) /\ TypeOf(r.h, r.v) \in NumberTypes
  /\ r.v \in Ids => ~Live(h, r.v)

\* An operation that fails makes nothing, and one that makes a number makes one of its type.
LEMMA NothingMade ==
  ASSUME NEW h, NEW b, NEW e, NEW F, Owns(h, b, e, F), NEW r, r = Got(h, NULL)
  PROVE  Made(h, b, e, F, r)
<1>1. r.h = h /\ r.v = NULL
  BY DEF Got
<1>2. NULL \notin Ids
  BY Apart DEF Vals, Places
<1>3. Owns(h, b, e, F \cup {NULL})
  BY <1>2, SameF
<1> QED BY <1>1, <1>2, <1>3, GrowsSelf DEF Made

LEMMA NumberMade ==
  ASSUME NEW h, NEW b, NEW e, NEW F, Owns(h, b, e, F), NEW t \in NumberTypes, NEW r \in Number(h, t)
  PROVE  Made(h, b, e, F, r) /\ r.v # NULL /\ TypeOf(r.h, r.v) = t
<1>1. CASE r \in New(h, t, <<>>)
  <2>1. t \in Types /\ <<>> \in Seq(Vals) /\ t # "struct"
    BY DEF NumberTypes, Types
  <2>2. FitsAs(h, t, <<>>)
    BY <2>1, RefsAssumption DEF Fits, FitsAs
  <2>3. e \in [Ids -> Nat] /\ GivesAll(e, e, <<>>)
    <3>1. e \in [Ids -> Nat]
      BY DEF Owns
    <3>2. \A i \in Ids : Times(i, <<>>) = 0
      BY TimesShort
    <3> QED BY <3>1, <3>2 DEF GivesAll
  <2>4. /\ Owns(r.h, b, e, F \cup {r.v}) /\ r.h.wild = h.wild /\ Grows(h, r.h)
        /\ r.v \in Ids /\ ~Live(h, r.v) /\ TypeOf(r.h, r.v) = t
    <3>1. Newly(h, b, e, F, r, t)
      BY <1>1, <2>1, <2>2, <2>3, NewOwns
    <3> QED BY <3>1 DEF Newly
  <2>5. r.v \in Vals /\ r.v # NULL
    BY <2>4, Apart DEF Vals, Places
  <2>6. Usable(r.h, r.v)
    BY <2>4, <2>5, HandUsable
  <2> QED BY <2>4, <2>5, <2>6 DEF Made
<1>2. CASE ~(r \in New(h, t, <<>>))
  <2>1. t = "int" /\ r.h = h /\ r.v = "small"
    BY <1>2 DEF Number, Got
  <2>2. "small" \in Vals /\ "small" \notin Ids /\ TypeOf(h, "small") = "int" /\ "small" # NULL
    BY ConstsAre, Apart DEF Vals, TypeOf, NULL
  <2>3. Owns(h, b, e, F \cup {"small"})
    BY <2>2, SameF
  <2> QED BY <2>1, <2>2, <2>3, GrowsSelf DEF Made, Usable
<1> QED BY <1>1, <1>2

\* Using what can be used does not mark the heap.
LEMMA UsableTouch ==
  ASSUME NEW h, NEW b, NEW e, NEW F, Owns(h, b, e, F), NEW v, Usable(h, v)
  PROVE  Touch(h, v) = h
BY TouchIs DEF Owns, Shaped, Usable

\* A conversion makes a number of the type, or fails.
LEMMA CastMade ==
  ASSUME NEW h, NEW b, NEW e, NEW F, Owns(h, b, e, F), NEW v, Usable(h, v),
         NEW t, NEW r \in object_cast(h, v, t)
  PROVE  Made(h, b, e, F, r) /\ (r.v # NULL => t \in NumberTypes /\ TypeOf(r.h, r.v) = t)
<1>1. Touch(h, v) = h
  BY UsableTouch
<1>2. CASE IsNumber(h, v) /\ t \in NumberTypes
  <2>1. r \in Number(h, t)
    BY <1>1, <1>2 DEF object_cast
  <2> QED BY <1>2, <2>1, NumberMade
<1>3. CASE ~(IsNumber(h, v) /\ t \in NumberTypes)
  <2>1. r = Got(h, NULL)
    BY <1>1, <1>3 DEF object_cast, Nothing
  <2>2. r.v = NULL
    BY <2>1 DEF Got
  <2> QED BY <2>1, <2>2, NothingMade
<1> QED BY <1>2, <1>3

\* The type of a sum is a number type.
LEMMA HigherIs == \A t, u \in NumberTypes : Higher(t, u) \in NumberTypes
<1> SUFFICES ASSUME NEW t \in NumberTypes, NEW u \in NumberTypes PROVE Higher(t, u) \in NumberTypes
  OBVIOUS
<1> DEFINE P(x) == \E i \in 1 .. 3 : Ranked[i] = x /\ \A j \in i + 1 .. 3 : Ranked[j] \notin {t, u}
<1>1. Ranked[1] = "short" /\ Ranked[2] = "int" /\ Ranked[3] = "double"
  BY DEF Ranked
<1>2. \E x \in {t, u} : P(x)
  <2>1. CASE "double" \in {t, u}
    <3>1. Ranked[3] = "double" /\ \A j \in 3 + 1 .. 3 : Ranked[j] \notin {t, u}
      BY <1>1
    <3> QED BY <2>1, <3>1
  <2>2. CASE "double" \notin {t, u} /\ "int" \in {t, u}
    <3>1. Ranked[2] = "int" /\ \A j \in 2 + 1 .. 3 : Ranked[j] \notin {t, u}
      BY <1>1, <2>2
    <3> QED BY <2>2, <3>1
  <2>3. CASE "double" \notin {t, u} /\ "int" \notin {t, u}
    <3>1. Ranked[1] = "short" /\ \A j \in 1 + 1 .. 3 : Ranked[j] \notin {t, u}
      BY <1>1, <2>3
    <3>2. "short" \in {t, u}
      BY <2>3 DEF NumberTypes
    <3> QED BY <3>1, <3>2
  <2> QED BY <2>1, <2>2, <2>3
<1> HIDE DEF P
<1>3. (CHOOSE x \in {t, u} : P(x)) \in {t, u}
  BY <1>2
<1> QED BY <1>3 DEF Higher, P

\* What increments makes a number of a number, or fails.
LEMMA PlusOneMade ==
  ASSUME NEW h, NEW b, NEW e, NEW F, Owns(h, b, e, F), NEW v, Usable(h, v), NEW r \in PlusOne(h, v)
  PROVE  Made(h, b, e, F, r) /\ (r.v # NULL => IsNumber(h, v))
<1>1. Touch(h, v) = h
  BY UsableTouch
<1>2. CASE IsNumber(h, v)
  <2>1. r \in Number(h, Higher(TypeOf(h, v), "int")) /\ Higher(TypeOf(h, v), "int") \in NumberTypes
    BY <1>1, <1>2, HigherIs DEF PlusOne, IsNumber, NumberTypes
  <2> QED BY <1>2, <2>1, NumberMade
<1>3. CASE ~IsNumber(h, v)
  <2>1. r = Got(h, NULL)
    BY <1>1, <1>3 DEF PlusOne, Nothing
  <2>2. r.v = NULL
    BY <2>1 DEF Got
  <2> QED BY <2>1, <2>2, NothingMade
<1> QED BY <1>2, <1>3

\* Using what is gone only marks the heap.
LEMMA OwnsTouch ==
  ASSUME NEW h, NEW b, NEW e, NEW F, Owns(h, b, e, F), NEW v
  PROVE  Owns(Touch(h, v), b, e, F) /\ Same(h, Touch(h, v)) /\ Grows(h, Touch(h, v)) /\ (h.wild => Touch(h, v).wild)
<1>0. h \in Heaps /\ Shaped(h)
  BY DEF Owns, Shaped
<1> DEFINE g == Touch(h, v)
<1>1. g \in Heaps /\ g.o = h.o /\ (h.wild => g.wild)
  BY <1>0, TouchIs
<1> HIDE DEF g
<1>2. \A j, x : /\ TypeOf(g, j) = TypeOf(h, j) /\ Slots(g, j) = Slots(h, j) /\ (Live(g, j) <=> Live(h, j))
                /\ (Fits(g, x) <=> Fits(h, x))
  BY <1>1 DEF TypeOf, Slots, Live, Fits
<1>3. Shaped(g)
  BY <1>0, <1>1, <1>2 DEF Shaped
<1>4. \A i \in Ids : Held(g, i) = Held(h, i)
  BY <1>2, HeldSame
<1>5. Owns(g, b, e, F)
  BY <1>1, <1>2, <1>3, <1>4 DEF Owns
<1>6. Same(h, g) /\ Grows(h, g)
  BY <1>1 DEF Same, Grows
<1> QED BY <1>1, <1>5, <1>6 DEF g

\* A freed operand gives NULL.
LEMMA CalculatedMade ==
  ASSUME NEW h, NEW b, NEW e, NEW F, Owns(h, b, e, F), NEW v \in Vals, NEW w, Usable(h, w), NEW r \in Calculated(h, v, w)
  PROVE  /\ Usable(h, v) => Made(h, b, e, F, r)
         /\ r.v # NULL => Usable(h, v) /\ IsNumber(h, v)
         /\ r.v = NULL => Owns(r.h, b, e, F) /\ (h.wild => r.h.wild)
<1>0. h \in Heaps
  BY DEF Owns, Shaped
<1> DEFINE g == Touch(Touch(h, v), w)
<1>1. CASE Usable(h, v)
  <2>1. g = h
    BY <1>1, UsableTouch
  <2>2. CASE r = Got(h, NULL)
    <3>1. r.h = h /\ r.v = NULL
      BY <2>2 DEF Got
    <3> QED BY <2>2, <3>1, NothingMade
  <2>3. CASE r # Got(h, NULL)
    <3>1. IsNumber(h, v) /\ IsNumber(h, w) /\ r \in Number(h, Higher(TypeOf(h, v), TypeOf(h, w)))
      BY <2>1, <2>3 DEF Calculated, Nothing
    <3>2. Higher(TypeOf(h, v), TypeOf(h, w)) \in NumberTypes
      BY <3>1, HigherIs DEF IsNumber
    <3>3. Made(h, b, e, F, r) /\ r.v # NULL
      BY <3>1, <3>2, NumberMade
    <3> QED BY <1>1, <3>1, <3>3
  <2> QED BY <2>2, <2>3
<1>2. CASE ~Usable(h, v)
  <2>1. TypeOf(h, v) = "none"
    BY <1>2, TypeOfId DEF Usable, Live, Places
  <2>2. ~IsNumber(h, v)
    BY <2>1 DEF IsNumber, NumberTypes
  <2>3. r.v = NULL /\ r.h = g
    BY <2>2 DEF Calculated, Nothing, Got
  <2>4. Owns(Touch(h, v), b, e, F) /\ (h.wild => Touch(h, v).wild)
    BY OwnsTouch
  <2>5. Owns(g, b, e, F) /\ (Touch(h, v).wild => g.wild)
    BY <2>4, OwnsTouch
  <2> QED BY <1>2, <2>3, <2>4, <2>5
<1> QED BY <1>1, <1>2

\* A value without an initial one: a number, or an empty container.
LEMMA DefaultOwns ==
  ASSUME NEW h, NEW b, NEW e, NEW F, Owns(h, b, e, F), NEW t \in Types, NEW r \in object_get_default(h, t)
  PROVE  /\ Owns(r.h, b, e, F \cup {r.v}) /\ r.h.wild = h.wild /\ Grows(h, r.h)
         /\ r.v # NULL => Usable(r.h, r.v) /\ TypeOf(r.h, r.v) = t
         /\ r.v \in Ids => ~Live(h, r.v)
<1>0. e \in [Ids -> Nat]
  BY DEF Owns
<1>1. CASE t = "short"
  <2>1. r = Got(h, NULL)
    BY <1>1 DEF object_get_default, Nothing
  <2>2. r.v = NULL
    BY <2>1 DEF Got
  <2> QED BY <2>1, <2>2, NothingMade DEF Made
<1>2. CASE t = "int" \/ t = "double"
  <2>1. r \in Number(h, t) /\ t \in NumberTypes
    BY <1>2 DEF object_get_default, Number, NumberTypes
  <2> QED BY <2>1, NumberMade DEF Made
<1>3. CASE t \notin NumberTypes
  <2> DEFINE s == IF t = "struct" THEN <<"small", "null">> ELSE <<>>
  <2>1. r \in New(h, t, s)
    BY <1>3 DEF object_get_default, NumberTypes
  <2>2. "small" \in Vals /\ "null" \in Vals /\ TypeOf(h, "small") = "int" /\ TypeOf(h, "null") = "null"
        /\ \A i \in Ids : i # "small" /\ i # "null"
    BY ConstsAre, Apart DEF Vals, TypeOf
  <2>3. s \in Seq(Vals)
    BY <2>2
  <2>4. FitsAs(h, t, s)
    <3>1. CASE t = "struct"
      <4>1. Len(s) = 2 /\ s[1] = "small" /\ s[2] = "null" /\ DOMAIN s = {1, 2} /\ 2 <= MaxLen + 2
        BY <3>1, RefsAssumption
      <4>2. "int" \in NumberTypes /\ "struct" \notin NumberTypes
        BY DEF NumberTypes
      <4> HIDE DEF s
      <4> QED BY <2>2, <3>1, <4>1, <4>2 DEF Fits, FitsAs
    <3>2. CASE t # "struct"
      <4>1. s = <<>> /\ Len(s) = 0 /\ DOMAIN s = {} /\ 0 <= MaxLen + 2
        BY <3>2, RefsAssumption
      <4> HIDE DEF s
      <4> QED BY <3>2, <4>1 DEF Fits, FitsAs
    <3> QED BY <3>1, <3>2
  <2>5. GivesAll(e, e, s)
    <3>1. \A i \in Ids : Times(i, s) = 0
      <4> TAKE i \in Ids
      <4>1. Times(i, <<>>) = 0 /\ Times(i, <<"small", "null">>) = One("small", i) + One("null", i)
        BY <2>2, TimesShort
      <4> QED BY <2>2, <4>1 DEF One
    <3> QED BY <1>0, <3>1 DEF GivesAll
  <2> HIDE DEF s
  <2>6. /\ Owns(r.h, b, e, F \cup {r.v}) /\ r.h.wild = h.wild /\ Grows(h, r.h)
        /\ r.v \in Ids /\ ~Live(h, r.v) /\ TypeOf(r.h, r.v) = t
    <3>1. Newly(h, b, e, F, r, t)
      BY <1>0, <2>1, <2>3, <2>4, <2>5, NewOwns
    <3> QED BY <3>1 DEF Newly
  <2>7. r.v \in Vals
    BY <2>6 DEF Vals, Places
  <2>8. Usable(r.h, r.v)
    BY <2>6, <2>7, HandUsable
  <2> QED BY <2>6, <2>8
<1> QED BY <1>1, <1>2, <1>3 DEF NumberTypes

-----------------------------------------------------------------------------
(* Storing in a container.                                                  *)

Typed(h, g) == \A j \in Places : Live(g, j) => g.o[j].type = h.o[j].type
HasElement(h, a, c) == \E k \in DOMAIN Slots(h, a) : Slots(h, a)[k] = c

\* Typed is transitive, and Same heaps are Typed.
LEMMA TypedThen == ASSUME NEW h, NEW g, NEW k, Typed(h, g), Typed(g, k) PROVE Typed(h, k)
BY DEF Typed, Live

LEMMA SameTyped == ASSUME NEW h, NEW g, Same(h, g) PROVE Typed(h, g)
BY DEF Same, Typed

\* A place that can be used is live.
LEMMA UsablePlace ==
  ASSUME NEW h, Shaped(h), NEW a \in Places, Usable(h, a)
  PROVE  Live(h, a)
BY TypesApart DEF Usable, Places, Shaped, Live

\* Counting a value and storing it come to the same in either order.
LEMMA RefThenSet ==
  ASSUME NEW h \in Heaps, NEW a \in Places, NEW s \in Seq(Vals), NEW c, Usable(h, c),
         c \in Ids => h.o[c].ref \in Nat
  PROVE  object_ref(SetSlots(h, a, s), c) = SetSlots(object_ref(h, c), a, s)
<1>1. CASE c \notin Ids
  BY <1>1 DEF object_ref
<1>2. CASE c \in Ids
  <2> DEFINE g == SetSlots(h, a, s)
  <2>1. c \in Places /\ Live(h, c)
    BY <1>2 DEF Usable, Places
  <2>2. g \in Heaps /\ g.o[c].type = h.o[c].type /\ g.o[c].ref = h.o[c].ref
    BY <2>1, SetSlotsIs
  <2>3. Touch(g, c) = g /\ Touch(h, c) = h
    BY <2>1, <2>2, TouchIs DEF Live
  <2> DEFINE k == SetRef(h, c, h.o[c].ref + 1)
             x == SetRef(g, c, g.o[c].ref + 1)
             y == SetSlots(k, a, s)
             r == h.o[c].ref + 1
  <2>4. object_ref(g, c) = x
    BY <1>2, <2>3 DEF object_ref, SetRef
  <2>5. object_ref(h, c) = k
    BY <1>2, <2>3 DEF object_ref, SetRef
  <2>r. r \in Nat /\ x = SetRef(g, c, r) /\ k = SetRef(h, c, r)
    BY <1>2, <2>2
  <2>6. /\ g \in Heaps /\ g.wild = h.wild /\ g.o[a].slots = s
        /\ \A j \in Places : g.o[j].type = h.o[j].type /\ g.o[j].ref = h.o[j].ref /\ (j # a => g.o[j] = h.o[j])
    BY SetSlotsIs
  <2> HIDE DEF g, k, x, r
  <2>7. /\ x \in Heaps /\ x.wild = g.wild /\ x.o[c].ref = r
        /\ \A j \in Places : x.o[j].type = g.o[j].type /\ x.o[j].slots = g.o[j].slots /\ (j # c => x.o[j] = g.o[j])
    <3>1. g \in Heaps /\ c \in Places
      BY <2>1, <2>6
    <3>2. r \in Nat
      BY <2>r
    <3>3. /\ SetRef(g, c, r) \in Heaps /\ SetRef(g, c, r).wild = g.wild
          /\ SetRef(g, c, r).o[c].ref = r
          /\ \A j \in Places : /\ SetRef(g, c, r).o[j].type = g.o[j].type
                               /\ SetRef(g, c, r).o[j].slots = g.o[j].slots
                               /\ j # c => SetRef(g, c, r).o[j] = g.o[j]
      BY <3>1, <3>2, SetRefIs
    <3> QED BY <2>r, <3>3
  <2>8. /\ k \in Heaps /\ k.wild = h.wild /\ k.o[c].ref = r
        /\ \A j \in Places : k.o[j].type = h.o[j].type /\ k.o[j].slots = h.o[j].slots /\ (j # c => k.o[j] = h.o[j])
    <3>1. c \in Places
      BY <2>1
    <3>2. r \in Nat
      BY <2>r
    <3>3. /\ SetRef(h, c, r) \in Heaps /\ SetRef(h, c, r).wild = h.wild
          /\ SetRef(h, c, r).o[c].ref = r
          /\ \A j \in Places : /\ SetRef(h, c, r).o[j].type = h.o[j].type
                               /\ SetRef(h, c, r).o[j].slots = h.o[j].slots
                               /\ j # c => SetRef(h, c, r).o[j] = h.o[j]
      BY <3>1, <3>2, SetRefIs
    <3> QED BY <2>r, <3>3
  <2>9. /\ y \in Heaps /\ y.wild = k.wild /\ y.o[a].slots = s
        /\ \A j \in Places : y.o[j].type = k.o[j].type /\ y.o[j].ref = k.o[j].ref /\ (j # a => y.o[j] = k.o[j])
    BY <2>8, SetSlotsIs
  <2> HIDE DEF y
  <2>10. ASSUME NEW j \in Places PROVE x.o[j] = y.o[j]
    <3>1. x.o[j] \in Objects /\ y.o[j] \in Objects
      BY <2>7, <2>9, HeapIs
    <3>2. x.o[j].type = y.o[j].type
      BY <2>6, <2>7, <2>8, <2>9
    <3>3. x.o[j].ref = y.o[j].ref
      BY <2>1, <2>6, <2>7, <2>8, <2>9
    <3>4. x.o[j].slots = y.o[j].slots
      BY <2>6, <2>7, <2>8, <2>9
    <3> QED BY <3>1, <3>2, <3>3, <3>4 DEF Objects
  <2>11. x.wild = y.wild
    BY <2>6, <2>7, <2>8, <2>9
  <2>12. x.o = y.o
    BY <2>7, <2>9, <2>10 DEF Heaps
  <2>13. x = y
    BY <2>7, <2>9, <2>11, <2>12 DEF Heaps
  <2> QED BY <2>4, <2>5, <2>13 DEF g, y
<1> QED BY <1>1, <1>2

Puts(e, c, old, d, new) == \A i \in Ids : e[i] + One(c, i) + Times(i, old) = d[i] + Times(i, new)

\* The elements or members of a are now s, and c has been counted.
PutIn(h, g, b, d, F, a, s) ==
  /\ Owns(g, b, d, F) /\ g.wild = h.wild /\ Slots(g, a) = s
  /\ \A j \in Places : g.o[j].type = h.o[j].type /\ (j # a => g.o[j].slots = h.o[j].slots)

\* A value that is stored is counted, and what it replaces comes into the hand.
LEMMA PutOwns ==
  ASSUME NEW h, NEW b, NEW e, NEW F, Owns(h, b, e, F), NEW a \in Places, Usable(h, a), NEW s \in Seq(Vals),
         FitsAs(h, h.o[a].type, s), NEW c, Usable(h, c),
         NEW d \in [Ids -> Nat], Puts(e, c, Slots(h, a), d, s)
  PROVE  PutIn(h, object_ref(SetSlots(h, a, s), c), b, d, F \ {c}, a, s)
<1> DEFINE k == object_ref(h, c)
           g == SetSlots(k, a, s)
           x == Plus(e, c)
<1>0. h \in Heaps /\ Shaped(h) /\ e \in [Ids -> Nat]
  BY DEF Owns, Shaped
<1>1. x \in [Ids -> Nat] /\ \A i \in Ids : x[i] = e[i] + One(c, i)
  BY <1>0, PlusIs
<1>2. object_ref(SetSlots(h, a, s), c) = g
  <2>1. c \in Ids => h.o[c].ref \in Nat
    BY OwnsAt
  <2> QED BY <1>0, <2>1, RefThenSet
<1> HIDE DEF x
<1>3. Gives(x, e, c)
  BY <1>1 DEF Gives
<1>4. /\ Owns(k, b, x, F \ {c}) /\ k.wild = h.wild
      /\ \A j \in Places : k.o[j].type = h.o[j].type /\ k.o[j].slots = h.o[j].slots
  <2>1. Referred(h, k, b, x, F \ {c})
    BY <1>1, <1>3, AddRef
  <2> QED BY <2>1 DEF Referred
<1> HIDE DEF k
<1>5. Slots(k, a) = Slots(h, a) /\ k.o[a].type = h.o[a].type /\ Live(k, a)
  BY <1>0, <1>4, UsablePlace DEF Slots, Live
<1>6. Swaps(x, Slots(k, a), d, s)
  BY <1>1, <1>5 DEF Swaps, Puts
<1>7. FitsAs(k, k.o[a].type, s)
  <2>1. \A v \in Vals : TypeOf(k, v) = TypeOf(h, v)
    BY <1>4 DEF Vals, TypeOf
  <2> DEFINE y == [type |-> h.o[a].type, ref |-> 0, slots |-> s]
  <2>2. y.slots = s /\ \A j \in DOMAIN s : s[j] \in Vals
    OBVIOUS
  <2>3. Fits(h, y)
    BY DEF FitsAs
  <2> HIDE DEF y
  <2>4. y.type = "struct" => 1 \in DOMAIN s
    BY <2>2, <2>3 DEF Fits
  <2>5. Fits(k, y)
    BY <2>1, <2>2, <2>3, <2>4 DEF Fits
  <2> QED BY <1>5, <2>5 DEF y, FitsAs
<1>8. /\ Owns(g, b, d, F \ {c}) /\ g.wild = k.wild /\ Slots(g, a) = s
      /\ \A j \in Places : g.o[j].type = k.o[j].type /\ (j # a => g.o[j] = k.o[j])
  BY <1>4, <1>5, <1>6, <1>7, PutSlots
<1> HIDE DEF g
<1>9. PutIn(h, g, b, d, F \ {c}, a, s)
  BY <1>4, <1>8 DEF PutIn
<1> QED BY <1>2, <1>9

\* A container in which c has been stored.
Stored(h, g, b, e, F, a, c) ==
  /\ Owns(g, b, e, F) /\ g.wild = h.wild /\ Typed(h, g)
  /\ Usable(g, a) => HasElement(g, a, c)

\* A member replaced by one of a fitting type.
LEMMA ReplaceFits ==
  ASSUME NEW h, Shaped(h), NEW a \in Places, NEW p \in DOMAIN Slots(h, a), NEW c \in Vals,
         TypeOf(h, c) \in NumberTypes \cup {"null"},
         h.o[a].type = "struct" /\ p = 1 => TypeOf(h, c) = "int"
  PROVE  /\ FitsAs(h, h.o[a].type, [Slots(h, a) EXCEPT ![p] = c])
         /\ [Slots(h, a) EXCEPT ![p] = c] \in Seq(Vals)
<1> DEFINE old == Slots(h, a)
           new == [Slots(h, a) EXCEPT ![p] = c]
           y == [type |-> h.o[a].type, ref |-> 0, slots |-> new]
<1>1. old = h.o[a].slots /\ old \in Seq(Vals) /\ DOMAIN old = 1 .. Len(old) /\ Fits(h, h.o[a])
  BY HeapIs DEF Shaped, Slots
<1>2. /\ new \in Seq(Vals) /\ Len(new) = Len(old) /\ DOMAIN new = DOMAIN old /\ new[p] = c
      /\ \A k \in DOMAIN old : k # p => new[k] = old[k]
  BY <1>1
<1>3. y.type = h.o[a].type /\ y.slots = new
  OBVIOUS
<1> HIDE DEF new, y
<1>4. y.type = "struct" => Len(new) = 2 /\ TypeOf(h, new[1]) = "int"
  <2> SUFFICES ASSUME y.type = "struct" PROVE Len(new) = 2 /\ TypeOf(h, new[1]) = "int"
    OBVIOUS
  <2>1. Len(old) = 2 /\ TypeOf(h, old[1]) = "int" /\ 1 \in DOMAIN old
    BY <1>1, <1>3 DEF Fits
  <2>2. CASE p = 1
    BY <1>2, <1>3, <2>1, <2>2
  <2>3. CASE p # 1
    BY <1>2, <2>1, <2>3
  <2> QED BY <2>2, <2>3
<1>5. y.type \notin NumberTypes
  <2>1. old # <<>>
    OBVIOUS
  <2> QED BY <1>1, <1>3, <2>1 DEF Fits
<1>6. \A k \in DOMAIN new : TypeOf(h, new[k]) \in NumberTypes \cup {"null"}
  BY <1>1, <1>2 DEF Fits
<1>7. Fits(h, y)
  BY <1>1, <1>2, <1>3, <1>4, <1>5, <1>6 DEF Fits
<1> QED BY <1>2, <1>7 DEF new, y, FitsAs

\* An element or member is replaced: the new one is counted and the old one let go.
LEMMA ReplaceOwns ==
  ASSUME NEW h, NEW b, NEW e, NEW F, Owns(h, b, e, F), NEW a \in Places, Usable(h, a),
         NEW p \in DOMAIN Slots(h, a), NEW c, Usable(h, c),
         TypeOf(h, c) \in NumberTypes \cup {"null"},
         h.o[a].type = "struct" /\ p = 1 => TypeOf(h, c) = "int"
  PROVE  Stored(h, object_unref(object_ref([h EXCEPT !.o[a].slots[p] = c], c), Slots(h, a)[p]), b, e, F \ {c}, a, c)
<1> DEFINE old == Slots(h, a)
           new == [Slots(h, a) EXCEPT ![p] = c]
           v == old[p]
           d == Plus(e, v)
           k == object_ref(SetSlots(h, a, new), c)
           g == object_unref(k, v)
<1>0. h \in Heaps /\ Shaped(h) /\ e \in [Ids -> Nat] /\ c \in Vals
  BY DEF Owns, Shaped, Usable
<1>1. [h EXCEPT !.o[a].slots[p] = c] = SetSlots(h, a, new)
  BY <1>0 DEF SetSlots, Slots, Heaps
<1>2. FitsAs(h, h.o[a].type, new) /\ new \in Seq(Vals)
  BY <1>0, ReplaceFits
<1>3. old \in Seq(Vals) /\ v \in Vals /\ p \in DOMAIN old
  BY SlotUsable DEF Usable
<1>4. d \in [Ids -> Nat] /\ \A i \in Ids : d[i] = e[i] + One(v, i)
  BY <1>0, PlusIs
<1>5. Puts(e, c, old, d, new)
  <2>1. ASSUME NEW i \in Ids PROVE e[i] + One(c, i) + Times(i, old) = d[i] + Times(i, new)
    <3>1. Times(i, new) + One(v, i) = Times(i, old) + One(c, i)
      BY <1>0, <1>3, TimesExcept
    <3>2. Times(i, new) \in Nat /\ Times(i, old) \in Nat /\ e[i] \in Nat
      BY <1>0, <1>2, <1>3, TimesIsTo
    <3>3. One(v, i) \in Nat /\ One(c, i) \in Nat /\ d[i] = e[i] + One(v, i)
      BY <1>4 DEF One
    <3> DEFINE m == Times(i, new)
               n == Times(i, old)
               y == One(v, i)
               z == One(c, i)
               x == e[i]
    <3> HIDE DEF m, n, y, z, x, d
    <3> QED BY <3>1, <3>2, <3>3 DEF m, n, y, z, x
  <2> QED BY <2>1 DEF Puts
<1> HIDE DEF d
<1>6. PutIn(h, k, b, d, F \ {c}, a, new)
  BY <1>2, <1>4, <1>5, PutOwns
<1>7. Gives(d, e, v)
  BY <1>4 DEF Gives
<1> HIDE DEF k
<1>8. Owns(g, b, e, F \ {c}) /\ g.wild = k.wild /\ Same(k, g)
  BY <1>0, <1>3, <1>6, <1>7, UnrefOwns DEF PutIn
<1> HIDE DEF g
<1>9. Typed(h, g)
  <2>1. Typed(h, k)
    BY <1>6 DEF PutIn, Typed
  <2> QED BY <1>8, <2>1, SameTyped, TypedThen
<1>10. ASSUME Usable(g, a) PROVE HasElement(g, a, c)
  <2>1. Shaped(g)
    BY <1>8 DEF Owns
  <2>2. Slots(g, a) = Slots(k, a)
    BY <1>8, <1>10, <2>1, SameLike DEF Like
  <2>3. Slots(k, a) = new /\ p \in DOMAIN new /\ new[p] = c
    BY <1>3, <1>6 DEF PutIn
  <2> QED BY <2>2, <2>3 DEF HasElement
<1>11. Stored(h, g, b, e, F \ {c}, a, c)
  BY <1>6, <1>8, <1>9, <1>10 DEF Stored, PutIn
<1> QED BY <1>1, <1>11 DEF g, k

-----------------------------------------------------------------------------
\* An element that was stored, or NULL; F are the objects without a count.
IpStored(h, g, b, e, F, a, p, c) ==
  /\ g.v = NULL => Owns(g.h, b, e, F) /\ (Usable(h, a) => g.h = h)
  /\ g.v # NULL => g.v = c /\ Stored(h, g.h, b, e, F \ {c}, a, c) /\ Usable(h, a)
  /\ TypeOf(h, a) \in {"vec", "dict"} /\ p > 0 => g.v # NULL

\* A value of a container's type is a live place.
LEMMA TypedUsable ==
  ASSUME NEW h, NEW b, NEW e, NEW F, Owns(h, b, e, F), NEW a \in Vals, TypeOf(h, a) \in Types \ NumberTypes
  PROVE  a \in Places /\ Usable(h, a) /\ TypeOf(h, a) = h.o[a].type
<1>1. h \in Heaps /\ TypeOf(h, a) # "none" /\ TypeOf(h, a) # "null" /\ TypeOf(h, a) # "void"
  BY TypesApart DEF Owns, Shaped
<1>2. a \in Places
  <2>1. a \notin Consts
    BY <1>1, ConstsAre DEF TypeOf, Types, NumberTypes, Compounds
  <2> QED BY <2>1 DEF Vals
<1> QED BY <1>1, <1>2, NumberUsable, TypeOfId

\* A new pair: the value is counted, and then the key.
LEMMA PairOwns ==
  ASSUME NEW h, NEW b, NEW e, NEW F, Owns(h, b, e, F), NEW a \in Places, Usable(h, a),
         h.o[a].type = "dict", Slots(h, a) = <<>>,
         NEW c, Usable(h, c), TypeOf(h, c) \in NumberTypes \cup {"null"},
         NEW k, Usable(h, k), TypeOf(h, k) \in NumberTypes, k \notin F
  PROVE  Stored(h, object_ref(object_ref([h EXCEPT !.o[a].slots = <<k, c>>], c), k), b, e, F \ {c}, a, c)
<1> DEFINE s == <<k, c>>
           x == Plus(e, c)
           y == Plus(x, k)
           h1 == object_ref(h, c)
           h2 == object_ref(h1, k)
           g == SetSlots(h2, a, s)
<1>0. h \in Heaps /\ Shaped(h) /\ e \in [Ids -> Nat] /\ c \in Vals /\ k \in Vals
  BY DEF Owns, Shaped, Usable
<1>s. s \in Seq(Vals) /\ Len(s) = 2 /\ s[1] = k /\ s[2] = c /\ DOMAIN s = {1, 2}
  BY <1>0
<1>1. x \in [Ids -> Nat] /\ \A i \in Ids : x[i] = e[i] + One(c, i)
  BY <1>0, PlusIs
<1> HIDE DEF x
<1>2. y \in [Ids -> Nat] /\ \A i \in Ids : y[i] = x[i] + One(k, i)
  BY <1>1, PlusIs
<1> HIDE DEF y
<1>3. Referred(h, h1, b, x, F \ {c})
  <2>1. Gives(x, e, c)
    BY <1>1 DEF Gives
  <2> QED BY <1>1, <2>1, AddRef
<1>4. /\ Owns(h1, b, x, F \ {c}) /\ h1.wild = h.wild
      /\ \A j \in Places : h1.o[j].type = h.o[j].type /\ h1.o[j].slots = h.o[j].slots
  BY <1>3 DEF Referred
<1>5. Usable(h1, k) /\ Usable(h1, c)
  BY <1>4 DEF Usable, Live, Places
<1>6. object_ref(SetSlots(h, a, s), c) = SetSlots(h1, a, s)
  <2>1. c \in Ids => h.o[c].ref \in Nat
    BY OwnsAt
  <2> QED BY <1>0, <1>s, <2>1, RefThenSet
<1>7. object_ref(SetSlots(h1, a, s), k) = g
  <2>1. k \in Ids => h1.o[k].ref \in Nat
    BY <1>4, OwnsAt
  <2>2. h1 \in Heaps
    BY <1>4 DEF Owns, Shaped
  <2> HIDE DEF h1
  <2> QED BY <1>s, <1>5, <2>1, <2>2, RefThenSet
<1>8. [h EXCEPT !.o[a].slots = <<k, c>>] = SetSlots(h, a, s)
  BY DEF SetSlots
<1>9. Referred(h1, h2, b, y, (F \ {c}) \ {k})
  <2>1. Gives(y, x, k)
    BY <1>2 DEF Gives
  <2> HIDE DEF h1
  <2> QED BY <1>1, <1>2, <1>4, <1>5, <2>1, AddRef
<1>10. /\ Owns(h2, b, y, (F \ {c}) \ {k}) /\ h2.wild = h1.wild
       /\ \A j \in Places : h2.o[j].type = h1.o[j].type /\ h2.o[j].slots = h1.o[j].slots
  BY <1>9 DEF Referred
<1>11. Owns(h2, b, y, F \ {c})
  BY <1>10, SameF
<1> HIDE DEF h1, h2
<1>12. Slots(h2, a) = <<>> /\ h2.o[a].type = "dict" /\ Live(h2, a)
  BY <1>4, <1>10 DEF Slots, Live
<1>13. Swaps(y, Slots(h2, a), e, s)
  <2>1. ASSUME NEW i \in Ids PROVE y[i] + Times(i, Slots(h2, a)) = e[i] + Times(i, s)
    <3>1. Times(i, Slots(h2, a)) = 0 /\ Times(i, s) = One(k, i) + One(c, i)
      BY <1>0, <1>12, TimesShort
    <3>2. y[i] = e[i] + One(c, i) + One(k, i) /\ e[i] \in Nat /\ One(c, i) \in Nat /\ One(k, i) \in Nat
      BY <1>0, <1>1, <1>2 DEF One
    <3> DEFINE q == e[i]
               u == One(c, i)
               w == One(k, i)
    <3>3. y[i] + 0 = q + (w + u)
      <4>1. y[i] = q + u + w /\ q \in Nat /\ u \in Nat /\ w \in Nat
        BY <3>2
      <4> HIDE DEF q, u, w
      <4> QED BY <4>1
    <3> QED BY <3>1, <3>3
  <2> QED BY <2>1 DEF Swaps
<1>14. FitsAs(h2, h2.o[a].type, s)
  <2>1. TypeOf(h2, k) = TypeOf(h, k) /\ TypeOf(h2, c) = TypeOf(h, c)
    BY <1>0, <1>4, <1>10 DEF Vals, TypeOf
  <2> DEFINE z == [type |-> "dict", ref |-> 0, slots |-> s]
  <2>2. z.type = "dict" /\ z.slots = s /\ 2 <= MaxLen + 2
    BY RefsAssumption
  <2>3. "dict" \notin NumberTypes
    BY DEF NumberTypes
  <2>4. Fits(h2, z)
    BY <1>s, <2>1, <2>2, <2>3 DEF Fits
  <2> QED BY <1>12, <2>4 DEF FitsAs
<1>15. /\ Owns(g, b, e, F \ {c}) /\ g.wild = h2.wild /\ Slots(g, a) = s
       /\ \A j \in Places : g.o[j].type = h2.o[j].type
  <2>1. s \in Seq(Vals) /\ Live(h2, a)
    BY <1>s, <1>12
  <2> HIDE DEF s
  <2> QED BY <1>0, <1>11, <1>13, <1>14, <2>1, PutSlots
<1> HIDE DEF g
<1>16. Typed(h, g)
  BY <1>4, <1>10, <1>15 DEF Typed
<1>17. HasElement(g, a, c)
  BY <1>s, <1>15 DEF HasElement
<1>18. Stored(h, g, b, e, F \ {c}, a, c)
  BY <1>4, <1>10, <1>15, <1>16, <1>17 DEF Stored
<1> QED BY <1>6, <1>7, <1>8, <1>18

\* object_ipindex counts what it stores, in a vec and in a dict.
LEMMA IpIndexOwns ==
  ASSUME NEW h, NEW b, NEW e, NEW F, Owns(h, b, e, F), NEW a \in Vals, NEW k, NEW p \in Int,
         NEW c, Usable(h, c), TypeOf(h, c) \in NumberTypes \cup {"null"},
         TypeOf(h, a) \in {"vec", "dict"} /\ p > 0 => p \in DOMAIN Slots(h, a),
         TypeOf(h, a) = "dict" /\ p = 0 =>
           Slots(h, a) = <<>> /\ Usable(h, k) /\ TypeOf(h, k) \in NumberTypes /\ k \notin F
  PROVE  IpStored(h, object_ipindex(h, a, k, p, c), b, e, F, a, p, c)
<1>1. c # NULL
  BY Apart DEF Usable
<1>2. TypeOf(h, a) \in {"vec", "dict"} => a \in Places /\ Usable(h, a) /\ TypeOf(h, a) = h.o[a].type
  BY TypedUsable DEF Types, NumberTypes
<1>3. CASE TypeOf(h, a) = "vec" /\ p > 0
  <2> DEFINE g == vecobject_op_ipindex(h, a, p, c)
  <2>1. Stored(h, g, b, e, F \ {c}, a, c)
    BY <1>2, <1>3, ReplaceOwns DEF vecobject_op_ipindex
  <2> HIDE DEF g
  <2>2. object_ipindex(h, a, k, p, c) = Got(g, c)
    BY <1>3 DEF object_ipindex, g
  <2> QED BY <1>1, <1>2, <1>3, <2>1, <2>2 DEF IpStored, Got
<1>4. CASE TypeOf(h, a) = "dict" /\ p >= 0
  <2> DEFINE g == dictobject_op_ipindex(h, a, k, p, c)
  <2>1. Stored(h, g, b, e, F \ {c}, a, c)
    <3>1. CASE p = 0
      BY <1>2, <1>4, <3>1, PairOwns DEF dictobject_op_ipindex
    <3>2. CASE p # 0
      BY <1>2, <1>4, <3>2, ReplaceOwns DEF dictobject_op_ipindex
    <3> QED BY <3>1, <3>2
  <2> HIDE DEF g
  <2>2. object_ipindex(h, a, k, p, c) = Got(g, c)
    BY <1>4 DEF object_ipindex, g
  <2> QED BY <1>1, <1>2, <1>4, <2>1, <2>2 DEF IpStored, Got
<1>5. CASE ~(TypeOf(h, a) = "vec" /\ p > 0) /\ ~(TypeOf(h, a) = "dict" /\ p >= 0)
  <2> DEFINE g == Touch(h, a)
  <2>1. Owns(g, b, e, F) /\ (Usable(h, a) => g = h)
    BY OwnsTouch, UsableTouch
  <2> HIDE DEF g
  <2>2. object_ipindex(h, a, k, p, c) = Got(g, NULL)
    BY <1>5 DEF object_ipindex, g
  <2> QED BY <1>5, <2>1, <2>2 DEF IpStored, Got
<1> QED BY <1>3, <1>4, <1>5

-----------------------------------------------------------------------------
(* An opcode.  The variables' references and the stack's.                   *)

VT == [i \in Ids |-> VarTimes(i, vars, Names)]
ST(s) == [i \in Ids |-> Times(i, s)]
But(n) == [i \in Ids |-> VarTimes(i, vars, Names \ {n})]

Stacks == Seq(Vals)
Scopes == [Names -> Vals \cup {Unset}]

\* The counts are exact, as at the start of an opcode that runs.
Good == Shaped(heap) /\ Exact(heap, stack, vars) /\ stack \in Stacks /\ vars \in Scopes

\* The references of variables and stack are numbers.
LEMMA HandsAre ==
  /\ VT \in [Ids -> Nat] /\ \A i \in Ids : VT[i] = VarTimes(i, vars, Names)
  /\ \A s \in Stacks : ST(s) \in [Ids -> Nat] /\ \A i \in Ids : ST(s)[i] = Times(i, s)
  /\ \A n \in Names : But(n) \in [Ids -> Nat] /\ \A i \in Ids : But(n)[i] = VarTimes(i, vars, Names \ {n})
<1>1. \A i \in Ids : VarTimes(i, vars, Names) \in Nat
  BY VarTimesType
<1>2. \A n \in Names : \A i \in Ids : VarTimes(i, vars, Names \ {n}) \in Nat
  <2>1. \A n \in Names : Names \ {n} \in SUBSET Names
    OBVIOUS
  <2> QED BY <2>1, VarTimesType
<1>3. \A s \in Stacks : \A i \in Ids : Times(i, s) \in Nat
  BY TimesIsTo DEF Stacks
<1> QED BY <1>1, <1>2, <1>3 DEF VT, ST, But

\* The holders of an object: the stack, the variables and other objects.
LEMMA HoldersAre ==
  ASSUME NEW h, NEW s, NEW vs, NEW i
  PROVE  Holders(h, s, vs, i) = Times(i, s) + VarTimes(i, vs, Names) + Held(h, i)
BY DEF Holders, VarTimes

\* At the start of an opcode the stack's references are in hand and no object is new.
LEMMA StartOwns ==
  ASSUME Good
  PROVE  Owns(heap, VT, ST(stack), {}) /\ ~heap.wild
<1>1. ASSUME NEW i \in Ids
      PROVE  heap.o[i].ref = Held(heap, i) + VT[i] + ST(stack)[i] /\ ~(Live(heap, i) /\ heap.o[i].ref = 0)
  <2> DEFINE n == Holders(heap, stack, vars, i)
  <2>1. heap.o[i].ref = n /\ (n = 0 => ~Live(heap, i))
    <3>1. heap.o[i].ref = n /\ Live(heap, i) = (n > 0)
      BY DEF Good, Exact
    <3>2. n = 0 => ~(n > 0)
      OBVIOUS
    <3> HIDE DEF n
    <3> QED BY <3>1, <3>2
  <2>2. n = Times(i, stack) + VarTimes(i, vars, Names) + Held(heap, i)
    BY HoldersAre
  <2>3. Held(heap, i) \in Nat /\ VT[i] \in Nat /\ ST(stack)[i] \in Nat
    BY HeldType, HandsAre DEF Good
  <2>4. VT[i] = VarTimes(i, vars, Names) /\ ST(stack)[i] = Times(i, stack)
    BY HandsAre DEF Good
  <2> HIDE DEF n
  <2>5. n = Held(heap, i) + VT[i] + ST(stack)[i]
    BY <2>2, <2>3, <2>4
  <2> QED BY <2>1, <2>5
<1>2. VT \in [Ids -> Nat] /\ ST(stack) \in [Ids -> Nat]
  BY HandsAre DEF Good
<1> QED BY <1>1, <1>2 DEF Owns, Good, Exact

\* The order of what is in hand is of no account.
LEMMA PlusSwap ==
  ASSUME NEW h, NEW b, NEW e \in [Ids -> Nat], NEW F, NEW u, NEW v, Owns(h, b, Plus(Plus(e, u), v), F)
  PROVE  Owns(h, b, Plus(Plus(e, v), u), F)
<1> DEFINE x == Plus(e, u)
           y == Plus(e, v)
           p == Plus(x, v)
           q == Plus(y, u)
<1>1. x \in [Ids -> Nat] /\ y \in [Ids -> Nat] /\ \A i \in Ids : x[i] = e[i] + One(u, i) /\ y[i] = e[i] + One(v, i)
  BY PlusIs
<1> HIDE DEF x, y
<1>2. p \in [Ids -> Nat] /\ q \in [Ids -> Nat] /\ \A i \in Ids : p[i] = x[i] + One(v, i) /\ q[i] = y[i] + One(u, i)
  BY <1>1, PlusIs
<1>3. Owns(h, b, p, F)
  BY DEF x, y
<1> HIDE DEF p, q
<1>4. \A i \in Ids : p[i] = q[i]
  <2>1. ASSUME NEW i \in Ids PROVE p[i] = q[i]
    <3>1. One(u, i) \in Nat /\ One(v, i) \in Nat /\ e[i] \in Nat
      BY DEF One
    <3> QED BY <1>1, <1>2, <3>1
  <2> QED BY <2>1
<1>5. Owns(h, b, q, F)
  BY <1>2, <1>3, <1>4, SameE
<1> QED BY <1>5 DEF q, y

LEMMA PlusGives ==
  ASSUME NEW e \in [Ids -> Nat], NEW v
  PROVE  Plus(e, v) \in [Ids -> Nat] /\ Gives(Plus(e, v), e, v)
BY PlusIs DEF Gives

\* What a step of an opcode leaves.
Left(h, g, b, d, F) == Owns(g, b, d, F) /\ g.wild = h.wild /\ Same(h, g)

\* An opcode lets go of one or two of its operands.
LEMMA LetGo ==
  ASSUME NEW h, NEW b, NEW e \in [Ids -> Nat], NEW F, NEW v \in Vals, Owns(h, b, Plus(e, v), F)
  PROVE  Left(h, object_unref(h, v), b, e, F)
<1>1. Gives(Plus(e, v), e, v)
  BY PlusGives
<1> QED BY <1>1, UnrefOwns DEF Left

LEMMA LetGoTwo ==
  ASSUME NEW h, NEW b, NEW e \in [Ids -> Nat], NEW F, NEW u \in Vals, NEW v \in Vals,
         Owns(h, b, Plus(Plus(e, u), v), F)
  PROVE  /\ Left(h, object_unref(object_unref(h, v), u), b, e, F)
         /\ Left(h, object_unref(object_unref(h, u), v), b, e, F)
<1>0. Plus(e, u) \in [Ids -> Nat] /\ Plus(e, v) \in [Ids -> Nat]
  BY PlusGives
<1>1. Left(h, object_unref(h, v), b, Plus(e, u), F)
  BY <1>0, LetGo
<1>2. Left(object_unref(h, v), object_unref(object_unref(h, v), u), b, e, F)
  BY <1>1, LetGo DEF Left
<1>3. Owns(h, b, Plus(Plus(e, v), u), F)
  BY PlusSwap
<1>4. Left(h, object_unref(h, u), b, Plus(e, v), F)
  BY <1>0, <1>3, LetGo
<1>5. Left(object_unref(h, u), object_unref(object_unref(h, u), v), b, e, F)
  BY <1>4, LetGo DEF Left
<1> QED BY <1>1, <1>2, <1>4, <1>5, SameThen DEF Left

\* The operands of an opcode.
LEMMA StackIs ==
  ASSUME Good, NEW n \in 1 .. 3, Holds(n)
  PROVE  /\ Under(n) \in Stacks /\ Arg(n) \in Vals /\ ST(Under(n)) \in [Ids -> Nat]
         /\ \A i \in Ids : ST(Under(n - 1))[i] = ST(Under(n))[i] + One(Arg(n), i)
         /\ Under(0) = stack
<1>1. stack \in Seq(Vals) /\ Len(stack) \in Nat
  BY DEF Good, Stacks
<1> DEFINE m == Len(stack) - n
<1>2. m \in 0 .. Len(stack) /\ m + 1 \in 0 .. Len(stack) /\ m + 1 \in 1 .. Len(stack) /\ m \in Nat
      /\ Len(stack) + 1 - n = m + 1 /\ Len(stack) - (n - 1) = m + 1
  BY <1>1 DEF Holds
<1>3. Under(n) = SubSeq(stack, 1, m) /\ Under(n - 1) = SubSeq(stack, 1, m + 1) /\ Arg(n) = stack[m + 1]
  BY <1>2 DEF Under, Arg
<1> HIDE DEF m
<1>4. Arg(n) \in Vals
  BY <1>1, <1>2, <1>3
<1>5. ASSUME NEW i \in Ids
      PROVE  /\ SubSeq(stack, 1, m) \in Seq(Vals) /\ SubSeq(stack, 1, m + 1) \in Seq(Vals)
             /\ Times(i, SubSeq(stack, 1, m)) = TimesTo(i, stack, m)
             /\ Times(i, SubSeq(stack, 1, m + 1)) = TimesTo(i, stack, m + 1)
  BY <1>1, <1>2, TimesPrefix
<1>6. SubSeq(stack, 1, m) \in Seq(Vals)
  BY <1>1, <1>2, TimesPrefix
<1>7. ASSUME NEW i \in Ids PROVE TimesTo(i, stack, m + 1) = TimesTo(i, stack, m) + One(stack[m + 1], i)
  BY <1>2, TimesToIs
<1>8. ST(Under(n)) \in [Ids -> Nat]
  BY <1>3, <1>6, HandsAre DEF Stacks
<1>9. Under(0) = stack
  <2>1. Len(stack) - 0 = Len(stack) /\ SubSeq(stack, 1, Len(stack)) = stack
    BY <1>1
  <2> QED BY <2>1 DEF Under
<1>10. ASSUME NEW i \in Ids PROVE ST(Under(n - 1))[i] = ST(Under(n))[i] + One(Arg(n), i)
  BY <1>3, <1>5, <1>7 DEF ST
<1> QED BY <1>3, <1>4, <1>6, <1>8, <1>9, <1>10 DEF Stacks

\* One, two or three operands have been popped and are in hand.
LEMMA Popped ==
  ASSUME Good, Holds(1)
  PROVE  /\ Under(1) \in Stacks /\ Arg(1) \in Vals /\ ST(Under(1)) \in [Ids -> Nat]
         /\ Owns(heap, VT, Plus(ST(Under(1)), Arg(1)), {}) /\ Usable(heap, Arg(1)) /\ ~heap.wild
<1>1. /\ Under(1) \in Stacks /\ Arg(1) \in Vals /\ ST(Under(1)) \in [Ids -> Nat]
      /\ \A i \in Ids : ST(stack)[i] = ST(Under(1))[i] + One(Arg(1), i)
  <2>1. /\ Under(1) \in Stacks /\ Arg(1) \in Vals /\ ST(Under(1)) \in [Ids -> Nat]
        /\ \A i \in Ids : ST(Under(1 - 1))[i] = ST(Under(1))[i] + One(Arg(1), i)
        /\ Under(0) = stack
    BY StackIs
  <2>2. 1 - 1 = 0
    OBVIOUS
  <2> QED BY <2>1, <2>2
<1>2. Plus(ST(Under(1)), Arg(1)) \in [Ids -> Nat] /\ \A i \in Ids : Plus(ST(Under(1)), Arg(1))[i] = ST(Under(1))[i] + One(Arg(1), i)
  BY <1>1, PlusIs
<1>3. Owns(heap, VT, ST(stack), {}) /\ ~heap.wild
  BY StartOwns
<1>4. \A i \in Ids : ST(stack)[i] = Plus(ST(Under(1)), Arg(1))[i]
  BY <1>1, <1>2
<1>5. Owns(heap, VT, Plus(ST(Under(1)), Arg(1)), {})
  BY <1>2, <1>3, <1>4, SameE
<1>6. Gives(Plus(ST(Under(1)), Arg(1)), ST(Under(1)), Arg(1))
  BY <1>2 DEF Gives
<1>7. Usable(heap, Arg(1))
  BY <1>1, <1>5, <1>6, GivesUsable
<1> QED BY <1>1, <1>3, <1>5, <1>7

LEMMA PoppedTwo ==
  ASSUME Good, Holds(2)
  PROVE  /\ Under(2) \in Stacks /\ Arg(1) \in Vals /\ Arg(2) \in Vals /\ ST(Under(2)) \in [Ids -> Nat]
         /\ Owns(heap, VT, Plus(Plus(ST(Under(2)), Arg(1)), Arg(2)), {})
         /\ Usable(heap, Arg(1)) /\ Usable(heap, Arg(2)) /\ ~heap.wild
<1> DEFINE e == ST(Under(2))
           x == Plus(e, Arg(2))
           y == Plus(x, Arg(1))
<1>0. Holds(1)
  BY DEF Holds, Good, Stacks
<1>1. /\ Under(2) \in Stacks /\ Arg(2) \in Vals /\ e \in [Ids -> Nat]
      /\ \A i \in Ids : ST(Under(1))[i] = e[i] + One(Arg(2), i)
  <2>1. /\ Under(2) \in Stacks /\ Arg(2) \in Vals /\ e \in [Ids -> Nat]
        /\ \A i \in Ids : ST(Under(2 - 1))[i] = e[i] + One(Arg(2), i)
    BY StackIs
  <2>2. 2 - 1 = 1
    OBVIOUS
  <2> HIDE DEF e
  <2> QED BY <2>1, <2>2
<1>2. /\ Arg(1) \in Vals /\ Owns(heap, VT, Plus(ST(Under(1)), Arg(1)), {}) /\ ~heap.wild
      /\ ST(Under(1)) \in [Ids -> Nat] /\ Usable(heap, Arg(1))
  BY <1>0, Popped
<1> HIDE DEF e
<1>3. x \in [Ids -> Nat] /\ \A i \in Ids : x[i] = e[i] + One(Arg(2), i)
  BY <1>1, PlusIs
<1> HIDE DEF x
<1>4. y \in [Ids -> Nat] /\ \A i \in Ids : y[i] = x[i] + One(Arg(1), i)
  BY <1>3, PlusIs
<1> HIDE DEF y
<1>5. \A i \in Ids : Plus(ST(Under(1)), Arg(1))[i] = ST(Under(1))[i] + One(Arg(1), i)
  BY <1>2, PlusIs
<1>6. \A i \in Ids : Plus(ST(Under(1)), Arg(1))[i] = y[i]
  BY <1>1, <1>3, <1>4, <1>5
<1>7. Owns(heap, VT, y, {})
  BY <1>2, <1>4, <1>6, SameE
<1>8. Owns(heap, VT, Plus(Plus(e, Arg(1)), Arg(2)), {})
  BY <1>1, <1>7, PlusSwap DEF x, y
<1>9. Usable(heap, Arg(2))
  <2>1. Plus(e, Arg(1)) \in [Ids -> Nat]
    BY <1>1, PlusGives
  <2>2. Gives(Plus(Plus(e, Arg(1)), Arg(2)), Plus(e, Arg(1)), Arg(2))
    BY <2>1, PlusGives
  <2> QED BY <1>1, <1>8, <2>1, <2>2, GivesUsable
<1> QED BY <1>1, <1>2, <1>8, <1>9 DEF e

LEMMA PoppedThree ==
  ASSUME Good, Holds(3)
  PROVE  /\ Under(3) \in Stacks /\ Arg(1) \in Vals /\ Arg(2) \in Vals /\ Arg(3) \in Vals
         /\ ST(Under(3)) \in [Ids -> Nat]
         /\ Owns(heap, VT, Plus(Plus(Plus(ST(Under(3)), Arg(3)), Arg(1)), Arg(2)), {})
         /\ Usable(heap, Arg(1)) /\ Usable(heap, Arg(2)) /\ Usable(heap, Arg(3)) /\ ~heap.wild
<1> DEFINE e == ST(Under(3))
           d == ST(Under(2))
           x == Plus(e, Arg(3))
           y == Plus(x, Arg(1))
           z == Plus(y, Arg(2))
<1>0. Holds(2)
  BY DEF Holds, Good, Stacks
<1>1. /\ Under(3) \in Stacks /\ Arg(3) \in Vals /\ e \in [Ids -> Nat]
      /\ \A i \in Ids : d[i] = e[i] + One(Arg(3), i)
  <2>1. /\ Under(3) \in Stacks /\ Arg(3) \in Vals /\ e \in [Ids -> Nat]
        /\ \A i \in Ids : ST(Under(3 - 1))[i] = e[i] + One(Arg(3), i)
    BY StackIs
  <2>2. 3 - 1 = 2
    OBVIOUS
  <2> HIDE DEF e
  <2> QED BY <2>1, <2>2
<1>2. /\ Arg(1) \in Vals /\ Arg(2) \in Vals /\ Owns(heap, VT, Plus(Plus(d, Arg(1)), Arg(2)), {}) /\ ~heap.wild
      /\ d \in [Ids -> Nat] /\ Usable(heap, Arg(1)) /\ Usable(heap, Arg(2))
  BY <1>0, PoppedTwo
<1> HIDE DEF e, d
<1>3. x \in [Ids -> Nat] /\ \A i \in Ids : x[i] = e[i] + One(Arg(3), i)
  BY <1>1, PlusIs
<1> HIDE DEF x
<1>4. y \in [Ids -> Nat] /\ \A i \in Ids : y[i] = x[i] + One(Arg(1), i)
  BY <1>3, PlusIs
<1> HIDE DEF y
<1>5. z \in [Ids -> Nat] /\ \A i \in Ids : z[i] = y[i] + One(Arg(2), i)
  BY <1>4, PlusIs
<1> HIDE DEF z
<1>6. \A i \in Ids : Plus(Plus(d, Arg(1)), Arg(2))[i] = z[i]
  <2> DEFINE u == Plus(d, Arg(1))
  <2>1. u \in [Ids -> Nat] /\ \A i \in Ids : u[i] = d[i] + One(Arg(1), i)
    BY <1>2, PlusIs
  <2> HIDE DEF u
  <2>2. \A i \in Ids : Plus(u, Arg(2))[i] = u[i] + One(Arg(2), i)
    BY <2>1, PlusIs
  <2>3. \A i \in Ids : Plus(u, Arg(2))[i] = z[i]
    BY <1>1, <1>3, <1>4, <1>5, <2>1, <2>2
  <2> QED BY <2>3 DEF u
<1>7. Owns(heap, VT, z, {})
  BY <1>2, <1>5, <1>6, SameE
<1>8. Usable(heap, Arg(3))
  <2>1. ASSUME Arg(3) \in Ids PROVE z[Arg(3)] > 0
    <3>1. One(Arg(3), Arg(3)) = 1 /\ One(Arg(1), Arg(3)) \in Nat /\ One(Arg(2), Arg(3)) \in Nat
      BY DEF One
    <3>2. x[Arg(3)] = e[Arg(3)] + 1 /\ e[Arg(3)] \in Nat
      BY <1>1, <1>3, <2>1, <3>1
    <3> QED BY <1>4, <1>5, <2>1, <3>1, <3>2
  <2> QED BY <1>1, <1>7, <2>1, HandUsable
<1> QED BY <1>1, <1>2, <1>7, <1>8 DEF e, x, y, z

\* A container that has other holders than the stack is there after it is popped.
Lone(a) == a \in Ids /\ heap.o[a].ref = 1

LEMMA Survives ==
  ASSUME NEW e, Owns(heap, VT, e, {}), NEW a \in Vals, TypeOf(heap, a) \notin NumberTypes \cup {"null"},
         NEW g, NEW d, NEW F, Owns(g, VT, d, F), a \in Ids => e[a] <= d[a] + 1, ~Lone(a), Usable(heap, a)
  PROVE  Usable(g, a)
<1>1. CASE a \in Ids
  <2>1. heap.o[a].ref # 1 /\ e[a] <= d[a] + 1
    BY <1>1 DEF Lone
  <2>2. Held(heap, a) = 0
    BY ContainerNotHeld DEF Owns
  <2>3. /\ heap.o[a].ref = Held(heap, a) + VT[a] + e[a] /\ VT[a] \in Nat /\ e[a] \in Nat
        /\ ~(Live(heap, a) /\ heap.o[a].ref = 0)
    BY <1>1, OwnsAt
  <2>4. d[a] \in Nat
    BY <1>1, OwnsAt
  <2>5. Live(heap, a)
    BY <1>1 DEF Usable
  <2>6. d[a] > 0 \/ VT[a] > 0
    BY <2>1, <2>2, <2>3, <2>4, <2>5
  <2> QED BY <1>1, <2>6, HandUsable
<1>2. CASE a \notin Ids
  BY <1>2 DEF Usable
<1> QED BY <1>1, <1>2

-----------------------------------------------------------------------------
(* How an opcode ends.                                                      *)

TemporaryOps == {"LOAD_INDEX", "STORE_INDEX", "INDEX_INC", "INDEX_IP",
                 "LOAD_MEMBER", "STORE_MEMBER", "MEMBER_INC", "MEMBER_POINC", "MEMBER_IP"}

Temp(op, a) == op \in TemporaryOps /\ Lone(a)

Lose(op, a) ==
  \/ op = "VAR_POINC" /\ TypeOf(heap, a) = "short"
  \/ op = "REMOVE" /\ TypeOf(heap, a) = "vec"
  \/ op = "COPY" /\ TypeOf(heap, a) \in {"vec", "struct"}
  \/ op = "CALL_FUNC" /\ TypeOf(heap, a) # "vec"
  \/ op \in {"MEMBER_INC", "MEMBER_POINC"} /\ TypeOf(heap, a) \notin Compounds
  \/ op = "MEMBER_POINC" /\ TypeOf(heap, a) = "struct"
  \/ op = "MEMBER_IP" /\ TypeOf(heap, a) = "union"

KeepsTypes(h, vs) ==
  \A n \in Names : vars[n] # Unset /\ vs[n] # Unset => TypeOf(h, vs[n]) = TypeOf(heap, vars[n])

\* What each step of the model is shown to do.
Outcome ==
  /\ blame' = NoBlame => /\ Shaped(heap') /\ Exact(heap', stack', vars')
                         /\ stack' \in Stacks /\ vars' \in Scopes /\ KeepsTypes(heap', vars')
  /\ NoneFreedEarly'
  /\ NoneLost'

\* An end is what is to be shown when the counts at the end are.
LEMMA LeaveOutcome ==
  ASSUME NEW op, NEW a, NEW h, NEW s, NEW vs, NEW st, Leave(op, a, h, s, vs, st), op # "none",
         Exact(h, s, vs) => Shaped(h) /\ s \in Stacks /\ vs \in Scopes /\ KeepsTypes(h, vs),
         FreedEarly(h, s, vs) => Temp(op, a) \/ op = "BIT_AND",
         Kept(h, s, vs) => Lose(op, a)
  PROVE  Outcome
<1>1. /\ heap' = h /\ stack' = s /\ vars' = vs
      /\ blame' = IF Exact(h, s, vs) /\ st \in {"runs", "ended"} THEN NoBlame ELSE Blame(op, a)
  BY DEF Leave
<1> DEFINE x == Blame(op, a)
<1>2. x.op = op /\ x.type = TypeOf(heap, a) /\ x.ref = IF a \in Ids THEN heap.o[a].ref ELSE 0
  BY DEF Blame
<1>3. x # NoBlame
  BY <1>2 DEF NoBlame
<1> HIDE DEF x
<1>4. blame' = NoBlame => Exact(h, s, vs)
  BY <1>1, <1>3 DEF x
<1>5. blame' # NoBlame => blame' = x
  BY <1>1 DEF x
<1>6. NoneFreedEarly'
  <2> SUFFICES ASSUME blame' # NoBlame, FreedEarly(h, s, vs) PROVE (Temporary \/ blame.op = "BIT_AND")'
    BY <1>1 DEF NoneFreedEarly
  <2>1. blame' = x /\ (Temp(op, a) \/ op = "BIT_AND")
    BY <1>5
  <2>2. CASE op = "BIT_AND"
    BY <1>2, <2>1, <2>2
  <2>3. CASE Temp(op, a)
    <3>1. x.ref = 1 /\ x.op \in TemporaryOps
      BY <1>2, <2>3 DEF Temp, Lone
    <3> QED BY <2>1, <3>1 DEF Temporary, TemporaryOps
  <2> QED BY <2>1, <2>2, <2>3
<1>7. NoneLost'
  <2> SUFFICES ASSUME blame' # NoBlame, Kept(h, s, vs), ~NoneLost' PROVE FALSE
    BY <1>1 DEF NoneLost
  <2>1. blame' = x /\ Lose(op, a)
    BY <1>5
  <2> QED BY <1>1, <1>2, <2>1 DEF NoneLost, Lose
<1>8. blame' = NoBlame => /\ Shaped(heap') /\ Exact(heap', stack', vars')
                          /\ stack' \in Stacks /\ vars' \in Scopes /\ KeepsTypes(heap', vars')
  BY <1>1, <1>4
<1> QED BY <1>6, <1>7, <1>8 DEF Outcome

\* The references at the end: each is in hand, and unless an opcode is one that
\* loses some, no other and every object has one.
Covers(op, a, c, d, F, s, vs) ==
  /\ \A i \in Ids : Times(i, s) + VarTimes(i, vs, Names) <= c[i] + d[i]
  /\ Lose(op, a) \/ (F \cap Ids = {} /\ \A i \in Ids : Times(i, s) + VarTimes(i, vs, Names) = c[i] + d[i])

\* With Covers, no count is too low at the end, and none too high but where NoneLost allows it.
LEMMA EndsCounts ==
  ASSUME NEW op, NEW a, NEW h, NEW s \in Stacks, NEW vs, NEW c, NEW d, NEW F, Owns(h, c, d, F), Covers(op, a, c, d, F, s, vs)
  PROVE  /\ \A i \in Ids : Holders(h, s, vs, i) \in Nat /\ ~(h.o[i].ref < Holders(h, s, vs, i))
         /\ Lose(op, a) \/ \A i \in Ids : Live(h, i) => h.o[i].ref = Holders(h, s, vs, i) /\ Holders(h, s, vs, i) # 0
<1>1. ASSUME NEW i \in Ids
      PROVE  /\ Holders(h, s, vs, i) \in Nat /\ ~(h.o[i].ref < Holders(h, s, vs, i))
             /\ Lose(op, a) \/ (Live(h, i) => h.o[i].ref = Holders(h, s, vs, i) /\ Holders(h, s, vs, i) # 0)
  <2> DEFINE t == Times(i, s)
             v == VarTimes(i, vs, Names)
             n == Holders(h, s, vs, i)
             q == Held(h, i)
             r == h.o[i].ref
             x == c[i]
             y == d[i]
  <2>1. /\ x \in Nat /\ y \in Nat /\ q \in Nat /\ r = q + x + y /\ (i \in F <=> Live(h, i) /\ r = 0)
    BY OwnsAt
  <2>2. t \in Nat /\ v \in Nat
    BY TimesIsTo, VarTimesType DEF Stacks
  <2>3. n = t + v + q
    BY HoldersAre
  <2>4. t + v <= x + y /\ (Lose(op, a) \/ (i \notin F /\ t + v = x + y))
    BY DEF Covers
  <2> HIDE DEF t, v, n, q, r, x, y
  <2>5. n \in Nat /\ ~(r < n)
    BY <2>1, <2>2, <2>3, <2>4
  <2>6. Lose(op, a) \/ (Live(h, i) => r = n /\ n # 0)
    BY <2>1, <2>2, <2>3, <2>4
  <2> QED BY <2>5, <2>6 DEF n, r
<1> QED BY <1>1

\* So an opcode is right that ends with Covers.
LEMMA Ends ==
  ASSUME NEW op, NEW a, NEW h, NEW s \in Stacks, NEW vs \in Scopes, NEW st, Leave(op, a, h, s, vs, st), op # "none",
         NEW c, NEW d, NEW F, Owns(h, c, d, F), KeepsTypes(h, vs),
         Covers(op, a, c, d, F, s, vs), h.wild => Temp(op, a)
  PROVE  Outcome
<1>1. Shaped(h)
  BY DEF Owns
<1>c. /\ \A i \in Ids : Holders(h, s, vs, i) \in Nat /\ ~(h.o[i].ref < Holders(h, s, vs, i))
      /\ Lose(op, a) \/ \A i \in Ids : Live(h, i) => h.o[i].ref = Holders(h, s, vs, i) /\ Holders(h, s, vs, i) # 0
  BY EndsCounts
<1>2. FreedEarly(h, s, vs) => Temp(op, a)
  BY <1>c DEF FreedEarly
<1>3. Kept(h, s, vs) => Lose(op, a)
  <2> SUFFICES ASSUME ~Lose(op, a), Kept(h, s, vs) PROVE FALSE
    OBVIOUS
  <2>1. PICK i \in Ids : Live(h, i) /\ (h.o[i].ref > Holders(h, s, vs, i) \/ Holders(h, s, vs, i) = 0)
    BY DEF Kept
  <2>2. h.o[i].ref = Holders(h, s, vs, i) /\ Holders(h, s, vs, i) # 0 /\ Holders(h, s, vs, i) \in Nat
    BY <1>c, <2>1
  <2> QED BY <2>1, <2>2
<1> QED BY <1>1, <1>2, <1>3, LeaveOutcome

\* A freed object is pushed.
LEMMA EndsDead ==
  ASSUME NEW op, NEW a, NEW g, NEW s \in Stacks, NEW v \in Ids, NEW vs, NEW st,
         Leave(op, a, object_ref(g, v), Append(s, v), vs, st), op # "none",
         NEW c, NEW d, NEW F, Owns(g, c, d, F), Covers(op, a, c, d, F, s, vs), ~Live(g, v), Temp(op, a)
  PROVE  Outcome
<1> DEFINE h == object_ref(g, v)
           x == Touch(g, v)
<1>0. g \in Heaps /\ v \in Places
  BY DEF Owns, Shaped, Places
<1>1. x \in Heaps /\ x.o = g.o /\ x.wild
  BY <1>0, TouchIs
<1>2. h = SetRef(x, v, x.o[v].ref + 1)
  BY DEF object_ref, SetRef
<1>3. x.o[v].ref + 1 = 1
  BY <1>0, <1>1 DEF Owns, Shaped, NoObject
<1> HIDE DEF x
<1>4. /\ h.wild /\ \A j \in Places : /\ h.o[j].type = g.o[j].type /\ h.o[j].slots = g.o[j].slots
                                     /\ j # v => h.o[j] = g.o[j]
  <2>1. h = SetRef(x, v, 1)
    BY <1>2, <1>3
  <2> HIDE DEF h
  <2>2. /\ SetRef(x, v, 1).wild = x.wild
        /\ \A j \in Places : /\ SetRef(x, v, 1).o[j].type = x.o[j].type
                             /\ SetRef(x, v, 1).o[j].slots = x.o[j].slots
                             /\ j # v => SetRef(x, v, 1).o[j] = x.o[j]
    <3>1. x \in Heaps /\ v \in Places
      BY <1>0, <1>1
    <3>2. 1 \in Nat
      OBVIOUS
    <3> QED BY <3>1, <3>2, SetRefIs
  <2> QED BY <1>1, <2>1, <2>2
<1> HIDE DEF h
<1>5. ~Exact(h, Append(s, v), vs)
  BY <1>4 DEF Exact
<1>6. Kept(h, Append(s, v), vs) => Lose(op, a)
  <2> SUFFICES ASSUME ~Lose(op, a), Kept(h, Append(s, v), vs) PROVE FALSE
    OBVIOUS
  <2>1. PICK i \in Ids : Live(h, i) /\ (h.o[i].ref > Holders(h, Append(s, v), vs, i) \/ Holders(h, Append(s, v), vs, i) = 0)
    BY DEF Kept
  <2>2. i \in Places /\ i # v /\ Live(g, i) /\ h.o[i] = g.o[i]
    BY <1>4, <2>1 DEF Live, Places
  <2>3. Held(h, i) = Held(g, i)
    BY <1>4, HeldSame DEF Slots
  <2>4. Times(i, Append(s, v)) = Times(i, s)
    <3>1. Times(i, Append(s, v)) = Times(i, s) + One(v, i) /\ Times(i, s) \in Nat
      <4>1. s \in Seq(Vals) /\ v \in Vals
        BY <1>0 DEF Stacks, Vals
      <4> QED BY <4>1, TimesAppend, TimesIsTo
    <3> QED BY <2>2, <3>1 DEF One
  <2>5. Holders(h, Append(s, v), vs, i) = Holders(g, s, vs, i)
    BY <2>3, <2>4, HoldersAre
  <2>6. g.o[i].ref = Holders(g, s, vs, i) /\ Holders(g, s, vs, i) # 0 /\ Holders(g, s, vs, i) \in Nat
    BY <2>2, EndsCounts
  <2> QED BY <2>1, <2>2, <2>5, <2>6
<1>7. Leave(op, a, h, Append(s, v), vs, st)
  BY DEF h
<1> QED BY <1>5, <1>6, <1>7, LeaveOutcome

-----------------------------------------------------------------------------
(* Variables that stay as they are.                                         *)

LEMMA VarSome ==
  ASSUME NEW ns \in SUBSET Names, NEW n \in ns
  PROVE  VarTimes(vars[n], vars, ns) > 0
<1> DEFINE S == {m \in ns : vars[m] = vars[n]}
<1>1. IsFiniteSet(S) /\ Cardinality(S) \in Nat /\ Cardinality(S) = VarTimes(vars[n], vars, ns)
  BY VarTimesType DEF VarTimes
<1>2. n \in S
  OBVIOUS
<1> HIDE DEF S
<1>3. Cardinality(S) # 0
  BY <1>1, <1>2, FS_EmptySet
<1> QED BY <1>1, <1>3

\* A variable whose references are counted holds what it did.
LEMMA VarStays ==
  ASSUME Good, NEW h, NEW c, NEW d, NEW F, Owns(h, c, d, F), NEW n \in Names, vars[n] # Unset,
         vars[n] \in Ids => c[vars[n]] > 0
  PROVE  TypeOf(h, vars[n]) = TypeOf(heap, vars[n]) /\ Usable(h, vars[n]) /\ vars[n] \in Vals
<1>1. vars[n] \in Vals
  BY DEF Good, Scopes
<1>2. CASE vars[n] \in Ids
  BY <1>1, <1>2, OwnsAt, HandUsable
<1>3. CASE vars[n] = Literal
  <2>1. Shaped(h) /\ Shaped(heap) /\ Literal \in Places /\ Literal \notin Ids
    BY Apart DEF Owns, Good, Places
  <2>2. TypeOf(h, Literal) = h.o[Literal].type /\ TypeOf(heap, Literal) = heap.o[Literal].type
    BY <2>1, TypeOfId
  <2> QED BY <1>1, <1>3, <2>1, <2>2 DEF Shaped, Usable
<1>4. CASE vars[n] \in Consts
  BY <1>1, <1>4, Apart DEF TypeOf, Usable
<1> QED BY <1>1, <1>2, <1>3, <1>4 DEF Vals, Places

LEMMA VarsStay ==
  ASSUME Good, NEW h, NEW d, NEW F, Owns(h, VT, d, F)
  PROVE  /\ KeepsTypes(h, vars)
         /\ \A n \in Names : vars[n] # Unset =>
              TypeOf(h, vars[n]) = TypeOf(heap, vars[n]) /\ Usable(h, vars[n]) /\ vars[n] \in Vals
<1>1. ASSUME NEW n \in Names, vars[n] # Unset
      PROVE  TypeOf(h, vars[n]) = TypeOf(heap, vars[n]) /\ Usable(h, vars[n]) /\ vars[n] \in Vals
  <2>1. vars[n] \in Ids => VT[vars[n]] > 0
    <3>1. VarTimes(vars[n], vars, Names) > 0
      BY VarSome
    <3> QED BY <3>1, HandsAre
  <2> QED BY <1>1, <2>1, VarStays
<1> QED BY <1>1 DEF KeepsTypes

\* An opcode ends with the variables unchanged and the stack s.
Hands(op, a, d, F, s) ==
  /\ \A i \in Ids : Times(i, s) <= d[i]
  /\ Lose(op, a) \/ (F \cap Ids = {} /\ \A i \in Ids : Times(i, s) = d[i])

\* With Hands, Covers.
LEMMA HandsCover ==
  ASSUME NEW op, NEW a, NEW h, NEW d, NEW F, NEW s \in Stacks, Owns(h, VT, d, F), Hands(op, a, d, F, s)
  PROVE  Covers(op, a, VT, d, F, s, vars)
<1>1. ASSUME NEW i \in Ids PROVE Times(i, s) \in Nat /\ VT[i] = VarTimes(i, vars, Names) /\ VT[i] \in Nat /\ d[i] \in Nat
  BY TimesIsTo, HandsAre, OwnsAt DEF Stacks
<1>2. \A i \in Ids : Times(i, s) + VarTimes(i, vars, Names) <= VT[i] + d[i]
  <2>1. ASSUME NEW i \in Ids PROVE Times(i, s) + VarTimes(i, vars, Names) <= VT[i] + d[i]
    BY <1>1 DEF Hands
  <2> QED BY <2>1
<1>3. ASSUME ~Lose(op, a) PROVE F \cap Ids = {} /\ \A i \in Ids : Times(i, s) + VarTimes(i, vars, Names) = VT[i] + d[i]
  <2>1. ASSUME NEW i \in Ids PROVE Times(i, s) + VarTimes(i, vars, Names) = VT[i] + d[i]
    BY <1>1, <1>3 DEF Hands
  <2> QED BY <1>3, <2>1 DEF Hands
<1> QED BY <1>2, <1>3 DEF Covers

\* An opcode that goes on with the same variables is right.
LEMMA Goes ==
  ASSUME Good, NEW op, NEW a, NEW h, NEW s \in Stacks, NEW st, Leave(op, a, h, s, vars, st), op # "none",
         NEW d, NEW F, Owns(h, VT, d, F), Hands(op, a, d, F, s), h.wild => Temp(op, a)
  PROVE  Outcome
<1>1. Covers(op, a, VT, d, F, s, vars) /\ KeepsTypes(h, vars) /\ vars \in Scopes
  BY HandsCover, VarsStay DEF Good
<1> QED BY <1>1, Ends

\* The value pushed is counted; it may be gone only where the property says so.
LEMMA Pushes ==
  ASSUME Good, NEW op, NEW a, NEW g, NEW s \in Stacks, NEW v \in Vals, NEW st,
         Leave(op, a, object_ref(g, v), Append(s, v), vars, st), op # "none",
         NEW d, NEW F, Owns(g, VT, d, F), Hands(op, a, d, F \ {v}, s), g.wild => Temp(op, a),
         Usable(g, v) \/ Temp(op, a)
  PROVE  Outcome
<1>1. s \in Seq(Vals) /\ Append(s, v) \in Stacks /\ d \in [Ids -> Nat]
  BY DEF Stacks, Owns
<1>2. CASE Usable(g, v)
  <2> DEFINE h == object_ref(g, v)
             x == Plus(d, v)
  <2>1. x \in [Ids -> Nat] /\ \A i \in Ids : x[i] = d[i] + One(v, i)
    BY <1>1, PlusIs
  <2> HIDE DEF x
  <2>2. Referred(g, h, VT, x, F \ {v})
    <3>1. Gives(x, d, v)
      BY <2>1 DEF Gives
    <3> QED BY <1>2, <2>1, <3>1, AddRef
  <2>3. Owns(h, VT, x, F \ {v}) /\ h.wild = g.wild
    BY <2>2 DEF Referred
  <2> HIDE DEF h
  <2>4. ASSUME NEW i \in Ids PROVE /\ Times(i, Append(s, v)) = Times(i, s) + One(v, i) /\ Times(i, s) \in Nat
                                   /\ One(v, i) \in Nat /\ d[i] \in Nat
    BY <1>1, TimesAppend, TimesIsTo DEF One
  <2>5. \A i \in Ids : Times(i, Append(s, v)) <= x[i]
    <3>1. ASSUME NEW i \in Ids PROVE Times(i, Append(s, v)) <= x[i]
      BY <2>1, <2>4 DEF Hands
    <3> QED BY <3>1
  <2>6. ASSUME ~Lose(op, a) PROVE (F \ {v}) \cap Ids = {} /\ \A i \in Ids : Times(i, Append(s, v)) = x[i]
    <3>1. ASSUME NEW i \in Ids PROVE Times(i, Append(s, v)) = x[i]
      BY <2>1, <2>4, <2>6 DEF Hands
    <3> QED BY <2>6, <3>1 DEF Hands
  <2>7. Hands(op, a, x, F \ {v}, Append(s, v))
    BY <2>5, <2>6 DEF Hands
  <2>8. Leave(op, a, h, Append(s, v), vars, st)
    BY DEF h
  <2> QED BY <1>1, <2>3, <2>7, <2>8, Goes
<1>3. CASE ~Usable(g, v)
  <2>1. v \in Ids /\ ~Live(g, v) /\ Temp(op, a)
    BY <1>3 DEF Usable
  <2>2. v \notin F
    BY <2>1, OwnsAt
  <2>3. Hands(op, a, d, F, s)
    BY <2>2 DEF Hands
  <2>4. Covers(op, a, VT, d, F, s, vars)
    BY <2>3, HandsCover
  <2> QED BY <2>1, <2>4, EndsDead
<1> QED BY <1>2, <1>3

\* The variables of a block go.
LEMMA Unwinds ==
  ASSUME Good, NEW op, NEW a, NEW h, NEW st, NEW gone \in SUBSET Names,
         Leave(op, a, UnrefAll(h, Values(gone)), <<>>, Without(gone), st), op # "none",
         NEW x \in [Ids -> Nat], NEW F, Owns(h, VT, x, F),
         Lose(op, a) \/ (F \cap Ids = {} /\ \A i \in Ids : x[i] = 0),
         h.wild => Temp(op, a)
  PROVE  Outcome
<1> DEFINE c == [i \in Ids |-> VarTimes(i, vars, Names \ gone)]
           z == [i \in Ids |-> VarTimes(i, vars, gone)]
           y == [i \in Ids |-> x[i] + z[i]]
           g == UnrefAll(h, Values(gone))
           vs == Without(gone)
<1>0. vars \in [Names -> Vals \cup {Unset}]
  BY DEF Good, Scopes
<1>1. ASSUME NEW i \in Ids
      PROVE  /\ VarTimes(i, vars, Names \ gone) \in Nat /\ VarTimes(i, vars, gone) \in Nat
             /\ VT[i] = VarTimes(i, vars, gone) + VarTimes(i, vars, Names \ gone)
  <2>1. Names \ gone \in SUBSET Names /\ Names \in SUBSET Names
    OBVIOUS
  <2>2. VarTimes(i, vars, Names \ gone) \in Nat /\ VarTimes(i, vars, gone) \in Nat
    BY <2>1, VarTimesType
  <2>3. VarTimes(i, vars, Names) = VarTimes(i, vars, gone) + VarTimes(i, vars, Names \ gone)
    BY <2>1, VarTimesSplit
  <2> QED BY <2>2, <2>3, HandsAre
<1>2. /\ c \in [Ids -> Nat] /\ z \in [Ids -> Nat] /\ y \in [Ids -> Nat]
      /\ \A i \in Ids : VT[i] = z[i] + c[i] /\ y[i] = x[i] + z[i]
  <2>1. c \in [Ids -> Nat] /\ z \in [Ids -> Nat] /\ \A i \in Ids : VT[i] = z[i] + c[i]
    BY <1>1
  <2> HIDE DEF c, z
  <2> QED BY <2>1
<1>3. /\ Values(gone) \in Seq(Vals)
      /\ \A i \in Ids : Times(i, Values(gone)) = z[i]
  BY <1>0, ValuesAre DEF Vals, Places
<1>4. /\ vs \in Scopes
      /\ \A i \in Ids : VarTimes(i, vs, Names) = c[i]
  BY <1>0, WithoutAre DEF Vals, Places, Scopes
<1>5. \A n \in Names : vars[n] # Unset /\ vs[n] # Unset => vs[n] = vars[n] /\ (vars[n] \in Ids => c[vars[n]] > 0)
  <2>1. ASSUME NEW n \in Names, vs[n] # Unset PROVE vs[n] = vars[n] /\ (vars[n] \in Ids => c[vars[n]] > 0)
    <3>1. n \in Names \ gone /\ vs[n] = vars[n]
      BY <2>1 DEF Without
    <3>2. VarTimes(vars[n], vars, Names \ gone) > 0
      <4>1. Names \ gone \in SUBSET Names
        OBVIOUS
      <4> QED BY <3>1, <4>1, VarSome
    <3> QED BY <3>1, <3>2
  <2> QED BY <2>1
<1> HIDE DEF c, z, y
<1>6. Owns(h, c, y, F)
  <2>1. \A i \in Ids : c[i] <= VT[i] /\ c[i] + y[i] = VT[i] + x[i]
    <3>1. ASSUME NEW i \in Ids PROVE c[i] <= VT[i] /\ c[i] + y[i] = VT[i] + x[i]
      <4>1. c[i] \in Nat /\ x[i] \in Nat /\ z[i] \in Nat /\ VT[i] = z[i] + c[i] /\ y[i] = x[i] + z[i]
        BY <1>2
      <4> QED BY <4>1
    <3> QED BY <3>1
  <2>2. Moves(VT, x, c, y)
    BY <2>1 DEF Moves
  <2> QED BY <1>2, <2>2, Resplit
<1>7. GivesAll(y, x, Values(gone))
  BY <1>2, <1>3 DEF GivesAll
<1>8. Owns(g, c, x, F) /\ g.wild = h.wild
  BY <1>3, <1>6, <1>7, UnrefAllOwns
<1>9. Leave(op, a, g, <<>>, vs, st)
  OBVIOUS
<1> HIDE DEF g, vs
<1>10. KeepsTypes(g, vs)
  <2>1. ASSUME NEW n \in Names, vars[n] # Unset, vs[n] # Unset PROVE TypeOf(g, vs[n]) = TypeOf(heap, vars[n])
    BY <1>5, <1>8, <2>1, VarStays
  <2> QED BY <2>1 DEF KeepsTypes
<1>11. ASSUME NEW i \in Ids PROVE Times(i, <<>>) + VarTimes(i, vs, Names) = c[i]
  <2>1. Times(i, <<>>) = 0 /\ c[i] \in Nat
    BY <1>2, TimesShort
  <2> QED BY <1>4, <2>1
<1>12. Covers(op, a, c, x, F, <<>>, vs)
  BY <1>2, <1>11 DEF Covers
<1>13. <<>> \in Stacks
  BY DEF Stacks
<1> QED BY <1>4, <1>8, <1>9, <1>10, <1>12, <1>13, Ends

\* And so is one that fails: the exception lets go of the stack and of a block's variables.
LEMMA Fails ==
  ASSUME Good, NEW op, NEW a, NEW h, NEW s \in Stacks, NEW st, HANDLE_EXCEPTION(op, a, h, s, st), op # "none",
         NEW d, NEW F, Owns(h, VT, d, F), Hands(op, a, d, F, s), h.wild => Temp(op, a)
  PROVE  Outcome
<1> DEFINE x == [i \in Ids |-> d[i] - Times(i, s)]
           g == UnrefAll(h, s)
           gone == IF inTry THEN Inner ELSE Names
<1>1. ASSUME NEW i \in Ids PROVE d[i] \in Nat /\ Times(i, s) \in Nat /\ Times(i, s) <= d[i]
  BY OwnsAt, TimesIsTo DEF Stacks, Hands
<1>2. x \in [Ids -> Nat] /\ \A i \in Ids : d[i] = x[i] + Times(i, s)
  BY <1>1
<1>3. Lose(op, a) \/ (F \cap Ids = {} /\ \A i \in Ids : x[i] = 0)
  BY <1>1 DEF Hands
<1> HIDE DEF x
<1>4. Owns(g, VT, x, F) /\ g.wild = h.wild
  <2>1. GivesAll(d, x, s)
    BY <1>2 DEF GivesAll
  <2> QED BY <1>2, <2>1, UnrefAllOwns DEF Stacks
<1>5. gone \in SUBSET Names
  BY DEF Names
<1>6. Leave(op, a, UnrefAll(g, Values(gone)), <<>>, Without(gone), st)
  BY DEF HANDLE_EXCEPTION
<1> HIDE DEF g, gone
<1> QED BY <1>2, <1>3, <1>4, <1>5, <1>6, Unwinds

\* So is an opcode that fails, whether it has reported an error or not.
LEMMA FailedEnds ==
  ASSUME Good, NEW op, NEW a, NEW h, NEW s \in Stacks, Failed(op, a, h, s) \/ FailedQuietly(op, a, h, s), op # "none",
         NEW d, NEW F, Owns(h, VT, d, F), Hands(op, a, d, F, s), h.wild => Temp(op, a)
  PROVE  Outcome
<1>1. CASE Failed(op, a, h, s)
  BY <1>1, Fails DEF Failed
<1>2. CASE FailedQuietly(op, a, h, s)
  BY <1>2, Fails DEF FailedQuietly
<1> QED BY <1>1, <1>2

\* The references are those of the stack that is left.
LEMMA StackHands ==
  ASSUME NEW op, NEW a, NEW F, F \cap Ids = {} \/ Lose(op, a), NEW s \in Stacks
  PROVE  Hands(op, a, ST(s), F, s)
<1>1. \A i \in Ids : ST(s)[i] = Times(i, s) /\ Times(i, s) \in Nat
  BY TimesIsTo DEF ST, Stacks
<1> QED BY <1>1 DEF Hands

-----------------------------------------------------------------------------
(* Members.                                                                 *)

\* The fields of the struct and the union.
LEMMA FieldsAre ==
  /\ DOMAIN StructField = {"n", "c"} /\ StructField["n"] = 1 /\ StructField["c"] = 2
  /\ DOMAIN UnionField = {"n", "d"} /\ UnionField["n"] = "int" /\ UnionField["d"] = "double"
BY DEF StructField, UnionField

\* What get_member gives: NULL, the struct's own member, or a new number.
Member(h, b, e, F, a, f, r) ==
  \/ r = Got(h, NULL)
  \/ /\ TypeOf(h, a) = "struct" /\ r.h = h /\ f \in DOMAIN StructField
     /\ StructField[f] \in DOMAIN Slots(h, a) /\ r.v = Slots(h, a)[StructField[f]]
  \/ /\ TypeOf(h, a) = "union" /\ f \in DOMAIN UnionField /\ Made(h, b, e, F, r)
     /\ r.v # NULL => TypeOf(r.h, r.v) = UnionField[f]

\* The members of a struct and of a union.
LEMMA StructSlots ==
  ASSUME NEW h, NEW b, NEW e, NEW F, Owns(h, b, e, F), NEW a \in Vals, TypeOf(h, a) = "struct",
         NEW f \in DOMAIN StructField
  PROVE  /\ a \in Places /\ Usable(h, a) /\ h.o[a].type = "struct"
         /\ StructField[f] \in DOMAIN Slots(h, a) /\ (StructField[f] = 1 => TypeOf(h, Slots(h, a)[StructField[f]]) = "int")
<1>1. a \in Places /\ Usable(h, a) /\ h.o[a].type = "struct"
  BY TypedUsable DEF Types, NumberTypes, Compounds
<1>2. Len(Slots(h, a)) = 2 /\ TypeOf(h, Slots(h, a)[1]) = "int"
  BY <1>1 DEF Owns, Shaped, Fits, Slots
<1>3. DOMAIN Slots(h, a) = 1 .. Len(Slots(h, a))
  <2>1. h \in Heaps
    BY DEF Owns, Shaped
  <2> QED BY <1>1, <2>1, HeapIs DEF Slots
<1>4. StructField[f] = 1 \/ StructField[f] = 2
  BY FieldsAre
<1> QED BY <1>1, <1>2, <1>3, <1>4

LEMMA UnionSlots ==
  ASSUME NEW h, NEW b, NEW e, NEW F, Owns(h, b, e, F), NEW a \in Vals, TypeOf(h, a) = "union"
  PROVE  /\ a \in Places /\ Usable(h, a) /\ h.o[a].type = "union" /\ Slots(h, a) \in Seq(Vals)
         /\ Slots(h, a) = <<>> \/ 1 \in DOMAIN Slots(h, a)
<1>1. a \in Places /\ Usable(h, a) /\ h.o[a].type = "union"
  BY TypedUsable DEF Types, NumberTypes, Compounds
<1>2. Slots(h, a) \in Seq(Vals)
  <2>1. h \in Heaps
    BY DEF Owns, Shaped
  <2> QED BY <1>1, <2>1, HeapIs DEF Slots
<1>3. Slots(h, a) = <<>> \/ 1 \in DOMAIN Slots(h, a)
  BY <1>2
<1> QED BY <1>1, <1>2, <1>3

\* get_member gives a Member.
LEMMA MemberMade ==
  ASSUME NEW h, NEW b, NEW e, NEW F, Owns(h, b, e, F), NEW a \in Vals, Usable(h, a), NEW f \in Fields,
         NEW r \in get_member(h, a, f)
  PROVE  Member(h, b, e, F, a, f, r)
<1>1. CASE TypeOf(h, a) = "struct"
  <2>1. r \in structobject_get_member(h, a, f)
    BY <1>1 DEF get_member
  <2>2. CASE f \in DOMAIN StructField
    <3>1. r = Got(h, Slots(h, a)[StructField[f]])
      BY <2>1, <2>2 DEF structobject_get_member
    <3>2. StructField[f] \in DOMAIN Slots(h, a)
      BY <1>1, <2>2, StructSlots
    <3> QED BY <1>1, <2>2, <3>1, <3>2 DEF Member, Got
  <2>3. CASE f \notin DOMAIN StructField
    BY <2>1, <2>3 DEF structobject_get_member, Nothing, Member
  <2> QED BY <2>2, <2>3
<1>2. CASE TypeOf(h, a) = "union"
  <2>1. r \in unionobject_get_member(h, a, f)
    BY <1>2 DEF get_member
  <2>2. CASE f \notin DOMAIN UnionField
    BY <2>1, <2>2 DEF unionobject_get_member, Nothing, Member
  <2>3. CASE f \in DOMAIN UnionField /\ Slots(h, a) = <<>>
    <3>1. r \in object_get_default(h, UnionField[f])
      BY <2>1, <2>3 DEF unionobject_get_member
    <3>2. UnionField[f] \in NumberTypes /\ UnionField[f] \in Types
      BY <2>3, FieldsAre DEF NumberTypes, Types
    <3>3. /\ Owns(r.h, b, e, F \cup {r.v}) /\ r.h.wild = h.wild /\ Grows(h, r.h)
          /\ r.v # NULL => Usable(r.h, r.v) /\ TypeOf(r.h, r.v) = UnionField[f]
          /\ r.v \in Ids => ~Live(h, r.v)
      BY <3>1, <3>2, DefaultOwns
    <3>4. Made(h, b, e, F, r)
      BY <3>2, <3>3 DEF Made
    <3> QED BY <1>2, <2>3, <3>3, <3>4 DEF Member
  <2>4. CASE f \in DOMAIN UnionField /\ Slots(h, a) # <<>>
    <3>1. r \in object_cast(h, Slots(h, a)[1], UnionField[f])
      BY <2>1, <2>4 DEF unionobject_get_member
    <3>2. Usable(h, Slots(h, a)[1])
      BY <1>2, <2>4, UnionSlots, SlotUsable
    <3>3. Made(h, b, e, F, r) /\ (r.v # NULL => TypeOf(r.h, r.v) = UnionField[f])
      BY <3>1, <3>2, CastMade
    <3> QED BY <1>2, <2>4, <3>3 DEF Member
  <2> QED BY <2>2, <2>3, <2>4
<1>3. CASE TypeOf(h, a) # "struct" /\ TypeOf(h, a) # "union"
  <2>1. r = Got(Touch(h, a), NULL)
    BY <1>3 DEF get_member, Nothing
  <2> QED BY <2>1, UsableTouch DEF Member
<1> QED BY <1>1, <1>2, <1>3

\* A member that was stored, as v or converted, or NULL.
MemberStored(h, r, b, e, F, a) ==
  /\ r.v = NULL => Owns(r.h, b, e, F) /\ (Usable(h, a) => r.h.wild = h.wild) /\ (h.wild => r.h.wild)
  /\ r.v # NULL => /\ Owns(r.h, b, e, F \ {r.v}) /\ r.h.wild = h.wild /\ Usable(h, a) /\ r.v \in Vals
                   /\ TypeOf(h, a) \in Compounds
                   /\ Usable(r.h, a) => HasElement(r.h, a, r.v)

\* A struct counts the new member and lets go of the old one.
LEMMA StructStored ==
  ASSUME NEW h, NEW b, NEW e, NEW F, Owns(h, b, e, F), NEW a \in Vals, TypeOf(h, a) = "struct",
         NEW f \in DOMAIN StructField, NEW x, NEW G, Owns(x.h, b, e, G), \A i \in Ids : i # x.v => (i \in F <=> i \in G),
         x.h.wild = h.wild, Grows(h, x.h), Usable(x.h, x.v), x.v # NULL,
         TypeOf(x.h, x.v) \in NumberTypes \cup {"null"},
         StructField[f] = 1 => TypeOf(x.h, x.v) = "int",
         NEW r, r = Got(object_unref(object_ref([x.h EXCEPT !.o[a].slots[StructField[f]] = x.v], x.v),
                                     Slots(h, a)[StructField[f]]), x.v)
  PROVE  MemberStored(h, r, b, e, F, a)
<1> DEFINE p == StructField[f]
           k == x.h
           c == x.v
           g == object_unref(object_ref([k EXCEPT !.o[a].slots[p] = c], c), Slots(k, a)[p])
<1>1. a \in Places /\ Usable(h, a) /\ h.o[a].type = "struct" /\ p \in DOMAIN Slots(h, a)
  BY StructSlots
<1>2. Like(h, k, a) /\ Usable(k, a)
  <2>1. Shaped(h)
    BY DEF Owns
  <2> QED BY <1>1, <2>1, GrowsLike
<1>3. Slots(k, a) = Slots(h, a) /\ p \in DOMAIN Slots(k, a)
  BY <1>1, <1>2 DEF Like
<1>4. r.h = g /\ r.v = c /\ c \in Vals
  BY <1>3 DEF Got, Usable
<1> HIDE DEF k, c, p
<1>5. Stored(k, g, b, e, G \ {c}, a, c)
  <2>1. Owns(k, b, e, G) /\ Usable(k, c) /\ TypeOf(k, c) \in NumberTypes \cup {"null"}
    BY DEF k, c
  <2>2. k.o[a].type = "struct" /\ p = 1 => TypeOf(k, c) = "int"
    BY DEF k, c, p
  <2> QED BY <1>1, <1>2, <1>3, <2>1, <2>2, ReplaceOwns
<1> HIDE DEF g
<1>6. Owns(g, b, e, G \ {c}) /\ g.wild = k.wild /\ (Usable(g, a) => HasElement(g, a, c))
  BY <1>5 DEF Stored
<1>7. Owns(g, b, e, F \ {c})
  <2>1. \A i \in Ids : i \in G \ {c} <=> i \in F \ {c}
    BY DEF c
  <2> QED BY <1>6, <2>1, SameF
<1> QED BY <1>1, <1>4, <1>6, <1>7 DEF MemberStored, k, c, Compounds

\* A union lets go of its only member, if it has one.
LEMMA UnionStored ==
  ASSUME NEW h, NEW b, NEW e, NEW F, Owns(h, b, e, F), NEW a \in Vals, TypeOf(h, a) = "union",
         NEW x, NEW G, Owns(x.h, b, e, G), \A i \in Ids : i # x.v => (i \in F <=> i \in G),
         x.h.wild = h.wild, Grows(h, x.h), Usable(x.h, x.v), x.v # NULL,
         TypeOf(x.h, x.v) \in NumberTypes,
         NEW r, r = Got(UnrefAll(object_ref([x.h EXCEPT !.o[a].slots = <<x.v>>], x.v), Slots(h, a)), x.v)
  PROVE  MemberStored(h, r, b, e, F, a)
<1> DEFINE k == x.h
           c == x.v
           old == Slots(h, a)
           s == <<c>>
           m == object_ref(SetSlots(k, a, s), c)
           g == UnrefAll(m, old)
           d == [i \in Ids |-> e[i] + Times(i, old)]
<1>1. a \in Places /\ Usable(h, a) /\ h.o[a].type = "union" /\ old \in Seq(Vals) /\ Shaped(h) /\ e \in [Ids -> Nat]
  <2>1. Shaped(h) /\ e \in [Ids -> Nat]
    BY DEF Owns
  <2> QED BY <2>1, UnionSlots
<1>2. Like(h, k, a) /\ Usable(k, a)
  BY <1>1, GrowsLike
<1>3. Slots(k, a) = old /\ k.o[a].type = "union"
  BY <1>1, <1>2, TypeOfId DEF Like
<1>4. r.h = g /\ r.v = c /\ c \in Vals
  BY DEF Got, Usable, SetSlots
<1>5. s \in Seq(Vals) /\ Len(s) = 1 /\ DOMAIN s = {1} /\ s[1] = c
  BY <1>4
<1>6. /\ d \in [Ids -> Nat] /\ \A i \in Ids : d[i] = e[i] + Times(i, old) /\ e[i] \in Nat /\ Times(i, old) \in Nat
  BY <1>1, TimesIsTo
<1> HIDE DEF d
<1>7. Puts(e, c, Slots(k, a), d, s)
  <2>1. ASSUME NEW i \in Ids PROVE e[i] + One(c, i) + Times(i, Slots(k, a)) = d[i] + Times(i, s)
    <3>1. Times(i, s) = One(c, i) /\ One(c, i) \in Nat
      <4>1. c \in Vals
        BY <1>4
      <4> HIDE DEF c
      <4> QED BY <4>1, TimesShort DEF One
    <3>2. e[i] + One(c, i) + Times(i, old) = d[i] + One(c, i)
      BY <1>6, <3>1
    <3> QED BY <1>3, <3>1, <3>2
  <2> QED BY <2>1 DEF Puts
<1>8. FitsAs(k, k.o[a].type, s)
  <2> DEFINE z == [type |-> "union", ref |-> 0, slots |-> s]
  <2>1. z.type = "union" /\ z.slots = s /\ 1 <= MaxLen + 2 /\ "union" \notin NumberTypes
    BY RefsAssumption DEF NumberTypes
  <2>2. Fits(k, z)
    BY <1>5, <2>1 DEF Fits
  <2> QED BY <1>3, <2>2 DEF FitsAs
<1>9. Owns(k, b, e, G) /\ Usable(k, c)
  OBVIOUS
<1> HIDE DEF s, old
<1>10. PutIn(k, m, b, d, G \ {c}, a, s)
  <2> HIDE DEF k, c, m
  <2>1. PutIn(k, object_ref(SetSlots(k, a, s), c), b, d, G \ {c}, a, s)
    BY <1>1, <1>2, <1>5, <1>6, <1>7, <1>8, <1>9, PutOwns
  <2> QED BY <2>1 DEF m
<1> HIDE DEF k, c, m
<1>11. Owns(m, b, d, G \ {c}) /\ m.wild = k.wild /\ Slots(m, a) = s
  BY <1>10 DEF PutIn
<1>12. Owns(g, b, e, G \ {c}) /\ g.wild = m.wild /\ Same(m, g)
  <2>1. GivesAll(d, e, old)
    BY <1>6 DEF GivesAll
  <2> QED BY <1>1, <1>11, <2>1, UnrefAllOwns
<1> HIDE DEF g
<1>13. Usable(g, a) => HasElement(g, a, c)
  <2> SUFFICES ASSUME Usable(g, a) PROVE HasElement(g, a, c)
    OBVIOUS
  <2>1. Shaped(g)
    BY <1>12 DEF Owns
  <2>2. Slots(g, a) = s
    BY <1>1, <1>11, <1>12, <2>1, SameLike DEF Like
  <2> QED BY <1>5, <2>2 DEF HasElement
<1>14. Owns(g, b, e, F \ {c})
  <2>1. \A i \in Ids : i \in G \ {c} <=> i \in F \ {c}
    BY DEF c
  <2> QED BY <1>12, <2>1, SameF
<1> QED BY <1>1, <1>4, <1>11, <1>12, <1>13, <1>14 DEF MemberStored, k, c, Compounds

\* A number converted before it is stored, F with the result.
CastIs(h, b, e, F, t, x) ==
  /\ x.v = NULL => Owns(x.h, b, e, F)
  /\ x.h.wild = h.wild /\ Grows(h, x.h) /\ Owns(x.h, b, e, F \cup {x.v})
  /\ \A i \in Ids : i # x.v => (i \in F <=> i \in F \cup {x.v})
  /\ x.v # NULL => Usable(x.h, x.v) /\ TypeOf(x.h, x.v) = t /\ t \in NumberTypes

\* A conversion is CastIs.
LEMMA CastReady ==
  ASSUME NEW h, NEW b, NEW e, NEW F, Owns(h, b, e, F), NEW v, Usable(h, v), NEW t, NEW x \in object_cast(h, v, t)
  PROVE  CastIs(h, b, e, F, t, x)
<1>1. Made(h, b, e, F, x) /\ (x.v # NULL => t \in NumberTypes /\ TypeOf(x.h, x.v) = t)
  BY CastMade
<1>2. /\ Owns(x.h, b, e, F \cup {x.v}) /\ x.h.wild = h.wild /\ Grows(h, x.h)
      /\ x.v # NULL => Usable(x.h, x.v)
  BY <1>1 DEF Made
<1>3. x.v = NULL => Owns(x.h, b, e, F)
  <2> SUFFICES ASSUME x.v = NULL PROVE Owns(x.h, b, e, F)
    OBVIOUS
  <2>1. NULL \notin Ids
    BY Apart DEF Vals, Places
  <2>2. \A i \in Ids : i \in F \cup {x.v} <=> i \in F
    BY <2>1
  <2> QED BY <1>2, <2>2, SameF
<1> QED BY <1>1, <1>2, <1>3 DEF CastIs

\* store_member stores a counted value, or does nothing; a union stores what fits as it is.
LEMMA StoreMemberOwns ==
  ASSUME NEW h, NEW b, NEW e, NEW F, Owns(h, b, e, F), NEW a \in Vals, NEW f \in Fields,
         NEW v, Usable(h, v), TypeOf(h, v) \in NumberTypes \cup {"null"}, NEW r \in store_member(h, a, f, v)
  PROVE  /\ MemberStored(h, r, b, e, F, a)
         /\ TypeOf(h, a) = "union" /\ f \in DOMAIN UnionField /\ TypeOf(h, v) = UnionField[f] => r.v = v
<1>0. v # NULL /\ NULL \notin Ids
  BY Apart DEF Usable, Vals, Places
<1>g. /\ Got(h, v).h = h /\ Got(h, v).v = v /\ Grows(h, h) /\ Got(h, NULL).h = h /\ Got(h, NULL).v = NULL
  BY GrowsSelf DEF Got
<1>n. ASSUME r = Got(h, NULL) PROVE MemberStored(h, r, b, e, F, a)
  BY <1>g, <1>n DEF MemberStored
<1>1. CASE TypeOf(h, a) = "struct"
  <2>1. r \in structobject_store_member(h, a, f, v)
    BY <1>1 DEF store_member
  <2>2. CASE f \notin DOMAIN StructField
    BY <1>1, <1>n, <2>1, <2>2 DEF structobject_store_member, Nothing
  <2>3. CASE f \in DOMAIN StructField
    <3> DEFINE p == StructField[f]
               prev == Slots(h, a)[p]
               X == IF prev # "null" /\ TypeOf(h, prev) # TypeOf(h, v)
                    THEN object_cast(h, v, TypeOf(h, prev)) ELSE {Got(h, v)}
    <3>1. PICK x \in X : r = IF x.v = NULL THEN x
               ELSE Got(object_unref(object_ref([x.h EXCEPT !.o[a].slots[p] = x.v], x.v), prev), x.v)
      BY <2>1, <2>3 DEF structobject_store_member
    <3>2. p = 1 => TypeOf(h, prev) = "int" /\ prev # "null"
      <4>1. p = 1 => TypeOf(h, prev) = "int"
        BY <1>1, <2>3, StructSlots
      <4>2. TypeOf(h, "null") = "null"
        BY ConstsAre DEF TypeOf
      <4> QED BY <4>1, <4>2
    <3>3. CASE prev # "null" /\ TypeOf(h, prev) # TypeOf(h, v)
      <4>1. x \in object_cast(h, v, TypeOf(h, prev))
        BY <3>3
      <4>2. /\ x.v = NULL => Owns(x.h, b, e, F)
            /\ x.h.wild = h.wild /\ Grows(h, x.h) /\ Owns(x.h, b, e, F \cup {x.v})
            /\ \A i \in Ids : i # x.v => (i \in F <=> i \in F \cup {x.v})
            /\ x.v # NULL => Usable(x.h, x.v) /\ TypeOf(x.h, x.v) = TypeOf(h, prev) /\ TypeOf(h, prev) \in NumberTypes
        <5>1. CastIs(h, b, e, F, TypeOf(h, prev), x)
          BY <4>1, CastReady
        <5> HIDE DEF X, prev
        <5> QED BY <5>1 DEF CastIs
      <4>3. CASE x.v = NULL
        BY <1>1, <3>1, <4>2, <4>3 DEF MemberStored
      <4>4. CASE x.v # NULL
        <5>1. r = Got(object_unref(object_ref([x.h EXCEPT !.o[a].slots[p] = x.v], x.v), prev), x.v)
          BY <3>1, <4>4
        <5>2. p = 1 => TypeOf(x.h, x.v) = "int"
          BY <3>2, <4>2, <4>4
        <5> HIDE DEF X
        <5>3. MemberStored(h, r, b, e, F, a)
          BY <1>1, <2>3, <4>2, <4>4, <5>1, <5>2, StructStored
        <5> QED BY <1>1, <5>3
      <4> QED BY <4>3, <4>4
    <3>4. CASE ~(prev # "null" /\ TypeOf(h, prev) # TypeOf(h, v))
      <4>1. x = Got(h, v)
        BY <3>4
      <4>2. x.h = h /\ x.v = v
        BY <4>1, <1>g
      <4>3. r = Got(object_unref(object_ref([x.h EXCEPT !.o[a].slots[p] = x.v], x.v), prev), x.v)
        BY <1>0, <3>1, <4>2
      <4>4. p = 1 => TypeOf(x.h, x.v) = "int"
        BY <3>2, <3>4, <4>2
      <4>5. /\ Owns(x.h, b, e, F) /\ x.h.wild = h.wild /\ Grows(h, x.h) /\ Usable(x.h, x.v) /\ x.v # NULL
            /\ TypeOf(x.h, x.v) \in NumberTypes \cup {"null"}
        BY <1>0, <1>g, <4>2
      <4> HIDE DEF X
      <4>6. MemberStored(h, r, b, e, F, a)
        BY <1>1, <2>3, <4>3, <4>4, <4>5, StructStored
      <4> QED BY <1>1, <4>6
    <3> QED BY <3>3, <3>4
  <2> QED BY <2>2, <2>3
<1>2. CASE TypeOf(h, a) = "union"
  <2>1. r \in unionobject_store_member(h, a, f, v)
    BY <1>2 DEF store_member
  <2>2. CASE f \notin DOMAIN UnionField
    BY <1>2, <1>n, <2>1, <2>2 DEF unionobject_store_member, Nothing
  <2>3. CASE f \in DOMAIN UnionField
    <3> DEFINE X == IF TypeOf(h, v) # UnionField[f] THEN object_cast(h, v, UnionField[f]) ELSE {Got(h, v)}
    <3>1. PICK x \in X : r = IF x.v = NULL THEN x
               ELSE Got(UnrefAll(object_ref([x.h EXCEPT !.o[a].slots = <<x.v>>], x.v), Slots(h, a)), x.v)
      BY <2>1, <2>3 DEF unionobject_store_member
    <3>2. UnionField[f] \in NumberTypes
      BY <2>3, FieldsAre DEF NumberTypes
    <3>3. CASE TypeOf(h, v) # UnionField[f]
      <4>1. x \in object_cast(h, v, UnionField[f])
        BY <3>3
      <4>2. /\ x.v = NULL => Owns(x.h, b, e, F)
            /\ x.h.wild = h.wild /\ Grows(h, x.h) /\ Owns(x.h, b, e, F \cup {x.v})
            /\ \A i \in Ids : i # x.v => (i \in F <=> i \in F \cup {x.v})
            /\ x.v # NULL => Usable(x.h, x.v) /\ TypeOf(x.h, x.v) = UnionField[f]
        <5>1. CastIs(h, b, e, F, UnionField[f], x)
          BY <4>1, CastReady
        <5> HIDE DEF X
        <5> QED BY <5>1 DEF CastIs
      <4>3. CASE x.v = NULL
        BY <3>1, <3>3, <4>2, <4>3 DEF MemberStored
      <4>4. CASE x.v # NULL
        <5>1. r = Got(UnrefAll(object_ref([x.h EXCEPT !.o[a].slots = <<x.v>>], x.v), Slots(h, a)), x.v)
          BY <3>1, <4>4
        <5>2. TypeOf(x.h, x.v) \in NumberTypes
          BY <3>2, <4>2, <4>4
        <5> HIDE DEF X
        <5>3. MemberStored(h, r, b, e, F, a)
          BY <1>2, <4>2, <4>4, <5>1, <5>2, UnionStored
        <5> QED BY <3>3, <5>3
      <4> QED BY <4>3, <4>4
    <3>4. CASE TypeOf(h, v) = UnionField[f]
      <4>1. x = Got(h, v)
        BY <3>4
      <4>2. x.h = h /\ x.v = v
        BY <4>1, <1>g
      <4>3. r = Got(UnrefAll(object_ref([x.h EXCEPT !.o[a].slots = <<x.v>>], x.v), Slots(h, a)), x.v)
        BY <1>0, <3>1, <4>2
      <4>5. /\ Owns(x.h, b, e, F) /\ x.h.wild = h.wild /\ Grows(h, x.h) /\ Usable(x.h, x.v) /\ x.v # NULL
            /\ TypeOf(x.h, x.v) \in NumberTypes
        BY <1>0, <1>g, <3>2, <3>4, <4>2
      <4>7. r.v = v
        BY <4>2, <4>3 DEF Got
      <4> HIDE DEF X
      <4>6. MemberStored(h, r, b, e, F, a)
        BY <1>2, <4>3, <4>5, UnionStored
      <4> QED BY <4>6, <4>7
    <3> QED BY <3>3, <3>4
  <2> QED BY <2>2, <2>3
<1>3. CASE TypeOf(h, a) # "struct" /\ TypeOf(h, a) # "union"
  <2> DEFINE g == Touch(h, a)
  <2>1. r = Got(g, NULL)
    BY <1>3 DEF store_member, Nothing
  <2>2. Owns(g, b, e, F) /\ (Usable(h, a) => g = h) /\ (h.wild => g.wild)
    BY OwnsTouch, UsableTouch
  <2> HIDE DEF g
  <2>3. r.h = g /\ r.v = NULL
    BY <2>1 DEF Got
  <2> QED BY <1>3, <2>2, <2>3 DEF MemberStored
<1> QED BY <1>1, <1>2, <1>3

-----------------------------------------------------------------------------
(* Storing in a variable.                                                   *)

LEMMA CastNumber ==
  ASSUME NEW h, NEW b, NEW e, NEW F, Owns(h, b, e, F), NEW v, Usable(h, v), IsNumber(h, v),
         NEW t \in NumberTypes, NEW x \in object_cast(h, v, t)
  PROVE  x.v # NULL
<1>1. x \in Number(h, t)
  <2>1. Touch(h, v) = h
    BY UsableTouch
  <2> QED BY <2>1 DEF object_cast
<1> QED BY <1>1, NumberMade

\* A variable's new value w is in hand, and so is its previous one.
FrameStored(h, e, F, n, v, c) ==
  /\ c.prev = NULL => Owns(c.h, VT, e, F) /\ c.h.wild = h.wild /\ c.vars = vars
  /\ c.prev # NULL =>
       \E w \in Vals : /\ c.prev = vars[n] /\ vars[n] \in Vals /\ c.vars = [vars EXCEPT ![n] = w]
                       /\ Owns(c.h, But(n), Plus(Plus(e, w), vars[n]), F \ {w}) /\ c.h.wild = h.wild
                       /\ TypeOf(c.h, w) = TypeOf(heap, vars[n])
                       /\ TypeOf(h, v) = TypeOf(heap, vars[n]) => w = v
  /\ vars[n] # Unset /\ IsNumber(h, v) /\ TypeOf(heap, vars[n]) \in NumberTypes => c.prev # NULL

\* A variable's reference comes into the hand.
LEMMA MoveVar ==
  ASSUME NEW h, NEW e, NEW F, Owns(h, VT, e, F), NEW n \in Names
  PROVE  Owns(h, But(n), Plus(e, vars[n]), F)
<1>1. e \in [Ids -> Nat]
  BY DEF Owns
<1>2. Plus(e, vars[n]) \in [Ids -> Nat] /\ \A i \in Ids : Plus(e, vars[n])[i] = e[i] + One(vars[n], i)
  BY <1>1, PlusIs
<1>3. But(n) \in [Ids -> Nat]
  BY HandsAre
<1>4. Moves(VT, e, But(n), Plus(e, vars[n]))
  <2>1. ASSUME NEW i \in Ids
        PROVE  But(n)[i] <= VT[i] /\ But(n)[i] + Plus(e, vars[n])[i] = VT[i] + e[i]
    <3>1. VT[i] = VarTimes(i, vars, Names) /\ But(n)[i] = VarTimes(i, vars, Names \ {n})
      BY HandsAre
    <3>2. VarTimes(i, vars, Names) = VarTimes(i, vars, Names \ {n}) + One(vars[n], i)
      BY VarTimesOne
    <3>3. But(n)[i] \in Nat /\ One(vars[n], i) \in Nat /\ e[i] \in Nat /\ VT[i] = But(n)[i] + One(vars[n], i)
      BY <1>1, <1>3, <3>1, <3>2 DEF One
    <3>4. Plus(e, vars[n])[i] = e[i] + One(vars[n], i)
      BY <1>2
    <3> DEFINE x == But(n)[i]
               y == One(vars[n], i)
               z == e[i]
               w == VT[i]
               u == Plus(e, vars[n])[i]
    <3> HIDE DEF x, y, z, w, u
    <3>5. x <= w /\ x + u = w + z
      <4>1. x \in Nat /\ y \in Nat /\ z \in Nat /\ w = x + y /\ u = z + y
        BY <3>3, <3>4 DEF x, y, z, w, u
      <4> QED BY <4>1
    <3> QED BY <3>5 DEF x, y, z, w, u
  <2> QED BY <2>1 DEF Moves
<1> QED BY <1>2, <1>3, <1>4, Resplit

\* frame_store_var: the new value counted and the previous one returned with its reference.
LEMMA FrameOwns ==
  ASSUME Good, NEW h, NEW e, NEW F, Owns(h, VT, e, F), NEW n \in Names, NEW v, Usable(h, v),
         NEW c \in frame_store_var(h, vars, n, v)
  PROVE  FrameStored(h, e, F, n, v, c)
<1>1. CASE vars[n] = Unset
  <2>1. c = [h |-> h, vars |-> vars, prev |-> NULL]
    BY <1>1 DEF frame_store_var
  <2>2. c.h = h /\ c.vars = vars /\ c.prev = NULL
    BY <2>1
  <2> QED BY <1>1, <2>2 DEF FrameStored
<1>2. CASE vars[n] # Unset
  <2> DEFINE t == TypeOf(h, vars[n])
             X == IF TypeOf(h, v) # t THEN object_cast(h, v, t) ELSE {Got(h, v)}
  <2>1. PICK x \in X : c = IF x.v = NULL THEN [h |-> x.h, vars |-> vars, prev |-> NULL]
                           ELSE [h |-> object_ref(x.h, x.v), vars |-> [vars EXCEPT ![n] = x.v], prev |-> vars[n]]
    BY <1>2 DEF frame_store_var
  <2>2. t = TypeOf(heap, vars[n]) /\ vars[n] \in Vals /\ e \in [Ids -> Nat] /\ v \in Vals
    <3>1. \A m \in Names : vars[m] # Unset => TypeOf(h, vars[m]) = TypeOf(heap, vars[m]) /\ vars[m] \in Vals
      BY VarsStay
    <3>2. e \in [Ids -> Nat] /\ v \in Vals
      BY DEF Owns, Usable
    <3> QED BY <1>2, <3>1, <3>2
  <2>3. vars[n] # NULL /\ v # NULL
    BY <2>2, Apart
  <2>4. \E G : /\ Owns(x.h, VT, e, G) /\ \A i \in Ids : i # x.v => (i \in F <=> i \in G)
               /\ x.h.wild = h.wild
               /\ x.v # NULL => Usable(x.h, x.v) /\ TypeOf(x.h, x.v) = t
               /\ x.v = NULL => Owns(x.h, VT, e, F)
               /\ TypeOf(h, v) = t => x.v = v
               /\ IsNumber(h, v) /\ t \in NumberTypes => x.v # NULL
    <3>1. CASE TypeOf(h, v) # t
      <4>1. x \in object_cast(h, v, t)
        BY <3>1
      <4> HIDE DEF X, t
      <4>2. CastIs(h, VT, e, F, t, x)
        BY <4>1, CastReady
      <4>3. IsNumber(h, v) /\ t \in NumberTypes => x.v # NULL
        BY <4>1, CastNumber
      <4> QED BY <3>1, <4>2, <4>3 DEF CastIs
    <3>2. CASE TypeOf(h, v) = t
      <4>1. x = Got(h, v)
        BY <3>2
      <4>2. x.h = h /\ x.v = v
        BY <4>1 DEF Got
      <4> HIDE DEF X, t
      <4> QED BY <2>3, <3>2, <4>2
    <3> QED BY <3>1, <3>2
  <2> HIDE DEF X, t
  <2>5. CASE x.v = NULL
    <3>1. c.h = x.h /\ c.vars = vars /\ c.prev = NULL
      BY <2>1, <2>5
    <3> QED BY <2>2, <2>4, <2>5, <3>1 DEF FrameStored
  <2>6. CASE x.v # NULL
    <3> DEFINE w == x.v
               k == x.h
               g == object_ref(k, w)
               y == Plus(e, w)
    <3>1. c.h = g /\ c.vars = [vars EXCEPT ![n] = w] /\ c.prev = vars[n]
      BY <2>1, <2>6
    <3>2. PICK G : /\ Owns(k, VT, e, G) /\ \A i \in Ids : i # w => (i \in F <=> i \in G)
                   /\ k.wild = h.wild /\ Usable(k, w) /\ TypeOf(k, w) = t
                   /\ TypeOf(h, v) = t => w = v
      BY <2>4, <2>6
    <3> HIDE DEF w, k
    <3>3. y \in [Ids -> Nat] /\ Gives(y, e, w)
      BY <2>2, PlusGives
    <3>4. Referred(k, g, VT, y, G \ {w})
      BY <3>2, <3>3, AddRef
    <3>5. w \in Vals
      BY <3>2 DEF Usable
    <3> HIDE DEF y, g
    <3>6. /\ Owns(g, VT, y, G \ {w}) /\ g.wild = k.wild
          /\ \A j \in Places : g.o[j].type = k.o[j].type
      BY <3>4 DEF Referred
    <3>7. Owns(g, VT, y, F \ {w})
      <4>1. \A i \in Ids : i \in G \ {w} <=> i \in F \ {w}
        BY <3>2
      <4> QED BY <3>6, <4>1, SameF
    <3>8. Owns(g, But(n), Plus(y, vars[n]), F \ {w})
      BY <3>7, MoveVar
    <3>9. TypeOf(g, w) = t
      BY <3>2, <3>5, <3>6 DEF Vals, TypeOf
    <3>10. /\ c.prev = vars[n] /\ vars[n] \in Vals /\ c.vars = [vars EXCEPT ![n] = w]
           /\ Owns(c.h, But(n), Plus(Plus(e, w), vars[n]), F \ {w}) /\ c.h.wild = h.wild
           /\ TypeOf(c.h, w) = TypeOf(heap, vars[n])
           /\ TypeOf(h, v) = TypeOf(heap, vars[n]) => w = v
      BY <2>2, <3>1, <3>2, <3>6, <3>8, <3>9 DEF y
    <3> QED BY <2>3, <3>5, <3>10 DEF FrameStored
  <2> QED BY <2>5, <2>6
<1> QED BY <1>1, <1>2

\* An opcode ends with w in the variable n.
LEMMA Stores ==
  ASSUME Good, NEW op, NEW a, NEW h, NEW s \in Stacks, NEW st, NEW n \in Names, NEW w \in Vals,
         Leave(op, a, h, s, [vars EXCEPT ![n] = w], st), op # "none",
         NEW d \in [Ids -> Nat], NEW F, Owns(h, But(n), Plus(d, w), F), Hands(op, a, d, F, s), h.wild => Temp(op, a),
         vars[n] # Unset => TypeOf(h, w) = TypeOf(heap, vars[n])
  PROVE  Outcome
<1> DEFINE vs == [vars EXCEPT ![n] = w]
           x == Plus(d, w)
<1>0. vars \in [Names -> Vals \cup {Unset}]
  BY DEF Good, Scopes
<1>1. vs \in Scopes /\ vs[n] = w /\ \A m \in Names : m # n => vs[m] = vars[m]
  BY <1>0 DEF Scopes
<1>2. x \in [Ids -> Nat] /\ \A i \in Ids : x[i] = d[i] + One(w, i)
  BY PlusIs
<1>3. Owns(h, But(n), x, F) /\ Leave(op, a, h, s, vs, st)
  OBVIOUS
<1>4. \A i \in Ids : VarTimes(i, vs, Names) = VarTimes(i, vars, Names \ {n}) + One(w, i)
  BY <1>0, VarTimesExcept
<1> HIDE DEF vs, x
<1>5. KeepsTypes(h, vs)
  <2>1. ASSUME NEW m \in Names, vars[m] # Unset, vs[m] # Unset PROVE TypeOf(h, vs[m]) = TypeOf(heap, vars[m])
    <3>1. CASE m = n
      BY <1>1, <2>1, <3>1
    <3>2. CASE m # n
      <4>1. Names \ {n} \in SUBSET Names /\ m \in Names \ {n}
        BY <3>2
      <4>2. VarTimes(vars[m], vars, Names \ {n}) > 0
        BY <4>1, VarSome
      <4>3. vars[m] \in Ids => But(n)[vars[m]] > 0
        BY <4>2, HandsAre
      <4>4. TypeOf(h, vars[m]) = TypeOf(heap, vars[m])
        BY <1>3, <2>1, <4>3, VarStays
      <4> QED BY <1>1, <3>2, <4>4
    <3> QED BY <3>1, <3>2
  <2> QED BY <2>1 DEF KeepsTypes
<1>6. ASSUME NEW i \in Ids
      PROVE  /\ But(n)[i] \in Nat /\ d[i] \in Nat /\ Times(i, s) \in Nat /\ One(w, i) \in Nat
             /\ But(n)[i] + x[i] = d[i] + VarTimes(i, vs, Names) /\ VarTimes(i, vs, Names) \in Nat
  <2>1. But(n)[i] \in Nat /\ But(n)[i] = VarTimes(i, vars, Names \ {n})
    BY HandsAre
  <2>2. d[i] \in Nat /\ Times(i, s) \in Nat /\ One(w, i) \in Nat
    BY TimesIsTo DEF Stacks, One
  <2> DEFINE p == VarTimes(i, vs, Names)
             q == But(n)[i]
             r == One(w, i)
             y == d[i]
             z == x[i]
  <2>3. p = q + r /\ z = y + r /\ q \in Nat /\ r \in Nat /\ y \in Nat
    BY <1>2, <1>4, <2>1, <2>2
  <2> HIDE DEF p, q, r, y, z
  <2>4. q + z = y + p /\ p \in Nat
    BY <2>3
  <2> QED BY <2>1, <2>2, <2>4 DEF p, q, r, y, z
<1>7. \A i \in Ids : Times(i, s) + VarTimes(i, vs, Names) <= But(n)[i] + x[i]
  <2>1. ASSUME NEW i \in Ids PROVE Times(i, s) + VarTimes(i, vs, Names) <= But(n)[i] + x[i]
    <3>1. Times(i, s) <= d[i]
      BY DEF Hands
    <3> QED BY <1>6, <3>1
  <2> QED BY <2>1
<1>8. ASSUME ~Lose(op, a) PROVE F \cap Ids = {} /\ \A i \in Ids : Times(i, s) + VarTimes(i, vs, Names) = But(n)[i] + x[i]
  <2>1. ASSUME NEW i \in Ids PROVE Times(i, s) + VarTimes(i, vs, Names) = But(n)[i] + x[i]
    <3>1. Times(i, s) = d[i]
      BY <1>8 DEF Hands
    <3> QED BY <1>6, <3>1
  <2> QED BY <1>8, <2>1 DEF Hands
<1>9. Covers(op, a, But(n), x, F, s, vs)
  BY <1>7, <1>8 DEF Covers
<1> QED BY <1>1, <1>3, <1>5, <1>9, Ends

-----------------------------------------------------------------------------
(* Elements that are added and removed, and copies.                         *)

\* Every object that can be used stays as it is.
Widens(h, g) == \A v : Usable(h, v) => Usable(g, v) /\ Like(h, g, v)

\* Growing and counting keep what can be used.
LEMMA WidensGrown == ASSUME NEW h, NEW g, Shaped(h), Grows(h, g) PROVE Widens(h, g)
BY GrowsLike DEF Widens

LEMMA WidensReferred ==
  ASSUME NEW h, NEW g, NEW b, NEW d, NEW F, Referred(h, g, b, d, F)
  PROVE  Widens(h, g)
BY DEF Referred, Widens, Usable, Like, Live, TypeOf, Slots, Vals, Places

LEMMA WidensThen ==
  ASSUME NEW h, NEW g, NEW k, Widens(h, g), Widens(g, k)
  PROVE  Widens(h, k)
BY LikeThen DEF Widens

\* An appended element is counted.
LEMMA AppendOwns ==
  ASSUME NEW h, NEW b, NEW e, NEW F, Owns(h, b, e, F), NEW a \in Vals, TypeOf(h, a) = "vec",
         NEW c, Usable(h, c), TypeOf(h, c) \in NumberTypes \cup {"null"}, Len(Slots(h, a)) < MaxLen
  PROVE  /\ Owns(object_ref([h EXCEPT !.o[a].slots = Append(@, c)], c), b, e, F \ {c})
         /\ object_ref([h EXCEPT !.o[a].slots = Append(@, c)], c).wild = h.wild
<1> DEFINE old == Slots(h, a)
           s == Append(old, c)
           g == object_ref(SetSlots(h, a, s), c)
<1>1. a \in Places /\ Usable(h, a) /\ h.o[a].type = "vec"
  BY TypedUsable DEF Types, NumberTypes
<1>2. h \in Heaps /\ Shaped(h) /\ e \in [Ids -> Nat] /\ c \in Vals
  BY DEF Owns, Shaped, Usable
<1>3. old \in Seq(Vals) /\ old = h.o[a].slots /\ DOMAIN old = 1 .. Len(old) /\ Len(old) \in Nat
  BY <1>1, <1>2, HeapIs DEF Slots
<1>4. /\ s \in Seq(Vals) /\ Len(s) = Len(old) + 1 /\ DOMAIN s = 1 .. Len(old) + 1 /\ s[Len(old) + 1] = c
      /\ \A k \in DOMAIN old : s[k] = old[k]
  BY <1>2, <1>3
<1>5. [h EXCEPT !.o[a].slots = Append(@, c)] = SetSlots(h, a, s)
  BY <1>1, <1>2 DEF SetSlots, Slots, Heaps
<1> HIDE DEF s
<1>6. FitsAs(h, h.o[a].type, s)
  <2> DEFINE z == [type |-> "vec", ref |-> 0, slots |-> s]
  <2>1. z.type = "vec" /\ z.slots = s /\ "vec" \notin NumberTypes
    BY DEF NumberTypes
  <2>2. Len(s) <= MaxLen + 2
    BY <1>3, <1>4, RefsAssumption
  <2>3. \A k \in DOMAIN old : TypeOf(h, old[k]) \in NumberTypes \cup {"null"}
    BY <1>1, <1>2, <1>3 DEF Shaped, Fits
  <2>4. \A k \in DOMAIN s : TypeOf(h, s[k]) \in NumberTypes \cup {"null"}
    <3>1. ASSUME NEW k \in DOMAIN s PROVE TypeOf(h, s[k]) \in NumberTypes \cup {"null"}
      <4>1. k \in DOMAIN old \/ k = Len(old) + 1
        BY <1>3, <1>4
      <4> QED BY <1>4, <2>3, <4>1
    <3> QED BY <3>1
  <2>5. Fits(h, z)
    BY <2>1, <2>2, <2>4 DEF Fits
  <2> QED BY <1>1, <2>5 DEF FitsAs
<1>7. Puts(e, c, Slots(h, a), e, s)
  <2>1. ASSUME NEW i \in Ids PROVE e[i] + One(c, i) + Times(i, old) = e[i] + Times(i, s)
    <3>1. Times(i, s) = Times(i, old) + One(c, i)
      BY <1>2, <1>3, TimesAppend DEF s
    <3>2. Times(i, old) \in Nat /\ One(c, i) \in Nat /\ e[i] \in Nat
      BY <1>2, <1>3, TimesIsTo DEF One
    <3> HIDE DEF old
    <3> QED BY <3>1, <3>2
  <2> QED BY <2>1 DEF Puts
<1>8. PutIn(h, g, b, e, F \ {c}, a, s)
  <2> HIDE DEF old
  <2> QED BY <1>1, <1>2, <1>4, <1>6, <1>7, PutOwns
<1> HIDE DEF g
<1>9. Owns(g, b, e, F \ {c}) /\ g.wild = h.wild
  BY <1>8 DEF PutIn
<1> QED BY <1>5, <1>9 DEF g

\* The element that left is in hand.
LEMMA VecRemoveOwns ==
  ASSUME NEW h, NEW b, NEW e, NEW F, Owns(h, b, e, F), NEW a \in Vals, TypeOf(h, a) = "vec",
         NEW p \in DOMAIN Slots(h, a)
  PROVE  \E d \in [Ids -> Nat] : /\ Owns(vecobject_remove(h, a, p), b, d, F) /\ \A i \in Ids : e[i] <= d[i]
                                 /\ vecobject_remove(h, a, p).wild = h.wild
<1> DEFINE old == Slots(h, a)
           s == RemoveAt(old, p)
           d == Plus(e, old[p])
           g == SetSlots(h, a, s)
<1>1. a \in Places /\ Usable(h, a) /\ h.o[a].type = "vec" /\ Live(h, a)
  BY TypedUsable, TypesApart DEF Types, NumberTypes, Live
<1>2. h \in Heaps /\ Shaped(h) /\ e \in [Ids -> Nat]
  BY DEF Owns, Shaped
<1>3. old \in Seq(Vals) /\ old = h.o[a].slots /\ DOMAIN old = 1 .. Len(old) /\ Len(old) \in Nat
  BY <1>1, <1>2, HeapIs DEF Slots
<1>4. /\ s \in Seq(Vals) /\ Len(s) = Len(old) - 1
      /\ \A k \in DOMAIN s : \E j \in DOMAIN old : s[k] = old[j]
  <2>1. old \in Seq(Vals)
    BY <1>3
  <2>2. p \in DOMAIN old
    OBVIOUS
  <2> HIDE DEF old
  <2> QED BY <2>1, <2>2, TimesRemoveAt
<1>5. vecobject_remove(h, a, p) = g
  BY <1>1, <1>2 DEF vecobject_remove, SetSlots, Slots, Heaps
<1>6. d \in [Ids -> Nat] /\ \A i \in Ids : d[i] = e[i] + One(old[p], i)
  BY <1>2, PlusIs
<1>7. ASSUME NEW i \in Ids PROVE Times(i, s) + One(old[p], i) = Times(i, old)
  <2>1. old \in Seq(Vals)
    BY <1>3
  <2>2. p \in DOMAIN old
    OBVIOUS
  <2> HIDE DEF old
  <2> QED BY <2>1, <2>2, TimesRemoveAt
<1> HIDE DEF s, d
<1>8. FitsAs(h, h.o[a].type, s)
  <2> DEFINE z == [type |-> "vec", ref |-> 0, slots |-> s]
  <2>1. z.type = "vec" /\ z.slots = s /\ "vec" \notin NumberTypes
    BY DEF NumberTypes
  <2>2. /\ Len(s) <= MaxLen + 2
        /\ \A k \in DOMAIN old : TypeOf(h, old[k]) \in NumberTypes \cup {"null"}
    <3>1. Len(old) <= MaxLen + 2 /\ \A k \in DOMAIN old : TypeOf(h, old[k]) \in NumberTypes \cup {"null"}
      BY <1>1, <1>2, <1>3 DEF Shaped, Fits
    <3> QED BY <1>3, <1>4, <3>1, RefsAssumption
  <2>3. Fits(h, z)
    BY <1>4, <2>1, <2>2 DEF Fits
  <2> QED BY <1>1, <2>3 DEF FitsAs
<1>9. Swaps(e, Slots(h, a), d, s)
  <2>1. ASSUME NEW i \in Ids PROVE e[i] + Times(i, old) = d[i] + Times(i, s)
    <3>1. Times(i, s) \in Nat /\ One(old[p], i) \in Nat /\ e[i] \in Nat
      BY <1>2, <1>4, TimesIsTo DEF One
    <3> HIDE DEF old
    <3> QED BY <1>6, <1>7, <3>1
  <2> QED BY <2>1 DEF Swaps
<1>10. Owns(g, b, d, F) /\ g.wild = h.wild
  BY <1>1, <1>4, <1>6, <1>8, <1>9, PutSlots
<1>11. ASSUME NEW i \in Ids PROVE e[i] <= d[i]
  <2>1. One(old[p], i) \in Nat /\ e[i] \in Nat
    BY <1>2 DEF One
  <2> QED BY <1>6, <2>1
<1> HIDE DEF g
<1> QED BY <1>5, <1>6, <1>10, <1>11

\* Removing a pair lets go of its key and its value.
LEMMA DictRemoveOwns ==
  ASSUME NEW h, NEW b, NEW e, NEW F, Owns(h, b, e, F), NEW a \in Vals, TypeOf(h, a) = "dict"
  PROVE  Owns(dictobject_remove(h, a), b, e, F) /\ dictobject_remove(h, a).wild = h.wild
<1> DEFINE old == Slots(h, a)
           d == [i \in Ids |-> e[i] + Times(i, old)]
           k == SetSlots(h, a, <<>>)
<1>1. a \in Places /\ Usable(h, a) /\ h.o[a].type = "dict" /\ Live(h, a)
  BY TypedUsable, TypesApart DEF Types, NumberTypes, Live
<1>2. h \in Heaps /\ Shaped(h) /\ e \in [Ids -> Nat]
  BY DEF Owns, Shaped
<1>3. old \in Seq(Vals) /\ <<>> \in Seq(Vals)
  BY <1>1, <1>2, HeapIs DEF Slots
<1>4. d \in [Ids -> Nat] /\ \A i \in Ids : d[i] = e[i] + Times(i, old) /\ Times(i, <<>>) = 0
  <2>1. \A i \in Ids : Times(i, old) \in Nat
    BY <1>3, TimesIsTo
  <2>2. \A i \in Ids : Times(i, <<>>) = 0
    <3>1. \A i : Times(i, <<>>) = 0
      BY TimesShort
    <3> QED BY <3>1
  <2> QED BY <1>2, <2>1, <2>2
<1>5. dictobject_remove(h, a) = UnrefAll(k, old)
  BY DEF dictobject_remove, SetSlots
<1> HIDE DEF d
<1>6. FitsAs(h, h.o[a].type, <<>>)
  <2> DEFINE z == [type |-> "dict", ref |-> 0, slots |-> <<>>]
  <2>1. z.type = "dict" /\ z.slots = <<>> /\ "dict" \notin NumberTypes /\ 0 <= MaxLen + 2
    BY RefsAssumption DEF NumberTypes
  <2>2. Fits(h, z)
    BY <2>1 DEF Fits
  <2> QED BY <1>1, <2>2 DEF FitsAs
<1>7. Swaps(e, Slots(h, a), d, <<>>)
  <2>1. ASSUME NEW i \in Ids PROVE e[i] + Times(i, old) = d[i] + Times(i, <<>>)
    <3>1. d[i] \in Nat /\ d[i] = e[i] + Times(i, old) /\ Times(i, <<>>) = 0
      BY <1>4
    <3> HIDE DEF old
    <3> QED BY <3>1
  <2> QED BY <2>1 DEF Swaps
<1>8. Owns(k, b, d, F) /\ k.wild = h.wild
  <2>1. <<>> \in Seq(Vals)
    BY <1>3
  <2>2. d \in [Ids -> Nat]
    BY <1>4
  <2>3. a \in Places /\ Live(h, a)
    BY <1>1
  <2> DEFINE s == <<>>
  <2>4. s \in Seq(Vals) /\ FitsAs(h, h.o[a].type, s) /\ Swaps(e, Slots(h, a), d, s) /\ k = SetSlots(h, a, s)
    BY <1>6, <1>7, <2>1
  <2> HIDE DEF old, s, k
  <2> QED BY <2>2, <2>3, <2>4, PutSlots
<1>9. GivesAll(d, e, old)
  BY <1>4 DEF GivesAll
<1> HIDE DEF k, old
<1>10. Owns(UnrefAll(k, old), b, e, F) /\ UnrefAll(k, old).wild = k.wild
  BY <1>2, <1>3, <1>8, <1>9, UnrefAllOwns
<1> QED BY <1>5, <1>8, <1>10

-----------------------------------------------------------------------------
\* What is in hand with the copies.
With(e, s) == [i \in Ids |-> e[i] + Times(i, s)]

\* The references of the copies are numbers.
LEMMA WithIs ==
  ASSUME NEW e \in [Ids -> Nat], NEW s \in Seq(Vals)
  PROVE  With(e, s) \in [Ids -> Nat] /\ \A i \in Ids : With(e, s)[i] = e[i] + Times(i, s) /\ Times(i, s) \in Nat
<1>1. \A i \in Ids : Times(i, s) \in Nat
  BY TimesIsTo
<1> QED BY <1>1 DEF With

\* One copy more, of v, or a failure, which adds nothing.
CopyMade(b, e, x, v, y) ==
  /\ y.h.wild = x.h.wild
  /\ ~y.ok => Owns(y.h, b, With(e, x.s), {})
  /\ y.ok => \E c \in Vals : /\ y.s = Append(x.s, c) /\ Owns(y.h, b, With(e, y.s), {}) /\ Widens(x.h, y.h)
                             /\ Usable(y.h, c) /\ TypeOf(y.h, c) = TypeOf(x.h, v) /\ TypeOf(x.h, v) \in NumberTypes

\* Copying one element adds its reference to the hand, or fails and adds none.
LEMMA CopyStep ==
  ASSUME NEW b, NEW e \in [Ids -> Nat], NEW x, x.s \in Seq(Vals), Owns(x.h, b, With(e, x.s), {}), x.ok,
         NEW v, Usable(x.h, v), NEW y \in CopyOne(x, v)
  PROVE  CopyMade(b, e, x, v, y)
<1> DEFINE k == x.h
           t == TypeOf(k, v)
           d == With(e, x.s)
<1>1. PICK z \in object_cast(k, v, t) : y = [h |-> object_ref(z.h, z.v), s |-> Append(x.s, z.v), ok |-> z.v # NULL]
  BY DEF CopyOne
<1> DEFINE c == z.v
           m == z.h
           g == object_ref(m, c)
           u == Append(x.s, c)
<1>2. y.h = g /\ y.s = u /\ (y.ok <=> c # NULL)
  BY <1>1
<1>3. d \in [Ids -> Nat] /\ \A i \in Ids : d[i] = e[i] + Times(i, x.s) /\ Times(i, x.s) \in Nat
  BY WithIs
<1>4. Owns(k, b, d, {}) /\ Usable(k, v) /\ x.s \in Seq(Vals)
  OBVIOUS
<1> HIDE DEF k, t, d
<1>5. CastIs(k, b, d, {}, t, z)
  BY <1>1, <1>4, CastReady
<1>6. /\ c = NULL => Owns(m, b, d, {})
      /\ m.wild = k.wild /\ Grows(k, m) /\ Owns(m, b, d, {c})
      /\ c # NULL => Usable(m, c) /\ TypeOf(m, c) = t /\ t \in NumberTypes
  <2>1. {} \cup {c} = {c}
    OBVIOUS
  <2> QED BY <1>5, <2>1 DEF CastIs
<1>7. CASE c = NULL
  <2>1. NULL \notin Ids
    BY Apart DEF Vals, Places
  <2>2. g = m
    BY <1>7, <2>1 DEF object_ref
  <2> HIDE DEF g, m, c
  <2> QED BY <1>2, <1>6, <1>7, <2>2 DEF CopyMade, k, d
<1>8. CASE c # NULL
  <2> DEFINE q == Plus(d, c)
  <2>1. q \in [Ids -> Nat] /\ \A i \in Ids : q[i] = d[i] + One(c, i)
    BY <1>3, PlusIs
  <2> HIDE DEF q
  <2>2. Gives(q, d, c)
    BY <2>1 DEF Gives
  <2>3. Usable(m, c) /\ TypeOf(m, c) = t /\ t \in NumberTypes /\ c \in Vals
    BY <1>6, <1>8 DEF Usable
  <2> HIDE DEF m, c, g
  <2>4. Referred(m, g, b, q, {c} \ {c})
    BY <1>6, <2>1, <2>2, <2>3, AddRef DEF g
  <2>5. Widens(m, g) /\ Owns(g, b, q, {c} \ {c}) /\ g.wild = m.wild
    BY <2>4, WidensReferred DEF Referred
  <2>6. Widens(k, m)
    <3>1. Shaped(k)
      BY <1>4 DEF Owns
    <3> QED BY <1>6, <3>1, WidensGrown
  <2>7. Widens(k, g)
    BY <2>5, <2>6, WidensThen
  <2>8. Usable(g, c) /\ TypeOf(g, c) = t
    BY <2>3, <2>5 DEF Widens, Like
  <2>9. u \in Seq(Vals)
    BY <1>4, <2>3
  <2>10. \A i \in Ids : q[i] = With(e, u)[i]
    <3>1. ASSUME NEW i \in Ids PROVE q[i] = With(e, u)[i]
      <4>1. Times(i, u) = Times(i, x.s) + One(c, i)
        BY <1>4, <2>3, TimesAppend
      <4>2. With(e, u)[i] = e[i] + Times(i, u)
        BY <2>9, WithIs
      <4>3. e[i] \in Nat /\ One(c, i) \in Nat /\ Times(i, x.s) \in Nat
        BY <1>3 DEF One
      <4> HIDE DEF u
      <4> QED BY <1>3, <2>1, <4>1, <4>2, <4>3
    <3> QED BY <3>1
  <2>11. Owns(g, b, With(e, u), {})
    <3>1. With(e, u) \in [Ids -> Nat]
      BY <2>9, WithIs
    <3>2. \A i \in Ids : i \in {c} \ {c} <=> i \in {}
      OBVIOUS
    <3>3. Owns(g, b, q, {})
      BY <2>5, <3>2, SameF
    <3> HIDE DEF u
    <3> QED BY <2>10, <3>1, <3>3, SameE
  <2> HIDE DEF u
  <2>12. y.ok /\ y.h = g /\ y.s = u
    BY <1>2, <1>8
  <2>13. y.h.wild = k.wild
    BY <1>6, <2>5, <2>12
  <2>14. /\ y.s = Append(x.s, c) /\ Owns(y.h, b, With(e, y.s), {}) /\ Widens(x.h, y.h)
         /\ Usable(y.h, c) /\ TypeOf(y.h, c) = TypeOf(x.h, v) /\ TypeOf(x.h, v) \in NumberTypes
    BY <2>3, <2>7, <2>8, <2>11, <2>12 DEF u, k, t
  <2> QED BY <2>3, <2>12, <2>13, <2>14 DEF CopyMade, k
<1> QED BY <1>7, <1>8

\* The copies of the first n elements of a.
CopyInv(h, b, e, a, n, x) ==
  /\ x.h.wild = h.wild
  /\ x.ok => /\ x.s \in Seq(Vals) /\ Len(x.s) = n /\ Owns(x.h, b, With(e, x.s), {})
             /\ Like(h, x.h, a) /\ Usable(x.h, a)
             /\ \A k \in 1 .. n : /\ Usable(x.h, x.s[k]) /\ TypeOf(x.h, x.s[k]) = TypeOf(x.h, Slots(h, a)[k])
                                  /\ TypeOf(x.h, x.s[k]) \in NumberTypes
  /\ ~x.ok => \E d \in [Ids -> Nat] : Owns(x.h, b, d, {}) /\ \A i \in Ids : e[i] <= d[i] /\ (n <= 1 => e[i] = d[i])

\* CopyInv is true of no copies.
LEMMA CopyFirst ==
  ASSUME NEW h, NEW b, NEW e, Owns(h, b, e, {}), NEW a, Usable(h, a),
         NEW x, x = [h |-> h, s |-> <<>>, ok |-> TRUE]
  PROVE  CopyInv(h, b, e, a, 0, x)
<1>1. x.h = h /\ x.s = <<>> /\ x.ok /\ e \in [Ids -> Nat]
  BY DEF Owns
<1>2. <<>> \in Seq(Vals) /\ Len(<<>>) = 0
  OBVIOUS
<1>3. With(e, <<>>) \in [Ids -> Nat] /\ \A i \in Ids : e[i] = With(e, <<>>)[i]
  <2>1. \A i : Times(i, <<>>) = 0
    BY TimesShort
  <2> QED BY <1>1, <2>1 DEF With
<1>4. Owns(h, b, With(e, <<>>), {})
  <2> DEFINE q == With(e, <<>>)
  <2> HIDE DEF q
  <2> QED BY <1>3, SameE DEF q
<1>5. Like(h, h, a)
  BY DEF Like
<1> QED BY <1>1, <1>2, <1>4, <1>5 DEF CopyInv

\* CopyInv is kept by one copy more.
LEMMA CopyNext ==
  ASSUME NEW h, NEW b, NEW e, Owns(h, b, e, {}), NEW a \in Places, Usable(h, a),
         NEW n \in 1 .. Len(Slots(h, a)), NEW x, CopyInv(h, b, e, a, n - 1, x),
         NEW y \in CopyOne(x, Slots(h, a)[n])
  PROVE  CopyInv(h, b, e, a, n, y)
<1> DEFINE v == Slots(h, a)[n]
           m == n - 1
<1>0. e \in [Ids -> Nat] /\ Slots(h, a) \in Seq(Vals)
  <2>1. h \in Heaps /\ e \in [Ids -> Nat]
    BY DEF Owns, Shaped
  <2> QED BY <2>1, HeapIs DEF Slots
<1>m. n \in Nat /\ m \in Nat /\ m + 1 = n /\ (n <= 1 => m = 0) /\ 1 .. n = (1 .. m) \cup {n} /\ Len(Slots(h, a)) \in Nat
      /\ n \in DOMAIN Slots(h, a) /\ \A k \in 1 .. n : k \in DOMAIN Slots(h, a)
  BY <1>0
<1>1. CASE ~x.ok
  <2>1. y = x
    BY <1>1 DEF CopyOne
  <2> HIDE DEF m
  <2>2. \E d \in [Ids -> Nat] : Owns(x.h, b, d, {}) /\ \A i \in Ids : e[i] <= d[i] /\ (n <= 1 => e[i] = d[i])
    <3>1. PICK d \in [Ids -> Nat] : Owns(x.h, b, d, {}) /\ \A i \in Ids : e[i] <= d[i] /\ (m <= 1 => e[i] = d[i])
      BY <1>1 DEF CopyInv, m
    <3> QED BY <1>m, <3>1
  <2> QED BY <1>1, <2>1, <2>2 DEF CopyInv
<1>2. CASE x.ok
  <2>1. /\ x.s \in Seq(Vals) /\ Len(x.s) = m /\ Owns(x.h, b, With(e, x.s), {})
        /\ Like(h, x.h, a) /\ Usable(x.h, a) /\ x.h.wild = h.wild
        /\ \A k \in 1 .. m : /\ Usable(x.h, x.s[k]) /\ TypeOf(x.h, x.s[k]) = TypeOf(x.h, Slots(h, a)[k])
                             /\ TypeOf(x.h, x.s[k]) \in NumberTypes
    BY <1>2 DEF CopyInv
  <2> HIDE DEF m
  <2>2. Slots(x.h, a) = Slots(h, a)
    BY <2>1 DEF Like
  <2>3. \A k \in 1 .. n : Usable(x.h, Slots(h, a)[k])
    <3>1. ASSUME NEW k \in 1 .. n PROVE Usable(x.h, Slots(h, a)[k])
      <4>1. k \in DOMAIN Slots(x.h, a)
        BY <1>m, <2>2
      <4>2. Owns(x.h, b, With(e, x.s), {})
        BY <2>1
      <4>3. Usable(x.h, Slots(x.h, a)[k])
        BY <4>1, <4>2, SlotUsable
      <4> QED BY <2>2, <4>3
    <3> QED BY <3>1
  <2>4. CopyMade(b, e, x, v, y)
    <3>1. Usable(x.h, v)
      BY <1>m, <2>3
    <3> HIDE DEF v
    <3>2. y \in CopyOne(x, v)
      BY DEF v
    <3> QED BY <1>0, <1>2, <2>1, <3>1, <3>2, CopyStep
  <2>5. CASE ~y.ok
    <3>1. Owns(y.h, b, With(e, x.s), {}) /\ y.h.wild = x.h.wild
      BY <2>4, <2>5 DEF CopyMade
    <3>2. With(e, x.s) \in [Ids -> Nat] /\ \A i \in Ids : With(e, x.s)[i] = e[i] + Times(i, x.s) /\ Times(i, x.s) \in Nat
      BY <1>0, <2>1, WithIs
    <3>3. \A i \in Ids : e[i] <= With(e, x.s)[i] /\ (n <= 1 => e[i] = With(e, x.s)[i])
      <4>1. ASSUME NEW i \in Ids PROVE e[i] <= With(e, x.s)[i] /\ (n <= 1 => e[i] = With(e, x.s)[i])
        <5>1. n <= 1 => Times(i, x.s) = 0
          <6>1. m = 0 => x.s = <<>>
            BY <2>1
          <6>2. Times(i, <<>>) = 0
            BY TimesShort
          <6> QED BY <1>m, <6>1, <6>2
        <5> QED BY <1>0, <3>2, <5>1
      <4> QED BY <4>1
    <3> QED BY <2>1, <2>5, <3>1, <3>2, <3>3 DEF CopyInv
  <2>6. CASE y.ok
    <3>1. PICK c \in Vals : /\ y.s = Append(x.s, c) /\ Owns(y.h, b, With(e, y.s), {}) /\ Widens(x.h, y.h)
                            /\ Usable(y.h, c) /\ TypeOf(y.h, c) = TypeOf(x.h, v) /\ TypeOf(x.h, v) \in NumberTypes
      BY <2>4, <2>6 DEF CopyMade
    <3>2. y.h.wild = h.wild
      BY <2>1, <2>4 DEF CopyMade
    <3>3. y.s \in Seq(Vals) /\ Len(y.s) = n /\ y.s[n] = c /\ \A k \in 1 .. m : y.s[k] = x.s[k]
      BY <1>m, <2>1, <3>1
    <3>4. Like(h, y.h, a) /\ Usable(y.h, a)
      BY <2>1, <3>1, LikeThen DEF Widens
    <3>5. ASSUME NEW k \in 1 .. n
          PROVE  /\ Usable(y.h, y.s[k]) /\ TypeOf(y.h, y.s[k]) = TypeOf(y.h, Slots(h, a)[k])
                 /\ TypeOf(y.h, y.s[k]) \in NumberTypes
      <4> DEFINE w == Slots(h, a)[k]
      <4>1. TypeOf(y.h, w) = TypeOf(x.h, w)
        BY <2>3, <3>1 DEF Widens, Like
      <4>2. CASE k = n
        BY <3>1, <3>3, <4>1, <4>2
      <4>3. CASE k # n
        <5>1. k \in 1 .. m /\ y.s[k] = x.s[k]
          BY <1>m, <3>3, <4>3
        <5>2. Usable(x.h, x.s[k]) /\ TypeOf(x.h, x.s[k]) = TypeOf(x.h, w) /\ TypeOf(x.h, x.s[k]) \in NumberTypes
          BY <2>1, <5>1
        <5>3. Usable(y.h, x.s[k]) /\ TypeOf(y.h, x.s[k]) = TypeOf(x.h, x.s[k])
          BY <3>1, <5>2 DEF Widens, Like
        <5> QED BY <4>1, <5>1, <5>2, <5>3
      <4> QED BY <4>2, <4>3
    <3> QED BY <2>6, <3>1, <3>2, <3>3, <3>4, <3>5 DEF CopyInv
  <2> QED BY <2>5, <2>6
<1> QED BY <1>1, <1>2

\* The loop over elements, as a sequence of sets of copies.
LEMMA CopiedWalk ==
  ASSUME NEW h, NEW s, Len(s) \in Nat
  PROVE  \E f : /\ f[0] = {[h |-> h, s |-> <<>>, ok |-> TRUE]} /\ f[Len(s)] = Copied(h, s)
               /\ \A n \in 1 .. Len(s) : f[n] = UNION {CopyOne(x, s[n]) : x \in f[n - 1]}
<1> DEFINE z == {[h |-> h, s |-> <<>>, ok |-> TRUE]}
           Walk(f, n) == f = [k \in 0 .. n |-> IF k = 0 THEN {[h |-> h, s |-> <<>>, ok |-> TRUE]}
                                               ELSE UNION {CopyOne(x, s[k]) : x \in f[k - 1]}]
           Bad == {n \in Nat : ~ \E f : Walk(f, n)}
<1>1. ASSUME Bad # {} PROVE FALSE
  <2>1. PICK m \in Bad : \A k \in Bad : m <= k
    BY <1>1, Least
  <2>2. CASE m = 0
    <3>1. Walk([k \in 0 .. 0 |-> z], 0)
      OBVIOUS
    <3> QED BY <2>1, <2>2, <3>1
  <2>3. CASE m # 0
    <3>1. m - 1 \in Nat /\ ~(m <= m - 1)
      BY <2>1, <2>3
    <3>2. PICK f : Walk(f, m - 1)
      BY <2>1, <3>1
    <3> DEFINE Step(a, k) == UNION {CopyOne(x, s[k]) : x \in a}
               g == [k \in 0 .. m |-> IF k = m THEN Step(f[m - 1], m) ELSE f[k]]
    <3>3. \A k \in 0 .. m - 1 : f[k] = IF k = 0 THEN z ELSE Step(f[k - 1], k)
      BY <3>2
    <3> HIDE DEF Step, z
    <3>4. \A k \in 0 .. m : g[k] = IF k = 0 THEN z ELSE Step(g[k - 1], k)
      <4> TAKE k \in 0 .. m
      <4>1. CASE k = m
        BY <2>1, <2>3, <4>1
      <4>2. CASE k # m
        BY <2>1, <3>3, <4>2
      <4> QED BY <4>1, <4>2
    <3>5. g = [k \in 0 .. m |-> g[k]]
      OBVIOUS
    <3> HIDE DEF g
    <3>6. g = [k \in 0 .. m |-> IF k = 0 THEN z ELSE Step(g[k - 1], k)]
      BY <3>4, <3>5
    <3>7. Walk(g, m)
      BY <3>6 DEF Step, z
    <3> QED BY <2>1, <3>7
  <2> QED BY <2>2, <2>3
<1> DEFINE a == CHOOSE f : Walk(f, Len(s))
<1>2. Walk(a, Len(s))
  BY <1>1
<1>3. a[Len(s)] = Copied(h, s)
  BY DEF Copied
<1> HIDE DEF a
<1>4. a[0] = z /\ \A n \in 1 .. Len(s) : a[n] = UNION {CopyOne(x, s[n]) : x \in a[n - 1]}
  <2>1. a[0] = {[h |-> h, s |-> <<>>, ok |-> TRUE]}
    BY <1>2
  <2> DEFINE Step(b, k) == UNION {CopyOne(x, s[k]) : x \in b}
  <2>2. a = [k \in 0 .. Len(s) |-> IF k = 0 THEN z ELSE Step(a[k - 1], k)]
    BY <1>2
  <2> HIDE DEF Step, z
  <2>3. \A n \in 1 .. Len(s) : a[n] = Step(a[n - 1], n)
    BY <2>2
  <2> QED BY <2>1, <2>3 DEF Step, z
<1> QED BY <1>3, <1>4

\* So the loop ends with a copy of each.
LEMMA CopiedOwns ==
  ASSUME NEW h, NEW b, NEW e, Owns(h, b, e, {}), NEW a \in Places, Usable(h, a),
         NEW c \in Copied(h, Slots(h, a))
  PROVE  CopyInv(h, b, e, a, Len(Slots(h, a)), c)
<1> DEFINE s == Slots(h, a)
           L == Len(s)
<1>1. L \in Nat
  <2>1. h \in Heaps
    BY DEF Owns, Shaped
  <2>2. s \in Seq(Vals)
    BY <2>1, HeapIs DEF Slots
  <2> QED BY <2>2
<1>2. PICK f : /\ f[0] = {[h |-> h, s |-> <<>>, ok |-> TRUE]} /\ f[L] = Copied(h, s)
               /\ \A n \in 1 .. L : f[n] = UNION {CopyOne(x, s[n]) : x \in f[n - 1]}
  BY <1>1, CopiedWalk
<1> DEFINE Bad == {n \in Nat : n <= L /\ ~ \A x \in f[n] : CopyInv(h, b, e, a, n, x)}
<1>3. ASSUME Bad # {} PROVE FALSE
  <2>1. PICK m \in Bad : \A k \in Bad : m <= k
    BY <1>3, Least
  <2>2. CASE m = 0
    <3>1. \A x \in f[0] : CopyInv(h, b, e, a, 0, x)
      <4>1. ASSUME NEW x \in f[0] PROVE CopyInv(h, b, e, a, 0, x)
        <5>1. x = [h |-> h, s |-> <<>>, ok |-> TRUE]
          BY <1>2
        <5> QED BY <5>1, CopyFirst
      <4> QED BY <4>1
    <3> QED BY <2>1, <2>2, <3>1
  <2>3. CASE m # 0
    <3>1. m - 1 \in Nat /\ ~(m <= m - 1) /\ m \in 1 .. L /\ m - 1 <= L
      BY <1>1, <2>1, <2>3
    <3>2. \A x \in f[m - 1] : CopyInv(h, b, e, a, m - 1, x)
      BY <2>1, <3>1
    <3>3. \A y \in f[m] : CopyInv(h, b, e, a, m, y)
      <4>1. ASSUME NEW y \in f[m] PROVE CopyInv(h, b, e, a, m, y)
        <5>1. PICK x \in f[m - 1] : y \in CopyOne(x, s[m])
          BY <1>2, <3>1
        <5>2. CopyInv(h, b, e, a, m - 1, x)
          BY <3>2
        <5> HIDE DEF Bad
        <5> QED BY <3>1, <5>1, <5>2, CopyNext
      <4> QED BY <4>1
    <3> QED BY <2>1, <3>3
  <2> QED BY <2>2, <2>3
<1>4. L \notin Bad
  BY <1>3
<1>5. \A x \in f[L] : CopyInv(h, b, e, a, L, x)
  BY <1>1, <1>4
<1> QED BY <1>2, <1>5

\* The copy has the elements' copies, and nothing counts it yet.
LEMMA CopyOwns ==
  ASSUME NEW h, NEW b, NEW e, Owns(h, b, e, {}), NEW a \in Vals, TypeOf(h, a) \in Types \ NumberTypes,
         NEW c, CopyInv(h, b, e, a, Len(Slots(h, a)), c), c.ok, NEW r \in New(c.h, TypeOf(h, a), c.s)
  PROVE  Owns(r.h, b, e, {r.v}) /\ r.h.wild = h.wild /\ Usable(r.h, r.v) /\ r.v \in Ids
<1> DEFINE s == Slots(h, a)
           k == c.h
           u == c.s
           t == TypeOf(h, a)
<1>1. a \in Places /\ Usable(h, a) /\ h.o[a].type = t /\ t \in Types \ NumberTypes
  BY TypedUsable
<1>2. e \in [Ids -> Nat] /\ s \in Seq(Vals)
  <2>1. h \in Heaps /\ e \in [Ids -> Nat]
    BY DEF Owns, Shaped
  <2> QED BY <1>1, <2>1, HeapIs DEF Slots
<1>3. /\ u \in Seq(Vals) /\ Len(u) = Len(s) /\ Owns(k, b, With(e, u), {}) /\ k.wild = h.wild
      /\ Like(h, k, a) /\ Usable(k, a)
      /\ \A j \in 1 .. Len(s) : /\ TypeOf(k, u[j]) = TypeOf(k, s[j])
                                /\ TypeOf(k, u[j]) \in NumberTypes
  BY DEF CopyInv
<1>a. TypeOf(h, a) = t /\ r \in New(k, t, u)
  OBVIOUS
<1> HIDE DEF k, u, t
<1>4. k.o[a].type = t /\ Slots(k, a) = s /\ Shaped(k) /\ Slots(k, a) = k.o[a].slots
  BY <1>1, <1>3, <1>a, TypeOfId DEF Like, Owns, Slots
<1>5. FitsAs(k, t, u)
  <2> DEFINE z == [type |-> t, ref |-> 0, slots |-> u]
  <2>1. z.type = t /\ z.slots = u
    OBVIOUS
  <2>2. DOMAIN u = 1 .. Len(s) /\ DOMAIN s = 1 .. Len(s)
    BY <1>2, <1>3
  <2>3. Fits(k, k.o[a])
    BY <1>1, <1>4 DEF Shaped
  <2>4. /\ Len(s) <= MaxLen + 2 /\ (t = "struct" => Len(s) = 2 /\ TypeOf(k, s[1]) = "int")
        /\ (t = "union" => Len(s) <= 1) /\ (t = "dict" => Len(s) \in {0, 2})
    BY <1>4, <2>3 DEF Fits
  <2>5. t = "struct" => TypeOf(k, u[1]) = "int"
    <3>1. ASSUME t = "struct" PROVE 1 \in 1 .. Len(s)
      <4>1. Len(s) = 2
        BY <2>4, <3>1
      <4> HIDE DEF s
      <4> QED BY <4>1
    <3> QED BY <1>3, <2>4, <3>1
  <2>6. Fits(k, z)
    BY <1>1, <1>3, <2>1, <2>2, <2>4, <2>5 DEF Fits
  <2> QED BY <2>6 DEF FitsAs
<1>6. GivesAll(With(e, u), e, u)
  BY <1>2, <1>3, WithIs DEF GivesAll
<1>7. Newly(k, b, e, {}, r, t)
  <2> QED BY <1>1, <1>2, <1>3, <1>5, <1>6, <1>a, NewOwns
<1>8. Owns(r.h, b, e, {} \cup {r.v}) /\ r.h.wild = k.wild /\ r.v \in Ids
  BY <1>7 DEF Newly
<1>9. {} \cup {r.v} = {r.v}
  OBVIOUS
<1>10. Owns(r.h, b, e, {r.v})
  BY <1>8, <1>9
<1>11. r.v \in Vals
  BY <1>8 DEF Vals, Places
<1>12. Usable(r.h, r.v)
  BY <1>10, <1>11, HandUsable
<1> QED BY <1>3, <1>8, <1>10, <1>12

-----------------------------------------------------------------------------
(* What several opcodes do at their end.                                    *)

\* A result that nothing counts yet is pushed, or NULL fails.
LEMMA ResultEnds ==
  ASSUME Good, NEW op, NEW a, NEW h, NEW s \in Stacks, NEW v, v = NULL \/ v \in Vals, NEW d, NEW F,
         Owns(h, VT, d, F), \A i \in Ids : i \in F <=> i = v, Hands(op, a, d, {}, s), h.wild => Temp(op, a), op # "none",
         v = NULL => Failed(op, a, h, s), v # NULL => STACK_PUSH(op, a, h, s, v)
  PROVE  Outcome
<1>1. CASE v = NULL
  <2>1. NULL \notin Ids
    BY Apart DEF Vals, Places
  <2>2. Hands(op, a, d, F, s)
    BY <1>1, <2>1 DEF Hands
  <2> QED BY <1>1, <2>2, FailedEnds
<1>2. CASE v # NULL
  <2>1. Hands(op, a, d, F \ {v}, s)
    BY DEF Hands
  <2>2. Usable(h, v) /\ v \in Vals
    BY <1>2, HandUsable
  <2>3. Leave(op, a, object_ref(h, v), Append(s, v), vars, "runs")
    BY <1>2 DEF STACK_PUSH, Continue
  <2> QED BY <2>1, <2>2, <2>3, Pushes
<1> QED BY <1>1, <1>2

\* What Made says of the new object.
LEMMA MadeOwns ==
  ASSUME NEW h, NEW b, NEW e, NEW F, NEW r, Made(h, b, e, F, r)
  PROVE  /\ Owns(r.h, b, e, F \cup {r.v}) /\ r.h.wild = h.wild /\ (r.v = NULL \/ r.v \in Vals)
         /\ r.v # NULL => Usable(r.h, r.v)
BY DEF Made, Usable

\* Two operands and a result.
Ready(op, a, h, s, v) ==
  /\ v = NULL => Failed(op, a, h, s)
  /\ v # NULL => STACK_PUSH(op, a, h, s, v)

\* An operator with one operand: its result is made, the operand let go and the result pushed.
LEMMA OneEnds ==
  ASSUME Good, Holds(1), NEW op, op # "none", NEW r, Made(heap, VT, Plus(ST(Under(1)), Arg(1)), {}, r),
         Ready(op, Arg(1), object_unref(r.h, Arg(1)), Under(1), r.v)
  PROVE  Outcome
<1> DEFINE g == object_unref(r.h, Arg(1))
           s == Under(1)
<1>1. /\ s \in Stacks /\ Arg(1) \in Vals /\ ST(s) \in [Ids -> Nat] /\ ~heap.wild
  BY Popped
<1>2. Owns(r.h, VT, Plus(ST(s), Arg(1)), {} \cup {r.v}) /\ r.h.wild = heap.wild /\ (r.v = NULL \/ r.v \in Vals)
  BY MadeOwns
<1> HIDE DEF s
<1>3. Left(r.h, g, VT, ST(s), {} \cup {r.v})
  BY <1>1, <1>2, LetGo
<1>4. Owns(g, VT, ST(s), {} \cup {r.v}) /\ ~g.wild
  BY <1>1, <1>2, <1>3 DEF Left
<1>5. Ready(op, Arg(1), g, s, r.v)
  BY DEF s
<1> HIDE DEF g
<1>6. Hands(op, Arg(1), ST(s), {}, s)
  BY <1>1, StackHands
<1>7. \A i \in Ids : i \in {} \cup {r.v} <=> i = r.v
  OBVIOUS
<1> QED BY <1>1, <1>2, <1>4, <1>5, <1>6, <1>7, ResultEnds DEF Ready

\* An operator with two.
LEMMA TwoEnds ==
  ASSUME Good, Holds(2), NEW op, op # "none", NEW r, Made(heap, VT, Plus(Plus(ST(Under(2)), Arg(1)), Arg(2)), {}, r),
         Ready(op, Arg(2), object_unref(object_unref(r.h, Arg(2)), Arg(1)), Under(2), r.v)
  PROVE  Outcome
<1> DEFINE g == object_unref(object_unref(r.h, Arg(2)), Arg(1))
           s == Under(2)
<1>1. /\ s \in Stacks /\ Arg(1) \in Vals /\ Arg(2) \in Vals /\ ST(s) \in [Ids -> Nat] /\ ~heap.wild
  BY PoppedTwo
<1>2. Owns(r.h, VT, Plus(Plus(ST(s), Arg(1)), Arg(2)), {} \cup {r.v}) /\ r.h.wild = heap.wild /\ (r.v = NULL \/ r.v \in Vals)
  BY MadeOwns
<1> HIDE DEF s
<1>3. Left(r.h, g, VT, ST(s), {} \cup {r.v})
  BY <1>1, <1>2, LetGoTwo
<1>4. Owns(g, VT, ST(s), {} \cup {r.v}) /\ ~g.wild
  BY <1>1, <1>2, <1>3 DEF Left
<1>5. Ready(op, Arg(2), g, s, r.v)
  BY DEF s
<1> HIDE DEF g
<1>6. Hands(op, Arg(2), ST(s), {}, s)
  BY <1>1, StackHands
<1>7. \A i \in Ids : i \in {} \cup {r.v} <=> i = r.v
  OBVIOUS
<1> QED BY <1>1, <1>2, <1>4, <1>5, <1>6, <1>7, ResultEnds DEF Ready

\* An opcode that dies leaves all as it was.
LEMMA DiesEnds ==
  ASSUME Good, NEW op, NEW a, op # "none", Dies(op, a)
  PROVE  Outcome
<1>1. Owns(heap, VT, ST(stack), {}) /\ ~heap.wild /\ stack \in Stacks
  BY StartOwns DEF Good
<1>2. Hands(op, a, ST(stack), {}, stack)
  BY <1>1, StackHands
<1>3. Leave(op, a, heap, stack, vars, "dead")
  BY DEF Dies
<1> QED BY <1>1, <1>2, <1>3, Goes

-----------------------------------------------------------------------------
(* Each opcode.                                                             *)

LEMMA LoadConstOutcome ==
  ASSUME Good, program \in Programs, LoadConst
  PROVE  Outcome
<1>1. PICK c \in program.consts : STACK_PUSH("LOAD_CONST", c, heap, stack, c)
  BY DEF LoadConst
<1>2. c \in Vals /\ c \notin Ids
  BY RefsAssumption, ConstsAre DEF Vals, Places
<1>3. Owns(heap, VT, ST(stack), {}) /\ ~heap.wild /\ stack \in Stacks
  BY StartOwns DEF Good
<1>4. Hands("LOAD_CONST", c, ST(stack), {} \ {c}, stack)
  BY <1>3, StackHands
<1>5. Usable(heap, c)
  BY <1>2 DEF Usable
<1>6. Leave("LOAD_CONST", c, object_ref(heap, c), Append(stack, c), vars, "runs")
  BY <1>1 DEF STACK_PUSH, Continue
<1> QED BY <1>2, <1>3, <1>4, <1>5, <1>6, Pushes

\* LOAD_VAR pushes another reference to what the variable holds.
LEMMA LoadVarOutcome ==
  ASSUME Good, program \in Programs, LoadVar
  PROVE  Outcome
<1>1. PICK n \in program.names : IF vars[n] = Unset THEN Failed("LOAD_VAR", "null", heap, stack)
                                 ELSE STACK_PUSH("LOAD_VAR", vars[n], heap, stack, vars[n])
  BY DEF LoadVar
<1>2. n \in Names
  BY RefsAssumption DEF Names
<1>3. Owns(heap, VT, ST(stack), {}) /\ ~heap.wild /\ stack \in Stacks
  BY StartOwns DEF Good
<1>4. CASE vars[n] = Unset
  <2>1. Hands("LOAD_VAR", "null", ST(stack), {}, stack)
    BY <1>3, StackHands
  <2>2. Failed("LOAD_VAR", "null", heap, stack)
    BY <1>1, <1>4
  <2> QED BY <1>3, <2>1, <2>2, FailedEnds
<1>5. CASE vars[n] # Unset
  <2>1. Hands("LOAD_VAR", vars[n], ST(stack), {} \ {vars[n]}, stack)
    BY <1>3, StackHands
  <2>2. Leave("LOAD_VAR", vars[n], object_ref(heap, vars[n]), Append(stack, vars[n]), vars, "runs")
    BY <1>1, <1>5 DEF STACK_PUSH, Continue
  <2>3. Usable(heap, vars[n]) /\ vars[n] \in Vals
    BY <1>2, <1>3, <1>5, VarsStay
  <2> QED BY <1>3, <2>1, <2>2, <2>3, Pushes
<1> QED BY <1>4, <1>5

\* ENTER_TRY and LEAVE_BLOCK: the variables of the block are let go.
LEMMA EnterTryOutcome ==
  ASSUME Good, EnterTry
  PROVE  Outcome
<1>3. Owns(heap, VT, ST(stack), {}) /\ ~heap.wild /\ stack \in Stacks
  BY StartOwns DEF Good
<1>4. Hands("ENTER_BLOCK", "null", ST(stack), {}, stack)
  BY <1>3, StackHands
<1>5. Leave("ENTER_BLOCK", "null", heap, stack, vars, "runs")
  BY DEF EnterTry
<1> QED BY <1>3, <1>4, <1>5, Goes

LEMMA LeaveBlockOutcome ==
  ASSUME Good, LeaveBlock
  PROVE  Outcome
<1>3. Owns(heap, VT, ST(stack), {}) /\ ~heap.wild /\ stack \in Stacks /\ stack = <<>>
  BY StartOwns DEF Good, LeaveBlock
<1>4. ST(stack) \in [Ids -> Nat] /\ \A i \in Ids : ST(stack)[i] = 0
  BY <1>3, HandsAre, TimesShort
<1>5. Leave("LEAVE_BLOCK", "null", UnrefAll(heap, Values(Inner)), <<>>, Without(Inner), "runs")
  BY DEF LeaveBlock
<1>6. Inner \in SUBSET Names
  BY DEF Names
<1> QED BY <1>3, <1>4, <1>5, <1>6, Unwinds

\* The last operand goes, and the stack is empty.
LEMMA OneLetGo ==
  ASSUME Good, Holds(1)
  PROVE  /\ Owns(object_unref(heap, Arg(1)), VT, ST(Under(1)), {}) /\ ~object_unref(heap, Arg(1)).wild
         /\ Len(stack) = 1 => Under(1) = <<>>
<1>1. /\ Under(1) \in Stacks /\ Arg(1) \in Vals /\ ST(Under(1)) \in [Ids -> Nat] /\ ~heap.wild
      /\ Owns(heap, VT, Plus(ST(Under(1)), Arg(1)), {})
  BY Popped
<1>2. Left(heap, object_unref(heap, Arg(1)), VT, ST(Under(1)), {})
  BY <1>1, LetGo
<1>3. Len(stack) = 1 => Under(1) = <<>>
  BY DEF Under
<1> QED BY <1>1, <1>2, <1>3 DEF Left

\* POP_STACK lets go of its operand.
LEMMA PopStackOutcome ==
  ASSUME Good, PopStack
  PROVE  Outcome
<1>1. Len(stack) = 1 /\ Holds(1)
  BY DEF PopStack, Holds
<1>2. Leave("POP_STACK", Arg(1), object_unref(heap, Arg(1)), <<>>, vars, "runs")
  BY DEF PopStack, Continue
<1>3. Owns(object_unref(heap, Arg(1)), VT, ST(<<>>), {}) /\ ~object_unref(heap, Arg(1)).wild
  BY <1>1, OneLetGo
<1>4. <<>> \in Stacks
  BY DEF Stacks
<1>5. Hands("POP_STACK", Arg(1), ST(<<>>), {}, <<>>)
  BY <1>4, StackHands
<1> HIDE DEF Arg
<1> QED BY <1>2, <1>3, <1>4, <1>5, Goes

\* The conditional jumps let go of what they test.
LEMMA JumpOutcome ==
  ASSUME Good, Jump
  PROVE  Outcome
<1>1. Len(stack) = 1 /\ Holds(1)
  BY DEF Jump, Holds
<1>2. PICK st : Leave("JUMP", Arg(1), object_unref(heap, Arg(1)), <<>>, vars, st)
  BY DEF Jump, Test, Continue
<1>3. Owns(object_unref(heap, Arg(1)), VT, ST(<<>>), {}) /\ ~object_unref(heap, Arg(1)).wild
  BY <1>1, OneLetGo
<1>4. <<>> \in Stacks
  BY DEF Stacks
<1>5. Hands("JUMP", Arg(1), ST(<<>>), {}, <<>>)
  BY <1>4, StackHands
<1> QED BY <1>2, <1>3, <1>4, <1>5, Goes

LEMMA JumpCaseOutcome ==
  ASSUME Good, JumpCase
  PROVE  Outcome
<1> DEFINE g == object_unref(heap, Arg(1))
           f == object_unref(g, Arg(2))
<1>1. Len(stack) = 2 /\ Holds(1) /\ Holds(2)
  BY DEF JumpCase, Holds
<1>2. \/ Leave("JUMP_CASE", Arg(2), g, <<Arg(2)>>, vars, "runs")
      \/ Leave("JUMP_CASE", Arg(2), f, <<>>, vars, "runs")
  BY DEF JumpCase, Continue
<1>3. Owns(g, VT, ST(Under(1)), {}) /\ ~g.wild /\ Under(1) \in Stacks
  BY <1>1, OneLetGo, Popped
<1>4. /\ Under(2) \in Stacks /\ Arg(1) \in Vals /\ Arg(2) \in Vals /\ ST(Under(2)) \in [Ids -> Nat]
      /\ Owns(heap, VT, Plus(Plus(ST(Under(2)), Arg(1)), Arg(2)), {}) /\ ~heap.wild
  BY <1>1, PoppedTwo
<1>5. Left(heap, f, VT, ST(Under(2)), {})
  BY <1>4, LetGoTwo
<1>6. Under(1) = <<Arg(2)>> /\ Under(2) = <<>>
  <2>1. stack \in Seq(Vals)
    BY DEF Good, Stacks
  <2>2. Len(stack) - 1 = 1 /\ Len(stack) - 2 = 0 /\ Len(stack) + 1 - 2 = 1
    BY <1>1
  <2>3. Under(1) = SubSeq(stack, 1, 1) /\ Under(2) = SubSeq(stack, 1, 0) /\ Arg(2) = stack[1]
    BY <2>2 DEF Under, Arg
  <2> QED BY <1>1, <2>1, <2>3
<1> HIDE DEF f, g
<1>7. CASE Leave("JUMP_CASE", Arg(2), g, <<Arg(2)>>, vars, "runs")
  <2>1. Leave("JUMP_CASE", Arg(2), g, Under(1), vars, "runs")
    BY <1>6, <1>7
  <2>2. Hands("JUMP_CASE", Arg(2), ST(Under(1)), {}, Under(1))
    BY <1>3, StackHands
  <2> QED BY <1>3, <2>1, <2>2, Goes
<1>8. CASE Leave("JUMP_CASE", Arg(2), f, <<>>, vars, "runs")
  <2>1. Leave("JUMP_CASE", Arg(2), f, Under(2), vars, "runs")
    BY <1>6, <1>8
  <2>2. Hands("JUMP_CASE", Arg(2), ST(Under(2)), {}, Under(2))
    BY <1>4, StackHands
  <2>3. Owns(f, VT, ST(Under(2)), {}) /\ ~f.wild
    BY <1>4, <1>5 DEF Left
  <2> QED BY <1>4, <2>1, <2>2, <2>3, Goes
<1> QED BY <1>2, <1>7, <1>8

LEMMA ConSelOutcome ==
  ASSUME Good, ConSel
  PROVE  Outcome
<1>1. Holds(3)
  BY DEF ConSel
<1>2. PICK other, taken, st :
        /\ (other = Arg(1) /\ taken = Arg(2)) \/ (other = Arg(2) /\ taken = Arg(1))
        /\ Leave("CON_SEL", Arg(3), object_unref(object_unref(heap, Arg(3)), other), Append(Under(3), taken), vars, st)
  <2>1. PICK zero \in IF IsNumber(heap, Arg(3)) THEN BOOLEAN ELSE {TRUE} :
          LET other == IF zero THEN Arg(2) ELSE Arg(1)
              taken == IF zero THEN Arg(1) ELSE Arg(2)
          IN  Test("CON_SEL", Arg(3), object_unref(object_unref(heap, Arg(3)), other), Append(Under(3), taken))
    BY DEF ConSel
  <2> DEFINE o == IF zero THEN Arg(2) ELSE Arg(1)
             t == IF zero THEN Arg(1) ELSE Arg(2)
  <2>2. Test("CON_SEL", Arg(3), object_unref(object_unref(heap, Arg(3)), o), Append(Under(3), t))
    BY <2>1
  <2>3. (o = Arg(1) /\ t = Arg(2)) \/ (o = Arg(2) /\ t = Arg(1))
    OBVIOUS
  <2> HIDE DEF o, t
  <2>4. \E st : Leave("CON_SEL", Arg(3), object_unref(object_unref(heap, Arg(3)), o), Append(Under(3), t), vars, st)
    BY <2>2 DEF Test, Continue
  <2> QED BY <2>3, <2>4
<1>3. /\ Under(3) \in Stacks /\ Arg(1) \in Vals /\ Arg(2) \in Vals /\ Arg(3) \in Vals
      /\ ST(Under(3)) \in [Ids -> Nat]
      /\ Owns(heap, VT, Plus(Plus(Plus(ST(Under(3)), Arg(3)), Arg(1)), Arg(2)), {}) /\ ~heap.wild
  BY <1>1, PoppedThree
<1> DEFINE e == ST(Under(3))
           d == Plus(e, taken)
           c == Plus(Plus(d, other), Arg(3))
           g == object_unref(object_unref(heap, Arg(3)), other)
<1>4. taken \in Vals /\ other \in Vals
  BY <1>2, <1>3
<1>5. d \in [Ids -> Nat] /\ \A i \in Ids : d[i] = e[i] + One(taken, i)
  BY <1>3, PlusIs
<1>6. Owns(heap, VT, c, {})
  <2>1. Plus(d, other) \in [Ids -> Nat]
    BY <1>5, PlusIs
  <2>2. c \in [Ids -> Nat]
    BY <2>1, PlusIs
  <2>3. \A i \in Ids : Plus(Plus(Plus(e, Arg(3)), Arg(1)), Arg(2))[i] = c[i]
    <3> TAKE i \in Ids
    <3>1. One(Arg(1), i) \in Nat /\ One(Arg(2), i) \in Nat /\ One(Arg(3), i) \in Nat
      BY DEF One
    <3>2. e[i] \in Nat
      BY <1>3
    <3>3. Plus(Plus(Plus(e, Arg(3)), Arg(1)), Arg(2))[i] = ((e[i] + One(Arg(3), i)) + One(Arg(1), i)) + One(Arg(2), i)
      BY DEF Plus
    <3>4. c[i] = ((e[i] + One(taken, i)) + One(other, i)) + One(Arg(3), i)
      BY DEF Plus
    <3> HIDE DEF e, c
    <3> QED BY <1>2, <3>1, <3>2, <3>3, <3>4
  <2> HIDE DEF c
  <2> QED BY <1>3, <2>2, <2>3, SameE
<1> HIDE DEF d
<1>7. Left(heap, g, VT, d, {})
  BY <1>3, <1>4, <1>5, <1>6, LetGoTwo
<1>8. Owns(g, VT, d, {}) /\ ~g.wild
  BY <1>3, <1>7 DEF Left
<1>9. Leave("CON_SEL", Arg(3), g, Append(Under(3), taken), vars, st)
  BY <1>2
<1> HIDE DEF g
<1>10. Append(Under(3), taken) \in Stacks /\ Hands("CON_SEL", Arg(3), d, {}, Append(Under(3), taken))
  <2>1. \A i \in Ids : Times(i, Append(Under(3), taken)) = Times(i, Under(3)) + One(taken, i)
    BY <1>3, <1>4, TimesAppend DEF Stacks
  <2>2. Append(Under(3), taken) \in Stacks
    BY <1>3, <1>4 DEF Stacks
  <2>3. \A i \in Ids : e[i] = Times(i, Under(3))
    BY <1>3, HandsAre
  <2>4. \A i \in Ids : Times(i, Append(Under(3), taken)) = d[i] /\ d[i] \in Nat
    BY <1>5, <2>1, <2>3
  <2>5. \A i \in Ids : Times(i, Append(Under(3), taken)) <= d[i]
    BY <2>4
  <2> QED BY <2>2, <2>4, <2>5 DEF Hands
<1> QED BY <1>8, <1>9, <1>10, Goes

\* Conversions and operators.
LEMMA TypeCastOutcome ==
  ASSUME Good, TypeCast
  PROVE  Outcome
<1>1. Holds(1)
  BY DEF TypeCast
<1>2. PICK t \in NumberTypes \cup program.kinds : \E r \in object_cast(heap, Arg(1), t) :
        Ready("TYPE_CAST", Arg(1), object_unref(r.h, Arg(1)), Under(1), r.v)
  BY DEF TypeCast, Ready
<1>5. PICK r \in object_cast(heap, Arg(1), t) :
        Ready("TYPE_CAST", Arg(1), object_unref(r.h, Arg(1)), Under(1), r.v)
  BY <1>2
<1>3. Owns(heap, VT, Plus(ST(Under(1)), Arg(1)), {}) /\ Usable(heap, Arg(1))
  BY <1>1, Popped
<1>4. Made(heap, VT, Plus(ST(Under(1)), Arg(1)), {}, r)
  BY <1>3, CastMade
<1> QED BY <1>1, <1>5, <1>4, OneEnds

LEMMA UnaryOutcome ==
  ASSUME Good, Unary
  PROVE  Outcome
<1>1. Holds(1)
  BY DEF Unary
<1>2. PICK r \in Calculated(heap, Arg(1), "small") :
        Ready("UNARY", Arg(1), object_unref(r.h, Arg(1)), Under(1), r.v)
  BY DEF Unary, Ready
<1>3. Owns(heap, VT, Plus(ST(Under(1)), Arg(1)), {}) /\ Usable(heap, Arg(1)) /\ Arg(1) \in Vals
  BY <1>1, Popped
<1>4. Usable(heap, "small")
  BY ConstsAre, Apart DEF Usable, Vals
<1>5. Made(heap, VT, Plus(ST(Under(1)), Arg(1)), {}, r)
  BY <1>3, <1>4, CalculatedMade
<1> QED BY <1>1, <1>2, <1>5, OneEnds

LEMMA BinaryOutcome ==
  ASSUME Good, Binary
  PROVE  Outcome
<1>1. Holds(2)
  BY DEF Binary
<1>2. PICK r \in Calculated(heap, Arg(2), Arg(1)) :
        Ready("BINARY", Arg(2), object_unref(object_unref(r.h, Arg(2)), Arg(1)), Under(2), r.v)
  BY DEF Binary, Ready
<1>3. /\ Owns(heap, VT, Plus(Plus(ST(Under(2)), Arg(1)), Arg(2)), {}) /\ Usable(heap, Arg(1)) /\ Usable(heap, Arg(2))
      /\ Arg(2) \in Vals
  BY <1>1, PoppedTwo
<1>5. Made(heap, VT, Plus(Plus(ST(Under(2)), Arg(1)), Arg(2)), {}, r)
  BY <1>3, CalculatedMade
<1> QED BY <1>1, <1>2, <1>5, TwoEnds

-----------------------------------------------------------------------------
\* A variable that was not set has its first value.
LEMMA DeclareEnds ==
  ASSUME Good, NEW n \in Names, vars[n] = Unset, NEW w \in Vals, NEW op, NEW a, op # "none", NEW st,
         NEW h, NEW F, Owns(h, VT, Plus(ST(<<>>), w), F), F \cap Ids = {}, ~h.wild,
         Leave(op, a, h, <<>>, [vars EXCEPT ![n] = w], st)
  PROVE  Outcome
<1>1. <<>> \in Stacks /\ ST(<<>>) \in [Ids -> Nat]
  <2>1. <<>> \in Stacks
    BY DEF Stacks
  <2> QED BY <2>1, HandsAre
<1> DEFINE e == ST(<<>>)
           d == Plus(e, w)
<1>2. d \in [Ids -> Nat]
  BY <1>1, PlusIs
<1> HIDE DEF e
<1>3. Owns(h, But(n), Plus(d, vars[n]), F)
  <2>1. Owns(h, VT, d, F)
    BY DEF e
  <2> HIDE DEF d
  <2> QED BY <2>1, MoveVar
<1>4. Owns(h, But(n), d, F)
  <2>1. \A i \in Ids : Plus(d, vars[n])[i] = d[i]
    <3> TAKE i \in Ids
    <3>1. One(vars[n], i) = 0
      BY Apart DEF One, Vals, Places
    <3>2. d[i] \in Nat
      BY <1>2
    <3> HIDE DEF d
    <3> QED BY <3>1, <3>2 DEF Plus
  <2> HIDE DEF d
  <2> QED BY <1>2, <1>3, <2>1, SameE
<1>5. Hands(op, a, e, F, <<>>)
  BY <1>1, StackHands DEF e
<1>6. e \in [Ids -> Nat]
  BY <1>1 DEF e
<1> QED BY <1>1, <1>4, <1>5, <1>6, Stores

\* A new value, counted.
LEMMA Counts ==
  ASSUME NEW h, NEW b, NEW e \in [Ids -> Nat], NEW F, Owns(h, b, e, F), NEW v, Usable(h, v)
  PROVE  Referred(h, object_ref(h, v), b, Plus(e, v), F \ {v})
<1>1. Plus(e, v) \in [Ids -> Nat] /\ Gives(Plus(e, v), e, v)
  BY PlusGives
<1> QED BY <1>1, AddRef

\* Stores into a variable, with and without a previous value.
LEMMA StoreDefOutcome ==
  ASSUME Good, program \in Programs, StoreDef
  PROVE  Outcome
<1>1. PICK n \in Declarable, t \in NumberTypes \cup program.kinds : \E b \in object_get_default(heap, t) :
       IF b.v = NULL THEN Failed("STORE_DEF", "null", b.h, stack)
       ELSE IF vars[n] # Unset THEN Failed("STORE_DEF", "null", object_free(b.h, b.v), stack)
       ELSE Continue("STORE_DEF", "null", object_ref(b.h, b.v), stack, [vars EXCEPT ![n] = b.v])
  BY DEF StoreDef
<1>2. PICK b \in object_get_default(heap, t) :
       IF b.v = NULL THEN Failed("STORE_DEF", "null", b.h, stack)
       ELSE IF vars[n] # Unset THEN Failed("STORE_DEF", "null", object_free(b.h, b.v), stack)
       ELSE Continue("STORE_DEF", "null", object_ref(b.h, b.v), stack, [vars EXCEPT ![n] = b.v])
  BY <1>1
<1>3. n \in Names /\ t \in Types
  BY RefsAssumption DEF Declarable, Names, Types, Compounds
<1>4. Owns(heap, VT, ST(stack), {}) /\ ~heap.wild /\ stack \in Stacks /\ stack = <<>>
  BY StartOwns DEF Good, StoreDef
<1>5. /\ Owns(b.h, VT, ST(stack), {} \cup {b.v}) /\ ~b.h.wild
      /\ b.v # NULL => Usable(b.h, b.v)
  BY <1>3, <1>4, DefaultOwns
<1>6. ST(stack) \in [Ids -> Nat]
  BY <1>4, HandsAre
<1>7. CASE b.v = NULL
  <2>1. NULL \notin Ids
    BY Apart DEF Vals, Places
  <2>2. Hands("STORE_DEF", "null", ST(stack), {} \cup {b.v}, stack)
    BY <1>4, <1>7, <2>1, StackHands
  <2>3. Failed("STORE_DEF", "null", b.h, stack)
    BY <1>2, <1>7
  <2> QED BY <1>4, <1>5, <2>2, <2>3, FailedEnds
<1>8. CASE b.v # NULL /\ vars[n] # Unset
  <2>1. Owns(object_free(b.h, b.v), VT, ST(stack), ({} \cup {b.v}) \ {b.v}) /\ ~object_free(b.h, b.v).wild
    BY <1>5, FreeOwns
  <2>2. ({} \cup {b.v}) \ {b.v} = {}
    OBVIOUS
  <2>3. Failed("STORE_DEF", "null", object_free(b.h, b.v), stack)
    BY <1>2, <1>8
  <2>4. Hands("STORE_DEF", "null", ST(stack), {}, stack)
    BY <1>4, StackHands
  <2>5. Owns(object_free(b.h, b.v), VT, ST(stack), {})
    BY <2>1, <2>2
  <2> QED BY <1>4, <2>1, <2>3, <2>4, <2>5, FailedEnds
<1>9. CASE b.v # NULL /\ vars[n] = Unset
  <2>1. Usable(b.h, b.v) /\ b.v \in Vals
    BY <1>5, <1>9 DEF Usable
  <2>2. Referred(b.h, object_ref(b.h, b.v), VT, Plus(ST(stack), b.v), ({} \cup {b.v}) \ {b.v})
    BY <1>5, <1>6, <2>1, Counts
  <2>3. /\ Owns(object_ref(b.h, b.v), VT, Plus(ST(stack), b.v), ({} \cup {b.v}) \ {b.v})
        /\ ~object_ref(b.h, b.v).wild
    BY <1>5, <2>2 DEF Referred
  <2>4. Leave("STORE_DEF", "null", object_ref(b.h, b.v), <<>>, [vars EXCEPT ![n] = b.v], "runs")
    BY <1>2, <1>4, <1>9 DEF Continue
  <2>5. (({} \cup {b.v}) \ {b.v}) \cap Ids = {}
    OBVIOUS
  <2>6. Owns(object_ref(b.h, b.v), VT, Plus(ST(<<>>), b.v), ({} \cup {b.v}) \ {b.v})
    BY <1>4, <2>3
  <2> QED BY <1>3, <1>9, <2>1, <2>3, <2>4, <2>5, <2>6, DeclareEnds
<1> QED BY <1>7, <1>8, <1>9

LEMMA StoreLocalOutcome ==
  ASSUME Good, program \in Programs, StoreLocal
  PROVE  Outcome
<1> DEFINE b == Arg(1)
           e == ST(<<>>)
           op == "STORE_LOCAL"
<1>1. PICK n \in Declarable, t \in NumberTypes \cup program.kinds :
        \E c \in IF TypeOf(heap, b) = t THEN {Got(heap, b)} ELSE object_cast(heap, b, t) :
             LET g == object_unref(c.h, b)
                 held == IF c.v = b THEN c.h ELSE object_ref(g, c.v)
             IN  IF c.v = NULL THEN Failed(op, b, g, <<>>)
                 ELSE IF vars[n] # Unset THEN Failed(op, b, object_unref(held, c.v), <<>>)
                 ELSE Continue(op, b, object_unref(object_ref(held, c.v), c.v), <<>>, [vars EXCEPT ![n] = c.v])
  BY DEF StoreLocal
<1>2. PICK c \in IF TypeOf(heap, b) = t THEN {Got(heap, b)} ELSE object_cast(heap, b, t) :
             LET g == object_unref(c.h, b)
                 held == IF c.v = b THEN c.h ELSE object_ref(g, c.v)
             IN  IF c.v = NULL THEN Failed(op, b, g, <<>>)
                 ELSE IF vars[n] # Unset THEN Failed(op, b, object_unref(held, c.v), <<>>)
                 ELSE Continue(op, b, object_unref(object_ref(held, c.v), c.v), <<>>, [vars EXCEPT ![n] = c.v])
  BY <1>1
<1> DEFINE g == object_unref(c.h, b)
           held == IF c.v = b THEN c.h ELSE object_ref(g, c.v)
<1>3. Holds(1) /\ n \in Names /\ Len(stack) = 1
  BY DEF StoreLocal, Holds, Declarable, Names
<1>4. Under(1) = <<>>
  BY <1>3 DEF Under
<1>5. b \in Vals /\ e \in [Ids -> Nat] /\ Owns(heap, VT, Plus(e, b), {}) /\ Usable(heap, b) /\ ~heap.wild
  BY <1>3, <1>4, Popped
<1>6. <<>> \in Stacks
  BY DEF Stacks
<1> HIDE DEF e
<1>8. PICK F : /\ Owns(c.h, VT, Plus(e, b), F) /\ ~c.h.wild /\ (c.v = NULL \/ Usable(c.h, c.v))
               /\ (c.v = b => F \cap Ids = {}) /\ (c.v # b => F \cap Ids \subseteq {c.v} /\ (c.v \in Ids => c.v \in F))
  <2>1. CASE TypeOf(heap, b) = t
    <3>1. c.h = heap /\ c.v = b
      BY <2>1, <1>2 DEF Got
    <3>2. {} \cap Ids = {}
      OBVIOUS
    <3> QED BY <1>5, <3>1, <3>2
  <2>2. CASE TypeOf(heap, b) # t
    <3>1. c \in object_cast(heap, b, t)
      BY <1>2, <2>2
    <3>2. Made(heap, VT, Plus(e, b), {}, c)
      BY <1>5, <3>1, CastMade
    <3>3. Owns(c.h, VT, Plus(e, b), {} \cup {c.v}) /\ ~c.h.wild /\ (c.v = NULL \/ Usable(c.h, c.v)) /\ (c.v \in Ids => ~Live(heap, c.v))
      BY <1>5, <3>2 DEF Made
    <3>4. c.v = b => ({} \cup {c.v}) \cap Ids = {}
      BY <1>5, <3>3 DEF Usable
    <3> QED BY <3>3, <3>4
  <2> QED BY <2>1, <2>2
<1> HIDE DEF b
<1>9. Owns(g, VT, e, F) /\ ~g.wild
  <2>1. Left(c.h, g, VT, e, F)
    BY <1>5, <1>8, LetGo
  <2> QED BY <1>8, <2>1 DEF Left
<1>10. CASE c.v = NULL
  <2>1. Failed(op, b, g, <<>>)
    BY <1>2, <1>10
  <2>2. F \cap Ids = {}
    BY <1>8, <1>10, Apart DEF Vals, Places
  <2>3. Hands(op, b, e, F, <<>>)
    BY <1>6, <2>2, StackHands DEF e
  <2> QED BY <1>6, <1>9, <2>1, <2>3, FailedEnds
<1>11. CASE c.v # NULL
  <2>1. PICK G : Owns(held, VT, Plus(e, c.v), G) /\ ~held.wild /\ G \cap Ids = {}
    <3>1. CASE c.v = b
      BY <1>8, <3>1
    <3>2. CASE c.v # b
      <4>1. Usable(g, c.v)
        <5>1. c.v \in Vals /\ (c.v \in Ids => c.v \in F)
          BY <1>8, <1>11, <3>2 DEF Usable
        <5> QED BY <1>9, <5>1, HandUsable
      <4>2. Referred(g, object_ref(g, c.v), VT, Plus(e, c.v), F \ {c.v})
        BY <1>5, <1>9, <4>1, Counts
      <4>3. (F \ {c.v}) \cap Ids = {}
        BY <1>8, <3>2
      <4> HIDE DEF g
      <4> QED BY <1>9, <3>2, <4>2, <4>3 DEF Referred
    <3> QED BY <3>1, <3>2
  <2>2. c.v \in Vals
    BY <1>8, <1>11 DEF Usable
  <2>3. /\ vars[n] # Unset => Failed(op, b, object_unref(held, c.v), <<>>)
        /\ vars[n] = Unset => Leave(op, b, object_unref(object_ref(held, c.v), c.v), <<>>, [vars EXCEPT ![n] = c.v], "runs")
    BY <1>2, <1>11 DEF Continue
  <2> HIDE DEF held
  <2>4. CASE vars[n] # Unset
    <3>1. Left(held, object_unref(held, c.v), VT, e, G)
      BY <1>5, <2>1, <2>2, LetGo
    <3>2. Owns(object_unref(held, c.v), VT, e, G) /\ ~object_unref(held, c.v).wild
      BY <2>1, <3>1 DEF Left
    <3>3. Hands(op, b, e, G, <<>>)
      BY <1>6, <2>1, StackHands DEF e
    <3> QED BY <1>6, <2>3, <2>4, <3>2, <3>3, FailedEnds
  <2>5. CASE vars[n] = Unset
    <3>1. Plus(e, c.v) \in [Ids -> Nat] /\ Gives(Plus(e, c.v), e, c.v)
      BY <1>5, PlusGives
    <3>2. Usable(held, c.v)
      BY <1>5, <2>1, <2>2, <3>1, GivesUsable
    <3>3. Referred(held, object_ref(held, c.v), VT, Plus(Plus(e, c.v), c.v), G \ {c.v})
      BY <2>1, <3>1, <3>2, Counts
    <3> DEFINE k == object_ref(held, c.v)
    <3>4. Owns(k, VT, Plus(Plus(e, c.v), c.v), G \ {c.v}) /\ ~k.wild
      BY <2>1, <3>3 DEF Referred
    <3> HIDE DEF k
    <3>5. Left(k, object_unref(k, c.v), VT, Plus(e, c.v), G \ {c.v})
      BY <2>2, <3>1, <3>4, LetGo
    <3>6. Owns(object_unref(k, c.v), VT, Plus(ST(<<>>), c.v), G \ {c.v}) /\ ~object_unref(k, c.v).wild
      BY <3>4, <3>5 DEF Left, e
    <3>7. (G \ {c.v}) \cap Ids = {}
      BY <2>1
    <3>8. Leave(op, b, object_unref(k, c.v), <<>>, [vars EXCEPT ![n] = c.v], "runs")
      BY <2>3, <2>5 DEF k
    <3> QED BY <1>3, <2>2, <2>5, <3>6, <3>7, <3>8, DeclareEnds
  <2> QED BY <2>4, <2>5
<1> QED BY <1>10, <1>11

-----------------------------------------------------------------------------

LEMMA StoreVarOutcome ==
  ASSUME Good, program \in Programs, StoreVar
  PROVE  Outcome
<1> DEFINE a == Arg(1)
           e == ST(stack)
<1>1. PICK n \in program.names : \E c \in frame_store_var(heap, vars, n, a) :
       IF c.prev = NULL THEN Failed("STORE_VAR", a, c.h, stack)
       ELSE Continue("STORE_VAR", a, object_unref(c.h, c.prev), stack, c.vars)
  BY DEF StoreVar
<1>2. PICK c \in frame_store_var(heap, vars, n, a) :
       IF c.prev = NULL THEN Failed("STORE_VAR", a, c.h, stack)
       ELSE Continue("STORE_VAR", a, object_unref(c.h, c.prev), stack, c.vars)
  BY <1>1
<1>3. Holds(1) /\ n \in Names
  BY RefsAssumption DEF StoreVar, Names
<1>4. Owns(heap, VT, e, {}) /\ ~heap.wild /\ stack \in Stacks
  BY StartOwns DEF Good
<1>5. Usable(heap, a)
  BY <1>3, Popped
<1>6. e \in [Ids -> Nat] /\ Hands("STORE_VAR", a, e, {}, stack)
  BY <1>4, HandsAre, StackHands
<1>7. FrameStored(heap, e, {}, n, a, c)
  BY <1>3, <1>4, <1>5, FrameOwns
<1> HIDE DEF a, e
<1>8. CASE c.prev = NULL
  <2>1. Owns(c.h, VT, e, {}) /\ ~c.h.wild
    BY <1>4, <1>7, <1>8 DEF FrameStored
  <2>2. Failed("STORE_VAR", a, c.h, stack)
    BY <1>2, <1>8
  <2> QED BY <1>4, <1>6, <2>1, <2>2, FailedEnds
<1>9. CASE c.prev # NULL
  <2>1. PICK w \in Vals : /\ c.prev = vars[n] /\ vars[n] \in Vals /\ c.vars = [vars EXCEPT ![n] = w]
                          /\ Owns(c.h, But(n), Plus(Plus(e, w), vars[n]), {} \ {w}) /\ c.h.wild = heap.wild
                          /\ TypeOf(c.h, w) = TypeOf(heap, vars[n])
    BY <1>7, <1>9 DEF FrameStored
  <2> DEFINE g == object_unref(c.h, vars[n])
  <2>2. Leave("STORE_VAR", a, g, stack, [vars EXCEPT ![n] = w], "runs")
    BY <1>2, <1>9, <2>1 DEF Continue
  <2>3. Plus(e, w) \in [Ids -> Nat] /\ Gives(Plus(e, w), e, w)
    BY <1>6, PlusGives
  <2>4. Left(c.h, g, But(n), Plus(e, w), {} \ {w})
    BY <2>1, <2>3, LetGo
  <2> HIDE DEF g
  <2>5. Owns(g, But(n), Plus(e, w), {} \ {w}) /\ ~g.wild /\ Same(c.h, g)
    BY <1>4, <2>1, <2>4 DEF Left
  <2>6. Usable(g, w)
    BY <1>6, <2>3, <2>5, GivesUsable
  <2>7. TypeOf(g, w) = TypeOf(heap, vars[n])
    <3>1. Shaped(g)
      BY <2>5 DEF Owns
    <3>2. Like(c.h, g, w)
      BY <2>5, <2>6, <3>1, SameLike
    <3> QED BY <2>1, <3>2 DEF Like
  <2>8. Hands("STORE_VAR", a, e, {} \ {w}, stack)
    BY <1>6
  <2> QED BY <1>3, <1>4, <1>6, <2>2, <2>5, <2>7, <2>8, Stores
<1> QED BY <1>8, <1>9

\* The result of an operation on a variable is stored there and pushed.
LEMMA FrameEnds ==
  ASSUME Good, NEW op, NEW a, op # "none", NEW h, NEW s \in Stacks, NEW F, NEW n \in Names, NEW v, Usable(h, v),
         \A i \in Ids : i \in F <=> i = v, NEW c, FrameStored(h, ST(s), F, n, v, c), c.prev # NULL, ~h.wild,
         Leave(op, a, object_ref(object_unref(c.h, c.prev), v), Append(s, v), c.vars, "runs")
  PROVE  Outcome
<1> DEFINE e == ST(s)
<1>0. e \in [Ids -> Nat] /\ v \in Vals
  BY HandsAre DEF Usable
<1>7. FrameStored(h, e, F, n, v, c)
  OBVIOUS
<1> HIDE DEF e
<1>1. PICK w \in Vals : /\ c.prev = vars[n] /\ vars[n] \in Vals /\ c.vars = [vars EXCEPT ![n] = w]
                        /\ Owns(c.h, But(n), Plus(Plus(e, w), vars[n]), F \ {w}) /\ ~c.h.wild
                        /\ TypeOf(c.h, w) = TypeOf(heap, vars[n])
  BY <1>7 DEF FrameStored
<1> DEFINE g == object_unref(c.h, vars[n])
           k == object_ref(g, v)
<1>2. Leave(op, a, k, Append(s, v), [vars EXCEPT ![n] = w], "runs")
  BY <1>1
<1>3. Plus(e, w) \in [Ids -> Nat] /\ Gives(Plus(e, w), e, w)
  BY <1>0, PlusGives
<1>4. Left(c.h, g, But(n), Plus(e, w), F \ {w})
  BY <1>1, <1>3, LetGo
<1> HIDE DEF g
<1>5. Owns(g, But(n), Plus(e, w), F \ {w}) /\ ~g.wild /\ Same(c.h, g)
  BY <1>1, <1>4 DEF Left
<1>6. Usable(g, w) /\ Usable(g, v)
  <2>1. Usable(g, w)
    BY <1>0, <1>3, <1>5, GivesUsable
  <2>2. CASE v = w
    BY <2>1, <2>2
  <2>3. CASE v # w
    <3> DEFINE d == Plus(e, w)
               G == F \ {w}
    <3>1. v \in Ids => v \in G
      BY <2>3
    <3>2. Owns(g, But(n), d, G)
      BY <1>5
    <3> HIDE DEF d, G
    <3>3. v \in Vals /\ (v \in Ids => d[v] > 0 \/ But(n)[v] > 0 \/ v \in G)
      BY <1>0, <3>1
    <3>4. Usable(g, v)
      BY <3>2, <3>3, HandUsable
    <3> QED BY <2>1, <3>4
  <2> QED BY <2>1, <2>2, <2>3
<1>8. TypeOf(g, w) = TypeOf(heap, vars[n])
  <2>1. Shaped(g)
    BY <1>5 DEF Owns
  <2>2. Like(c.h, g, w)
    BY <1>5, <1>6, <2>1, SameLike
  <2> QED BY <1>1, <2>2 DEF Like
<1>9. Referred(g, k, But(n), Plus(Plus(e, w), v), (F \ {w}) \ {v})
  BY <1>3, <1>5, <1>6, Counts
<1> HIDE DEF k
<1>10. Owns(k, But(n), Plus(Plus(e, w), v), (F \ {w}) \ {v}) /\ ~k.wild
  BY <1>5, <1>9 DEF Referred
<1>11. TypeOf(k, w) = TypeOf(heap, vars[n])
  <2>1. Widens(g, k)
    BY <1>9, WidensReferred
  <2> QED BY <1>6, <1>8, <2>1 DEF Widens, Like
<1>12. Owns(k, But(n), Plus(Plus(e, v), w), (F \ {w}) \ {v})
  BY <1>0, <1>10, PlusSwap
<1>13. Plus(e, v) \in [Ids -> Nat] /\ \A i \in Ids : Plus(e, v)[i] = e[i] + One(v, i)
  BY <1>0, PlusIs
<1>14. Append(s, v) \in Stacks
  BY <1>0 DEF Stacks
<1>15. Hands(op, a, Plus(e, v), (F \ {w}) \ {v}, Append(s, v))
  <2>1. \A i \in Ids : Times(i, Append(s, v)) = Times(i, s) + One(v, i)
    BY <1>0, TimesAppend DEF Stacks
  <2>3. \A i \in Ids : e[i] = Times(i, s)
    BY HandsAre DEF e
  <2>4. \A i \in Ids : Times(i, Append(s, v)) = Plus(e, v)[i] /\ Plus(e, v)[i] \in Nat
    BY <1>13, <2>1, <2>3
  <2>5. \A i \in Ids : Times(i, Append(s, v)) <= Plus(e, v)[i]
    BY <2>4
  <2>6. ((F \ {w}) \ {v}) \cap Ids = {}
    OBVIOUS
  <2> QED BY <2>4, <2>5, <2>6 DEF Hands
<1> QED BY <1>2, <1>10, <1>11, <1>12, <1>13, <1>14, <1>15, Stores

-----------------------------------------------------------------------------
\* One more than an int or a double is of the same type.
LEMMA HigherKeeps == \A t \in {"int", "double"} : Higher(t, "int") = t
<1> SUFFICES ASSUME NEW t \in {"int", "double"} PROVE Higher(t, "int") = t
  OBVIOUS
<1> DEFINE u == "int"
           P(x) == \E i \in 1 .. 3 : Ranked[i] = x /\ \A j \in i + 1 .. 3 : Ranked[j] \notin {t, u}
<1>1. Ranked[1] = "short" /\ Ranked[2] = "int" /\ Ranked[3] = "double"
  BY DEF Ranked
<1>2. CASE t = "double"
  <2>1. P("double")
    <3>1. Ranked[3] = "double" /\ \A j \in 3 + 1 .. 3 : Ranked[j] \notin {t, u}
      BY <1>1
    <3> QED BY <3>1
  <2>2. ~P("int")
    <3>1. ASSUME NEW i \in 1 .. 3, Ranked[i] = "int", \A j \in i + 1 .. 3 : Ranked[j] \notin {t, u} PROVE FALSE
      <4>1. i = 2
        BY <1>1, <3>1
      <4>2. Ranked[3] \notin {t, u}
        BY <3>1, <4>1
      <4> QED BY <1>1, <1>2, <4>2
    <3> QED BY <3>1
  <2> HIDE DEF P
  <2>3. (CHOOSE x \in {t, u} : P(x)) = "double"
    BY <1>2, <2>1, <2>2
  <2> QED BY <1>2, <2>3 DEF Higher, P
<1>3. CASE t = "int"
  <2>1. P("int")
    <3>1. Ranked[2] = "int" /\ \A j \in 2 + 1 .. 3 : Ranked[j] \notin {t, u}
      BY <1>1, <1>3
    <3> QED BY <3>1
  <2> HIDE DEF P
  <2>3. (CHOOSE x \in {t, u} : P(x)) = "int"
    BY <1>3, <2>1
  <2> QED BY <1>3, <2>3 DEF Higher, P
<1> QED BY <1>2, <1>3

\* So what increments keeps the type of a variable, unless it is a short.
LEMMA PlusOneKeeps ==
  ASSUME NEW h, NEW b, NEW e, NEW F, Owns(h, b, e, F), NEW v, Usable(h, v), NEW r \in PlusOne(h, v), r.v # NULL,
         TypeOf(h, v) # "short"
  PROVE  TypeOf(r.h, r.v) = TypeOf(h, v)
<1>1. Touch(h, v) = h
  BY UsableTouch
<1>2. IsNumber(h, v)
  BY PlusOneMade
<1>3. TypeOf(h, v) \in {"int", "double"} /\ TypeOf(h, v) \in NumberTypes
  BY <1>2 DEF IsNumber, NumberTypes
<1>4. r \in Number(h, TypeOf(h, v))
  BY <1>1, <1>2, <1>3, HigherKeeps DEF PlusOne
<1> QED BY <1>3, <1>4, NumberMade

\* '++' and '--' of a variable: the result is stored there, and for a short converted first.
LEMMA VarIncOutcome ==
  ASSUME Good, program \in Programs, NEW post \in BOOLEAN, VarInc(post)
  PROVE  Outcome
<1> DEFINE e == ST(stack)
<1>1. PICK n \in program.names :
       IF vars[n] = Unset THEN Failed("VAR_INC", "null", heap, stack)
       ELSE \E d \in PlusOne(heap, vars[n]) :
         IF d.v = NULL THEN Failed("VAR_INC", vars[n], d.h, stack)
         ELSE \E c \in frame_store_var(d.h, vars, n, d.v) :
           IF post THEN Continue("VAR_POINC", vars[n], c.h, Append(stack, c.prev), c.vars)
           ELSE Continue("VAR_INC", vars[n], object_ref(object_unref(c.h, c.prev), d.v),
                         Append(stack, d.v), c.vars)
  BY DEF VarInc
<1>2. n \in Names
  BY RefsAssumption DEF Names
<1>3. Owns(heap, VT, e, {}) /\ ~heap.wild /\ stack \in Stacks
  BY StartOwns DEF Good
<1>4. e \in [Ids -> Nat] /\ \A a : Hands("VAR_INC", a, e, {}, stack)
  BY <1>3, HandsAre, StackHands
<1>5. CASE vars[n] = Unset
  <2>1. Failed("VAR_INC", "null", heap, stack)
    BY <1>1, <1>5
  <2> QED BY <1>3, <1>4, <2>1, FailedEnds
<1>6. CASE vars[n] # Unset
  <2> DEFINE a == vars[n]
  <2>1. PICK d \in PlusOne(heap, a) :
         IF d.v = NULL THEN Failed("VAR_INC", a, d.h, stack)
         ELSE \E c \in frame_store_var(d.h, vars, n, d.v) :
           IF post THEN Continue("VAR_POINC", a, c.h, Append(stack, c.prev), c.vars)
           ELSE Continue("VAR_INC", a, object_ref(object_unref(c.h, c.prev), d.v),
                         Append(stack, d.v), c.vars)
    BY <1>1, <1>6
  <2>2. Usable(heap, a) /\ a \in Vals
    BY <1>2, <1>3, <1>6, VarsStay
  <2>3. Made(heap, VT, e, {}, d) /\ (d.v # NULL => IsNumber(heap, a))
    BY <1>3, <2>2, PlusOneMade
  <2>4. Owns(d.h, VT, e, {} \cup {d.v}) /\ ~d.h.wild /\ (d.v = NULL \/ d.v \in Vals)
        /\ (d.v # NULL => Usable(d.h, d.v) /\ TypeOf(d.h, d.v) \in NumberTypes)
    BY <1>3, <2>3, MadeOwns DEF Made
  <2>5. CASE d.v = NULL
    <3>1. Failed("VAR_INC", a, d.h, stack)
      BY <2>1, <2>5
    <3>2. Hands("VAR_INC", a, e, {} \cup {d.v}, stack)
      BY <1>3, <2>5, Apart, StackHands DEF Vals, Places
    <3> QED BY <1>3, <2>4, <3>1, <3>2, FailedEnds
  <2>6. CASE d.v # NULL
    <3>1. PICK c \in frame_store_var(d.h, vars, n, d.v) :
           IF post THEN Continue("VAR_POINC", a, c.h, Append(stack, c.prev), c.vars)
           ELSE Continue("VAR_INC", a, object_ref(object_unref(c.h, c.prev), d.v), Append(stack, d.v), c.vars)
      BY <2>1, <2>6
    <3>2. Usable(d.h, d.v) /\ IsNumber(d.h, d.v) /\ TypeOf(heap, a) \in NumberTypes
      BY <2>3, <2>4, <2>6 DEF IsNumber
    <3>3. FrameStored(d.h, e, {} \cup {d.v}, n, d.v, c)
      BY <1>2, <2>4, <3>2, FrameOwns
    <3>4. c.prev # NULL
      BY <1>6, <3>2, <3>3 DEF FrameStored
    <3>5. CASE ~post
      <4>1. Leave("VAR_INC", a, object_ref(object_unref(c.h, c.prev), d.v), Append(stack, d.v), c.vars, "runs")
        BY <3>1, <3>5 DEF Continue
      <4>2. \A i \in Ids : i \in {} \cup {d.v} <=> i = d.v
        OBVIOUS
      <4> QED BY <1>2, <1>3, <2>4, <3>2, <3>3, <3>4, <4>1, <4>2, FrameEnds
    <3>6. CASE post
      <4>1. Leave("VAR_POINC", a, c.h, Append(stack, c.prev), c.vars, "runs")
        BY <3>1, <3>6 DEF Continue
      <4>2. PICK w \in Vals : /\ c.prev = vars[n] /\ vars[n] \in Vals /\ c.vars = [vars EXCEPT ![n] = w]
                              /\ Owns(c.h, But(n), Plus(Plus(e, w), vars[n]), ({} \cup {d.v}) \ {w}) /\ c.h.wild = d.h.wild
                              /\ TypeOf(c.h, w) = TypeOf(heap, vars[n])
                              /\ TypeOf(d.h, d.v) = TypeOf(heap, vars[n]) => w = d.v
        BY <3>3, <3>4 DEF FrameStored
      <4> DEFINE s == Append(stack, a)
                 F == ({} \cup {d.v}) \ {w}
                 x == Plus(e, a)
      <4>3. Leave("VAR_POINC", a, c.h, s, [vars EXCEPT ![n] = w], "runs")
        BY <4>1, <4>2
      <4>4. Owns(c.h, But(n), Plus(x, w), F) /\ ~c.h.wild
        BY <1>4, <2>4, <4>2, PlusSwap
      <4>5. x \in [Ids -> Nat] /\ \A i \in Ids : x[i] = e[i] + One(a, i)
        BY <1>4, PlusIs
      <4>6. s \in Stacks /\ \A i \in Ids : Times(i, s) = Times(i, stack) + One(a, i)
        BY <1>3, <2>2, TimesAppend DEF Stacks
      <4>7. \A i \in Ids : e[i] = Times(i, stack)
        BY <1>3, HandsAre
      <4>8. F \cap Ids = {} \/ Lose("VAR_POINC", a)
        <5>1. CASE TypeOf(heap, a) = "short"
          BY <5>1 DEF Lose
        <5>2. CASE TypeOf(heap, a) # "short"
          <6>1. TypeOf(d.h, d.v) = TypeOf(heap, a)
            BY <1>3, <2>2, <2>6, <5>2, PlusOneKeeps
          <6> QED BY <4>2, <6>1
        <5> QED BY <5>1, <5>2
      <4> HIDE DEF s, F, x, e
      <4>9. \A i \in Ids : Times(i, s) = x[i] /\ x[i] \in Nat
        BY <4>5, <4>6, <4>7
      <4>10. \A i \in Ids : Times(i, s) <= x[i]
        BY <4>9
      <4>11. Hands("VAR_POINC", a, x, F, s)
        BY <4>8, <4>9, <4>10 DEF Hands
      <4>12. TypeOf(c.h, w) = TypeOf(heap, vars[n])
        BY <4>2
      <4>13. s \in Stacks /\ x \in [Ids -> Nat]
        BY <4>5, <4>6
      <4> QED BY <1>2, <4>3, <4>4, <4>11, <4>12, <4>13, Stores
    <3> QED BY <3>5, <3>6
  <2> QED BY <2>5, <2>6
<1> QED BY <1>5, <1>6

\* The compound assignment to a variable.
LEMMA VarIpOutcome ==
  ASSUME Good, program \in Programs, VarIp
  PROVE  Outcome
<1> DEFINE a == Arg(1)
           s == Under(1)
           op == "VAR_IP"
<1>1. PICK n \in program.names :
       IF vars[n] = Unset THEN Failed(op, a, object_unref(heap, a), s)
       ELSE /\ {TypeOf(heap, vars[n]), TypeOf(heap, a)} # {"vec"}
            /\ \E r \in Calculated(heap, vars[n], a) :
                 LET g == object_unref(r.h, a)
                 IN  IF r.v = NULL THEN Failed(op, a, g, s)
                     ELSE \E b \in frame_store_var(g, vars, n, r.v) :
                       Continue(op, a, object_ref(object_unref(b.h, b.prev), r.v), Append(s, r.v), b.vars)
  BY DEF VarIp
<1>2. n \in Names /\ Holds(1)
  BY RefsAssumption DEF Names, VarIp
<1>3. s \in Stacks /\ a \in Vals /\ ST(s) \in [Ids -> Nat] /\ Owns(heap, VT, Plus(ST(s), a), {}) /\ Usable(heap, a) /\ ~heap.wild
  BY <1>2, Popped
<1>4. Owns(object_unref(heap, a), VT, ST(s), {}) /\ ~object_unref(heap, a).wild
  BY <1>2, OneLetGo
<1>5. CASE vars[n] = Unset
  <2>1. Failed(op, a, object_unref(heap, a), s)
    BY <1>1, <1>5
  <2>2. Hands(op, a, ST(s), {}, s)
    BY <1>3, StackHands
  <2> HIDE DEF a, s
  <2> QED BY <1>3, <1>4, <2>1, <2>2, FailedEnds
<1>6. CASE vars[n] # Unset
  <2>1. PICK r \in Calculated(heap, vars[n], a) :
                 LET g == object_unref(r.h, a)
                 IN  IF r.v = NULL THEN Failed(op, a, g, s)
                     ELSE \E b \in frame_store_var(g, vars, n, r.v) :
                       Continue(op, a, object_ref(object_unref(b.h, b.prev), r.v), Append(s, r.v), b.vars)
    BY <1>1, <1>6
  <2> DEFINE g == object_unref(r.h, a)
  <2> HIDE DEF a, s
  <2>2. Usable(heap, vars[n]) /\ vars[n] \in Vals
    BY <1>2, <1>3, <1>6, VarsStay
  <2>3. Made(heap, VT, Plus(ST(s), a), {}, r) /\ (r.v # NULL => IsNumber(heap, vars[n]))
    BY <1>3, <2>2, CalculatedMade
  <2>4. /\ Owns(r.h, VT, Plus(ST(s), a), {} \cup {r.v}) /\ ~r.h.wild /\ (r.v = NULL \/ r.v \in Vals)
        /\ (r.v # NULL => Usable(r.h, r.v) /\ TypeOf(r.h, r.v) \in NumberTypes)
    BY <1>3, <2>3, MadeOwns DEF Made
  <2>5. Left(r.h, g, VT, ST(s), {} \cup {r.v})
    BY <1>3, <2>4, LetGo
  <2>6. IF r.v = NULL THEN Failed(op, a, g, s)
        ELSE \E b \in frame_store_var(g, vars, n, r.v) :
               Continue(op, a, object_ref(object_unref(b.h, b.prev), r.v), Append(s, r.v), b.vars)
    BY <2>1
  <2> HIDE DEF g
  <2>7. Owns(g, VT, ST(s), {} \cup {r.v}) /\ ~g.wild /\ Same(r.h, g)
    BY <2>4, <2>5 DEF Left
  <2>8. CASE r.v = NULL
    <3>1. Hands(op, a, ST(s), {} \cup {r.v}, s)
      BY <1>3, <2>8, Apart, StackHands DEF Vals, Places
    <3>2. Failed(op, a, g, s)
      BY <2>6, <2>8
    <3> QED BY <1>3, <2>7, <3>1, <3>2, FailedEnds
  <2>9. CASE r.v # NULL
    <3>1. PICK b \in frame_store_var(g, vars, n, r.v) :
               Continue(op, a, object_ref(object_unref(b.h, b.prev), r.v), Append(s, r.v), b.vars)
      BY <2>6, <2>9
    <3>2. Usable(g, r.v)
      <4>1. r.v \in Vals /\ (r.v \in Ids => r.v \in {} \cup {r.v})
        BY <2>4, <2>9
      <4> QED BY <2>7, <4>1, HandUsable
    <3>3. IsNumber(g, r.v) /\ TypeOf(heap, vars[n]) \in NumberTypes
      <4>1. Shaped(g)
        BY <2>7 DEF Owns
      <4>2. Like(r.h, g, r.v)
        BY <2>7, <3>2, <4>1, SameLike
      <4> QED BY <2>3, <2>4, <2>9, <4>2 DEF Like, IsNumber
    <3>4. FrameStored(g, ST(s), {} \cup {r.v}, n, r.v, b)
      BY <1>2, <2>7, <3>2, FrameOwns
    <3>5. b.prev # NULL
      BY <1>6, <3>3, <3>4 DEF FrameStored
    <3>6. Leave(op, a, object_ref(object_unref(b.h, b.prev), r.v), Append(s, r.v), b.vars, "runs")
      BY <3>1 DEF Continue
    <3>7. \A i \in Ids : i \in {} \cup {r.v} <=> i = r.v
      OBVIOUS
    <3> QED BY <1>2, <1>3, <2>7, <3>2, <3>4, <3>5, <3>6, <3>7, FrameEnds
  <2> QED BY <2>8, <2>9
<1> QED BY <1>5, <1>6

-----------------------------------------------------------------------------
(* Elements.                                                                *)

LEMMA PlusTurn ==
  ASSUME NEW h, NEW b, NEW e \in [Ids -> Nat], NEW F, NEW u, NEW v, NEW w, Owns(h, b, Plus(Plus(Plus(e, u), v), w), F)
  PROVE  Owns(h, b, Plus(Plus(Plus(e, w), u), v), F)
<1>1. /\ Plus(e, w) \in [Ids -> Nat] /\ Plus(e, u) \in [Ids -> Nat]
      /\ \A i \in Ids : Plus(e, w)[i] = e[i] + One(w, i) /\ Plus(e, u)[i] = e[i] + One(u, i)
  BY PlusIs
<1>2. /\ Plus(Plus(e, w), u) \in [Ids -> Nat] /\ Plus(Plus(e, u), v) \in [Ids -> Nat]
      /\ \A i \in Ids : Plus(Plus(e, w), u)[i] = Plus(e, w)[i] + One(u, i) /\ Plus(Plus(e, u), v)[i] = Plus(e, u)[i] + One(v, i)
  BY <1>1, PlusIs
<1> DEFINE x == Plus(Plus(Plus(e, w), u), v)
           y == Plus(Plus(Plus(e, u), v), w)
<1>3. /\ x \in [Ids -> Nat]
      /\ \A i \in Ids : x[i] = Plus(Plus(e, w), u)[i] + One(v, i) /\ y[i] = Plus(Plus(e, u), v)[i] + One(w, i)
  BY <1>2, PlusIs
<1>4. Owns(h, b, y, F)
  OBVIOUS
<1> HIDE DEF x, y
<1>5. \A i \in Ids : y[i] = x[i]
  <2> TAKE i \in Ids
  <2>1. One(u, i) \in Nat /\ One(v, i) \in Nat /\ One(w, i) \in Nat /\ e[i] \in Nat
    BY DEF One
  <2> QED BY <1>1, <1>2, <1>3, <2>1
<1>6. Owns(h, b, x, F)
  BY <1>3, <1>4, <1>5, SameE
<1> QED BY <1>6 DEF x

\* Two or three operands are let go in the other order.
LEMMA LetGoPair ==
  ASSUME NEW h, NEW b, NEW e \in [Ids -> Nat], NEW F, NEW u \in Vals, NEW v \in Vals, Owns(h, b, Plus(Plus(e, u), v), F)
  PROVE  Left(h, UnrefAll(h, <<v, u>>), b, e, F)
<1>1. Plus(e, u) \in [Ids -> Nat] /\ \A i \in Ids : Plus(e, u)[i] = e[i] + One(u, i)
  BY PlusIs
<1> DEFINE x == Plus(Plus(e, u), v)
<1>2. x \in [Ids -> Nat] /\ \A i \in Ids : x[i] = Plus(e, u)[i] + One(v, i)
  BY <1>1, PlusIs
<1>3. Owns(h, b, x, F)
  OBVIOUS
<1> HIDE DEF x
<1>4. <<v, u>> \in Seq(Vals)
  OBVIOUS
<1>5. GivesAll(x, e, <<v, u>>)
  <2>1. ASSUME NEW i \in Ids PROVE x[i] = e[i] + Times(i, <<v, u>>)
    <3>1. One(u, i) \in Nat /\ One(v, i) \in Nat /\ e[i] \in Nat
      BY DEF One
    <3>2. Times(i, <<v, u>>) = One(v, i) + One(u, i)
      BY TimesShort
    <3> QED BY <1>1, <1>2, <3>1, <3>2
  <2> QED BY <2>1 DEF GivesAll
<1> QED BY <1>3, <1>4, <1>5, UnrefAllOwns DEF Left

LEMMA LetGoThree ==
  ASSUME NEW h, NEW b, NEW e \in [Ids -> Nat], NEW F, NEW u \in Vals, NEW v \in Vals, NEW w \in Vals,
         Owns(h, b, Plus(Plus(Plus(e, u), v), w), F)
  PROVE  Left(h, UnrefAll(h, <<w, v, u>>), b, e, F)
<1>1. Plus(e, u) \in [Ids -> Nat] /\ \A i \in Ids : Plus(e, u)[i] = e[i] + One(u, i)
  BY PlusIs
<1>2. Plus(Plus(e, u), v) \in [Ids -> Nat] /\ \A i \in Ids : Plus(Plus(e, u), v)[i] = Plus(e, u)[i] + One(v, i)
  BY <1>1, PlusIs
<1> DEFINE x == Plus(Plus(Plus(e, u), v), w)
<1>3. x \in [Ids -> Nat] /\ \A i \in Ids : x[i] = Plus(Plus(e, u), v)[i] + One(w, i)
  BY <1>2, PlusIs
<1>4. Owns(h, b, x, F)
  OBVIOUS
<1> HIDE DEF x
<1>5. <<w, v, u>> \in Seq(Vals)
  OBVIOUS
<1>6. GivesAll(x, e, <<w, v, u>>)
  <2>1. ASSUME NEW i \in Ids PROVE x[i] = e[i] + Times(i, <<w, v, u>>)
    <3>1. One(u, i) \in Nat /\ One(v, i) \in Nat /\ One(w, i) \in Nat /\ e[i] \in Nat
      BY DEF One
    <3>2. Times(i, <<w, v>>) = One(w, i) + One(v, i)
      BY TimesShort
    <3> DEFINE t == <<w, v>>
    <3>3. t \in Seq(Vals) /\ <<w, v, u>> = Append(t, u)
      OBVIOUS
    <3> HIDE DEF t
    <3>4. Times(i, Append(t, u)) = Times(i, t) + One(u, i)
      BY <3>3, TimesAppend
    <3>5. Times(i, <<w, v, u>>) = One(w, i) + One(v, i) + One(u, i)
      BY <3>2, <3>3, <3>4 DEF t
    <3> QED BY <1>1, <1>2, <1>3, <3>1, <3>5
  <2> QED BY <2>1 DEF GivesAll
<1> QED BY <1>4, <1>5, <1>6, UnrefAllOwns DEF Left

\* The element at a place: NULL, null or one that is there.
Found(h, a, k, p, d) ==
  /\ p \in Int /\ p >= -1
  /\ p = -1 => d = NULL
  /\ p # -1 => /\ d # NULL /\ Usable(h, d) /\ TypeOf(h, d) \in NumberTypes \cup {"null"}
               /\ TypeOf(h, a) \in {"vec", "dict"} /\ IsNumber(h, k)
  /\ p = 0 => d = "null" /\ TypeOf(h, a) = "dict"
  /\ p > 0 => p \in DOMAIN Slots(h, a) /\ d = Slots(h, a)[p]

\* What object_index finds.
LEMMA PlaceFound ==
  ASSUME NEW h, NEW b, NEW e, NEW F, Owns(h, b, e, F), NEW a \in Vals, NEW k, NEW p \in Place(h, a, k)
  PROVE  Found(h, a, k, p, object_index(h, a, p))
<1> DEFINE d == object_index(h, a, p)
<1>0. "null" \in Vals /\ "null" \notin Ids /\ "null" # NULL /\ TypeOf(h, "null") = "null" /\ NULL \notin Vals
  BY ConstsAre, Apart DEF Vals, TypeOf
<1>1. CASE p = -1
  BY <1>1 DEF Found, object_index
<1>2. CASE p = 0 /\ TypeOf(h, a) = "dict" /\ IsNumber(h, k)
  <2>1. d = "null"
    BY <1>2 DEF object_index
  <2> HIDE DEF d
  <2>2. Found(h, a, k, p, d)
    BY <1>0, <1>2, <2>1 DEF Found, Usable
  <2> QED BY <2>2 DEF d
<1>3. CASE p > 0 /\ p \in Int /\ p \in DOMAIN Slots(h, a) /\ TypeOf(h, a) \in {"vec", "dict"} /\ IsNumber(h, k)
  <2>1. d = Slots(h, a)[p]
    BY <1>3 DEF object_index
  <2>2. a \in Places
    BY <1>3, TypedUsable, TypesApart DEF Types, NumberTypes
  <2>3. Usable(h, Slots(h, a)[p]) /\ TypeOf(h, Slots(h, a)[p]) \in NumberTypes \cup {"null"}
    BY <1>3, <2>2, SlotUsable
  <2> HIDE DEF d
  <2>4. Found(h, a, k, p, d)
    BY <1>0, <1>3, <2>1, <2>3 DEF Found, Usable
  <2> QED BY <2>4 DEF d
<1>4. \/ p = -1
      \/ p = 0 /\ TypeOf(h, a) = "dict" /\ IsNumber(h, k)
      \/ p > 0 /\ p \in Int /\ p \in DOMAIN Slots(h, a) /\ TypeOf(h, a) \in {"vec", "dict"} /\ IsNumber(h, k)
  <2>1. CASE TypeOf(h, a) = "vec"
    <3>1. p = -1 \/ (p \in DOMAIN Slots(h, a) /\ TypeOf(h, k) \in {"short", "int"})
      BY <2>1 DEF Place
    <3>2. a \in Places
      BY <2>1, TypedUsable, TypesApart DEF Types, NumberTypes
    <3>3. h \in Heaps
      BY DEF Owns, Shaped
    <3>4. DOMAIN Slots(h, a) = 1 .. Len(Slots(h, a)) /\ Slots(h, a) \in Seq(Vals)
      BY <3>2, <3>3, HeapIs DEF Slots
    <3>5. p \in DOMAIN Slots(h, a) => p > 0 /\ p \in Int
      BY <3>4
    <3> QED BY <2>1, <3>1, <3>5 DEF IsNumber, NumberTypes
  <2>2. CASE TypeOf(h, a) = "dict"
    <3>1. p = -1 \/ (IsNumber(h, k) /\ (p = 0 \/ (p = 2 /\ Slots(h, a) # <<>>)))
      BY <2>2 DEF Place
    <3>2. a \in Places
      BY <2>2, TypedUsable, TypesApart DEF Types, NumberTypes
    <3>3. h \in Heaps /\ Fits(h, h.o[a]) /\ h.o[a].type = "dict"
      BY <2>2, <3>2, TypeOfId DEF Owns, Shaped
    <3>4. /\ DOMAIN Slots(h, a) = 1 .. Len(Slots(h, a)) /\ Slots(h, a) \in Seq(Vals)
          /\ Len(Slots(h, a)) \in {0, 2}
      BY <3>2, <3>3, HeapIs DEF Slots, Fits
    <3>5. Slots(h, a) # <<>> => 2 \in DOMAIN Slots(h, a)
      BY <3>4
    <3> QED BY <2>2, <3>1, <3>5
  <2>3. CASE TypeOf(h, a) \notin {"vec", "dict"}
    BY <2>3 DEF Place
  <2> QED BY <2>1, <2>2, <2>3
<1> QED BY <1>1, <1>2, <1>3, <1>4

\* An element of what can be used can be used.
LEMMA ContainedUsable ==
  ASSUME NEW h, NEW b, NEW e, NEW F, Owns(h, b, e, F), NEW a \in Places, NEW c, HasElement(h, a, c)
  PROVE  Usable(h, c)
BY SlotUsable DEF HasElement

\* Having an element depends on the elements.
LEMMA ContainsLike ==
  ASSUME NEW h, NEW g, NEW a \in Places, NEW c, Like(h, g, a)
  PROVE  HasElement(h, a, c) <=> HasElement(g, a, c)
BY DEF HasElement, Like

\* An element is there as long as its container is.
LEMMA ElementStays ==
  ASSUME NEW b, NEW e, NEW F, Owns(heap, b, e, F), NEW a \in Vals, NEW k, NEW p, NEW d, Found(heap, a, k, p, d), d # NULL,
         NEW g, NEW c, NEW x, NEW G, Owns(g, c, x, G), Like(heap, g, a), Usable(g, a)
  PROVE  Usable(g, d)
<1>0. "null" \in Vals /\ "null" \notin Ids
  BY ConstsAre, Apart DEF Vals
<1>1. CASE p = 0
  BY <1>0, <1>1 DEF Found, Usable
<1>2. CASE p # 0
  <2>1. p > 0 /\ TypeOf(heap, a) \in {"vec", "dict"} /\ p \in DOMAIN Slots(heap, a) /\ d = Slots(heap, a)[p]
    BY <1>2 DEF Found
  <2>2. a \in Places
    BY <2>1, TypedUsable, TypesApart DEF Types, NumberTypes
  <2>3. Slots(g, a) = Slots(heap, a)
    BY <2>2 DEF Like
  <2> QED BY <2>1, <2>2, <2>3, SlotUsable
<1> QED BY <1>1, <1>2

\* Loading an element: it is pushed after its container has been let go.
LEMMA LoadIndexOutcome ==
  ASSUME Good, LoadIndex
  PROVE  Outcome
<1> DEFINE a == Arg(2)
           k == Arg(1)
           s == Under(2)
           g == object_unref(object_unref(heap, a), k)
           op == "LOAD_INDEX"
<1>1. PICK p \in Place(heap, a, k) :
        IF object_index(heap, a, p) = NULL THEN Failed(op, a, g, s)
        ELSE STACK_PUSH(op, a, g, s, object_index(heap, a, p))
  BY DEF LoadIndex
<1> DEFINE d == object_index(heap, a, p)
<1>2. Holds(2)
  BY DEF LoadIndex
<1>3. /\ s \in Stacks /\ k \in Vals /\ a \in Vals /\ ST(s) \in [Ids -> Nat]
      /\ Owns(heap, VT, Plus(Plus(ST(s), k), a), {}) /\ Usable(heap, a) /\ ~heap.wild
  BY <1>2, PoppedTwo
<1>4. (d = NULL => Failed(op, a, g, s)) /\ (d # NULL => Leave(op, a, object_ref(g, d), Append(s, d), vars, "runs"))
  BY <1>1 DEF STACK_PUSH, Continue
<1> HIDE DEF a, k, s
<1>5. Found(heap, a, k, p, d)
  BY <1>3, PlaceFound
<1>6. Left(heap, g, VT, ST(s), {})
  BY <1>3, LetGoTwo
<1> HIDE DEF g, d
<1>7. Owns(g, VT, ST(s), {}) /\ ~g.wild /\ Same(heap, g)
  BY <1>3, <1>6 DEF Left
<1>8. Hands(op, a, ST(s), {}, s) /\ Hands(op, a, ST(s), {} \ {d}, s)
  BY <1>3, StackHands
<1>9. CASE d = NULL
  BY <1>3, <1>4, <1>7, <1>8, <1>9, FailedEnds
<1>10. CASE d # NULL
  <2>1. Usable(g, d) \/ Temp(op, a)
    <3>1. CASE Lone(a)
      BY <3>1 DEF Temp, TemporaryOps
    <3>2. CASE ~Lone(a)
      <4> DEFINE e == Plus(Plus(ST(s), k), a)
                 f == ST(s)
      <4>1. /\ TypeOf(heap, a) \notin NumberTypes \cup {"null"} /\ k # a
        BY <1>5, <1>10 DEF Found, IsNumber, NumberTypes
      <4>2. a \in Ids => e[a] <= f[a] + 1
        <5> SUFFICES ASSUME a \in Ids PROVE e[a] <= f[a] + 1
          OBVIOUS
        <5>1. e[a] = (f[a] + One(k, a)) + One(a, a)
          BY DEF Plus
        <5>2. One(k, a) = 0 /\ One(a, a) = 1 /\ f[a] \in Nat
          BY <1>3, <4>1 DEF One
        <5> HIDE DEF e, f
        <5> QED BY <5>1, <5>2
      <4>3. Owns(heap, VT, e, {}) /\ Owns(g, VT, f, {})
        BY <1>3, <1>7
      <4> HIDE DEF e, f
      <4>4. Usable(g, a)
        BY <1>3, <3>2, <4>1, <4>2, <4>3, Survives
      <4>5. Like(heap, g, a)
        BY <1>7, <4>4, SameLike DEF Owns
      <4> QED BY <1>3, <1>5, <1>10, <4>3, <4>4, <4>5, ElementStays
    <3> QED BY <3>1, <3>2
  <2>2. d \in Vals
    BY <1>5, <1>10 DEF Found, Usable
  <2>3. Leave(op, a, object_ref(g, d), Append(s, d), vars, "runs")
    BY <1>4, <1>10
  <2> QED BY <1>3, <1>7, <1>8, <2>1, <2>2, <2>3, Pushes
<1> QED BY <1>9, <1>10

-----------------------------------------------------------------------------
\* A container that is neither of the other operands is once more in hand.
LEMMA ThreeMore ==
  ASSUME NEW e \in [Ids -> Nat], NEW a, NEW u, NEW v, u # a, v # a
  PROVE  a \in Ids => Plus(Plus(Plus(e, u), v), a)[a] <= e[a] + 1
<1> SUFFICES ASSUME a \in Ids PROVE Plus(Plus(Plus(e, u), v), a)[a] <= e[a] + 1
  OBVIOUS
<1>1. Plus(Plus(Plus(e, u), v), a)[a] = ((e[a] + One(u, a)) + One(v, a)) + One(a, a)
  BY DEF Plus
<1>2. One(u, a) = 0 /\ One(v, a) = 0 /\ One(a, a) = 1 /\ e[a] \in Nat
  BY DEF One
<1> QED BY <1>1, <1>2

\* Storing an element.
LEMMA StoreIndexOutcome ==
  ASSUME Good, StoreIndex
  PROVE  Outcome
<1> DEFINE a == Arg(2)
           k == Arg(1)
           v == Arg(3)
           s == Under(3)
           op == "STORE_INDEX"
<1>1. PICK p \in Place(heap, a, k) :
        /\ Storable(heap, a, p, v)
        /\ LET r == object_ipindex(heap, a, k, p, v)
               g == UnrefAll(r.h, <<a, k, v>>)
           IN  IF r.v = NULL THEN Failed(op, a, g, s)
               ELSE STACK_PUSH(op, a, g, s, r.v)
  BY DEF StoreIndex
<1> DEFINE r == object_ipindex(heap, a, k, p, v)
           g == UnrefAll(r.h, <<a, k, v>>)
           d == object_index(heap, a, p)
           e == ST(s)
           x == Plus(Plus(Plus(e, v), k), a)
<1>2. Holds(3)
  BY DEF StoreIndex
<1>3. /\ s \in Stacks /\ k \in Vals /\ a \in Vals /\ v \in Vals /\ e \in [Ids -> Nat]
      /\ Owns(heap, VT, x, {}) /\ Usable(heap, a) /\ Usable(heap, k) /\ Usable(heap, v) /\ ~heap.wild
  BY <1>2, PoppedThree
<1>4. (r.v = NULL => Failed(op, a, g, s)) /\ (r.v # NULL => Leave(op, a, object_ref(g, r.v), Append(s, r.v), vars, "runs"))
  BY <1>1 DEF STACK_PUSH, Continue
<1>5. TypeOf(heap, v) \in NumberTypes \cup {"null"} /\ (p = 0 => Slots(heap, a) = <<>>)
  BY <1>1 DEF Storable
<1> HIDE DEF a, k, v, s
<1>6. Found(heap, a, k, p, d)
  BY <1>3, PlaceFound
<1> HIDE DEF d, e
<1>7. IpStored(heap, r, VT, x, {}, a, p, v)
  <2>1. p \in Int /\ (TypeOf(heap, a) \in {"vec", "dict"} /\ p > 0 => p \in DOMAIN Slots(heap, a))
    BY <1>6 DEF Found
  <2>2. TypeOf(heap, a) = "dict" /\ p = 0 =>
           Slots(heap, a) = <<>> /\ Usable(heap, k) /\ TypeOf(heap, k) \in NumberTypes /\ k \notin {}
    BY <1>3, <1>5, <1>6 DEF Found, IsNumber
  <2> HIDE DEF x
  <2> QED BY <1>3, <1>5, <2>1, <2>2, IpIndexOwns
<1>8. Hands(op, a, e, {}, s)
  BY <1>3, StackHands DEF e
<1> HIDE DEF r
<1>9. CASE r.v = NULL
  <2>1. Owns(r.h, VT, x, {}) /\ ~r.h.wild
    BY <1>3, <1>7, <1>9 DEF IpStored
  <2>2. Left(r.h, g, VT, e, {})
    BY <1>3, <2>1, LetGoThree
  <2> HIDE DEF g
  <2>3. Owns(g, VT, e, {}) /\ ~g.wild
    BY <2>1, <2>2 DEF Left
  <2> QED BY <1>3, <1>4, <1>8, <1>9, <2>3, FailedEnds
<1>10. CASE r.v # NULL
  <2>1. r.v = v /\ Stored(heap, r.h, VT, x, {} \ {v}, a, v)
    BY <1>7, <1>10 DEF IpStored
  <2>2. Owns(r.h, VT, x, {} \ {v}) /\ ~r.h.wild /\ Typed(heap, r.h) /\ (Usable(r.h, a) => HasElement(r.h, a, v))
    BY <1>3, <2>1 DEF Stored
  <2>3. Left(r.h, g, VT, e, {} \ {v})
    BY <1>3, <2>2, LetGoThree
  <2>4. Leave(op, a, object_ref(g, v), Append(s, v), vars, "runs")
    BY <1>4, <1>10, <2>1
  <2> HIDE DEF g
  <2>5. Owns(g, VT, e, {} \ {v}) /\ ~g.wild /\ Same(r.h, g)
    BY <2>2, <2>3 DEF Left
  <2>6. Usable(g, v) \/ Temp(op, a)
    <3>1. CASE Lone(a)
      BY <3>1 DEF Temp, TemporaryOps
    <3>2. CASE ~Lone(a) /\ p = -1
      <4>1. (a \in Places /\ TypeOf(heap, a) \in {"vec", "dict"}) \/ r.v = NULL
        <5>1. CASE TypeOf(heap, a) \in {"vec", "dict"}
          BY <1>3, <5>1, TypedUsable, TypesApart DEF Types, NumberTypes
        <5>2. CASE TypeOf(heap, a) \notin {"vec", "dict"}
          BY <5>2 DEF r, object_ipindex, Got
        <5> QED BY <5>1, <5>2
      <4>2. r.v = NULL
        BY <3>2, <4>1 DEF r, object_ipindex, Got
      <4> QED BY <1>10, <4>2
    <3>3. CASE ~Lone(a) /\ p # -1
      <4>1. /\ TypeOf(heap, a) \in {"vec", "dict"} /\ TypeOf(heap, a) \notin NumberTypes \cup {"null"} /\ k # a /\ v # a
        BY <1>5, <1>6, <3>3 DEF Found, IsNumber, NumberTypes
      <4>2. a \in Ids => x[a] <= e[a] + 1
        BY <1>3, <4>1, ThreeMore
      <4> HIDE DEF x
      <4>3. Usable(g, a)
        BY <1>3, <2>5, <3>3, <4>1, <4>2, Survives
      <4>4. a \in Places
        BY <1>3, <4>1, TypedUsable, TypesApart DEF Types, NumberTypes
      <4>5. Like(r.h, g, a) /\ Usable(r.h, a)
        BY <2>5, <4>3, SameLike DEF Owns
      <4>6. HasElement(g, a, v)
        BY <2>2, <4>4, <4>5, ContainsLike
      <4> QED BY <2>5, <4>4, <4>6, ContainedUsable
    <3> QED BY <3>1, <3>2, <3>3
  <2>7. Hands(op, a, e, ({} \ {v}) \ {v}, s)
    BY <1>8
  <2> QED BY <1>3, <2>4, <2>5, <2>6, <2>7, Pushes
<1> QED BY <1>9, <1>10

\* Incrementing an element, before or after its value is taken.
LEMMA IndexIncOutcome ==
  ASSUME Good, NEW post \in BOOLEAN, IndexInc(post)
  PROVE  Outcome
<1> DEFINE a == Arg(2)
           k == Arg(1)
           s == Under(2)
           op == "INDEX_INC"
           Both(h) == object_unref(object_unref(h, a), k)
           e == ST(s)
           x == Plus(Plus(e, k), a)
<1>1. PICK p \in Place(heap, a, k) :
        IF object_index(heap, a, p) = NULL THEN Dies(op, a)
        ELSE \E n \in PlusOne(heap, object_index(heap, a, p)) :
          IF n.v = NULL THEN Failed(op, a, Both(n.h), s)
          ELSE LET g == Both(object_ipindex(object_ref(n.h, object_index(heap, a, p)), a, k, p, n.v).h)
               IN  IF post THEN Continue(op, a, g, Append(s, object_index(heap, a, p)), vars)
                   ELSE STACK_PUSH(op, a, object_unref(g, object_index(heap, a, p)), s, n.v)
  BY DEF IndexInc
<1> DEFINE d == object_index(heap, a, p)
<1>2. Holds(2)
  BY DEF IndexInc
<1>3. /\ s \in Stacks /\ k \in Vals /\ a \in Vals /\ e \in [Ids -> Nat]
      /\ Owns(heap, VT, x, {}) /\ Usable(heap, a) /\ ~heap.wild
  BY <1>2, PoppedTwo
<1>4. CASE d = NULL
  <2>1. Dies(op, a)
    BY <1>1, <1>4
  <2> HIDE DEF a
  <2> QED BY <2>1, DiesEnds
<1>5. CASE d # NULL
  <2>1. PICK n \in PlusOne(heap, d) :
          IF n.v = NULL THEN Failed(op, a, Both(n.h), s)
          ELSE LET g == Both(object_ipindex(object_ref(n.h, d), a, k, p, n.v).h)
               IN  IF post THEN Continue(op, a, g, Append(s, d), vars)
                   ELSE STACK_PUSH(op, a, object_unref(g, d), s, n.v)
    BY <1>1, <1>5
  <2> DEFINE f == object_ref(n.h, d)
             r == object_ipindex(f, a, k, p, n.v)
             g == Both(r.h)
  <2>2. n.v = NULL => Failed(op, a, Both(n.h), s)
    BY <2>1
  <2>3. n.v # NULL /\ post => Leave(op, a, g, Append(s, d), vars, "runs")
    BY <2>1 DEF Continue
  <2>4. n.v # NULL /\ ~post => Leave(op, a, object_ref(object_unref(g, d), n.v), Append(s, n.v), vars, "runs")
    BY <2>1 DEF STACK_PUSH, Continue
  <2> HIDE DEF a, k, s
  <2>5. Found(heap, a, k, p, d)
    BY <1>3, PlaceFound
  <2> HIDE DEF d, e
  <2>6. Usable(heap, d) /\ d \in Vals /\ p # -1
    BY <1>5, <2>5 DEF Found, Usable
  <2>7. Made(heap, VT, x, {}, n) /\ (n.v # NULL => IsNumber(heap, d))
    BY <1>3, <2>6, PlusOneMade
  <2>8. /\ Owns(n.h, VT, x, {} \cup {n.v}) /\ ~n.h.wild /\ Grows(heap, n.h)
        /\ n.v # NULL => Usable(n.h, n.v) /\ TypeOf(n.h, n.v) \in NumberTypes
        /\ n.v \in Ids => ~Live(heap, n.v)
    BY <1>3, <2>7 DEF Made
  <2>9. CASE n.v = NULL
    <3>1. Left(n.h, Both(n.h), VT, e, {} \cup {n.v})
      BY <1>3, <2>8, LetGoTwo
    <3>2. Owns(Both(n.h), VT, e, {} \cup {n.v}) /\ ~Both(n.h).wild
      BY <2>8, <3>1 DEF Left
    <3>3. Hands(op, a, e, {} \cup {n.v}, s)
      BY <1>3, <2>9, Apart, StackHands DEF Vals, Places, e
    <3> HIDE DEF Both
    <3> QED BY <1>3, <2>2, <2>9, <3>2, <3>3, FailedEnds
  <2>10. CASE n.v # NULL
    <3>1. /\ TypeOf(heap, a) \in {"vec", "dict"} /\ TypeOf(heap, a) \notin NumberTypes \cup {"null"} /\ k # a
          /\ a \in Places
      <4>1. TypeOf(heap, a) \in {"vec", "dict"} /\ IsNumber(heap, k)
        BY <2>5, <2>6 DEF Found
      <4>2. a \in Places
        BY <1>3, <4>1, TypedUsable, TypesApart DEF Types, NumberTypes
      <4> QED BY <4>1, <4>2 DEF IsNumber, NumberTypes
    <3>2. p > 0 /\ p \in DOMAIN Slots(heap, a) /\ p \in Int
      <4>1. p # 0
        BY <2>5, <2>7, <2>10, ConstsAre DEF Found, IsNumber, TypeOf, NumberTypes
      <4> QED BY <2>5, <2>6, <4>1 DEF Found
    <3>3. x \in [Ids -> Nat]
      BY <1>3 DEF Owns
    <3>4. Shaped(heap)
      BY <1>3 DEF Owns
    <3> DEFINE y == Plus(x, d)
               F == ({} \cup {n.v}) \ {d}
    <3>5. Referred(n.h, f, VT, y, F) /\ Usable(n.h, d)
      <4>1. Usable(n.h, d)
        BY <2>6, <2>8, <3>4, GrowsLike
      <4> HIDE DEF x
      <4>2. Referred(n.h, f, VT, y, ({} \cup {n.v}) \ {d})
        BY <2>8, <3>3, <4>1, Counts
      <4> QED BY <4>1, <4>2
    <3>6. Owns(f, VT, y, F) /\ ~f.wild /\ Widens(n.h, f) /\ Widens(heap, n.h)
      <4>1. Widens(n.h, f) /\ Widens(heap, n.h)
        BY <2>8, <3>4, <3>5, WidensReferred, WidensGrown
      <4> QED BY <2>8, <3>5, <4>1 DEF Referred
    <3>7. Usable(f, n.v) /\ TypeOf(f, n.v) \in NumberTypes
      BY <2>8, <2>10, <3>6 DEF Widens, Like
    <3>8. Like(heap, f, a) /\ Usable(f, a)
      BY <1>3, <3>6, LikeThen DEF Widens
    <3>9. TypeOf(f, a) \in {"vec", "dict"} /\ p \in DOMAIN Slots(f, a)
      BY <3>1, <3>2, <3>8 DEF Like
    <3>10. IpStored(f, r, VT, y, F, a, p, n.v)
      <4> HIDE DEF f, y, F
      <4>1. TypeOf(f, n.v) \in NumberTypes \cup {"null"}
        BY <3>7
      <4> QED BY <1>3, <3>2, <3>6, <3>7, <3>9, <4>1, IpIndexOwns
    <3> HIDE DEF r, f
    <3>11. Stored(f, r.h, VT, y, F \ {n.v}, a, n.v)
      BY <3>2, <3>9, <3>10 DEF IpStored
    <3>12. Owns(r.h, VT, y, F \ {n.v}) /\ ~r.h.wild /\ (Usable(r.h, a) => HasElement(r.h, a, n.v))
      BY <3>6, <3>11 DEF Stored
    <3> DEFINE z == Plus(e, d)
               G == F \ {n.v}
    <3>13. z \in [Ids -> Nat] /\ \A i \in Ids : z[i] = e[i] + One(d, i)
      BY <1>3, PlusIs
    <3>14. G \cap Ids = {}
      OBVIOUS
    <3> HIDE DEF F
    <3>15. Owns(r.h, VT, Plus(Plus(z, k), a), G)
      BY <1>3, <3>12, PlusTurn
    <3> HIDE DEF z, G
    <3>16. Left(r.h, g, VT, z, G)
      BY <1>3, <3>13, <3>15, LetGoTwo
    <3> HIDE DEF g
    <3>17. Owns(g, VT, z, G) /\ ~g.wild /\ Same(r.h, g)
      BY <3>12, <3>16 DEF Left
    <3>18. CASE post
      <4>1. Leave(op, a, g, Append(s, d), vars, "runs")
        BY <2>3, <2>10, <3>18
      <4>2. Append(s, d) \in Stacks /\ \A i \in Ids : Times(i, Append(s, d)) = Times(i, s) + One(d, i)
        BY <1>3, <2>6, TimesAppend DEF Stacks
      <4>3. \A i \in Ids : e[i] = Times(i, s)
        BY <1>3, HandsAre DEF e
      <4>4. \A i \in Ids : Times(i, Append(s, d)) = z[i] /\ z[i] \in Nat
        BY <3>13, <4>2, <4>3
      <4>5. \A i \in Ids : Times(i, Append(s, d)) <= z[i]
        BY <4>4
      <4>6. Hands(op, a, z, G, Append(s, d))
        BY <3>14, <4>4, <4>5 DEF Hands
      <4> QED BY <3>17, <4>1, <4>2, <4>6, Goes
    <3>19. CASE ~post
      <4> DEFINE q == object_unref(g, d)
      <4>1. Leave(op, a, object_ref(q, n.v), Append(s, n.v), vars, "runs")
        BY <2>4, <2>10, <3>19
      <4>2. Owns(g, VT, Plus(e, d), G)
        BY <3>17 DEF z
      <4>3. Left(g, q, VT, e, G)
        BY <1>3, <2>6, <4>2, LetGo
      <4> HIDE DEF q
      <4>4. Owns(q, VT, e, G) /\ ~q.wild /\ Same(g, q)
        BY <3>17, <4>3 DEF Left
      <4>5. Same(r.h, q)
        BY <3>17, <4>4, SameThen
      <4>6. Usable(q, n.v) \/ Temp(op, a)
        <5>1. CASE Lone(a)
          BY <5>1 DEF Temp, TemporaryOps
        <5>2. CASE ~Lone(a)
          <6>1. a \in Ids => x[a] <= e[a] + 1
            <7> SUFFICES ASSUME a \in Ids PROVE x[a] <= e[a] + 1
              OBVIOUS
            <7>1. x[a] = (e[a] + One(k, a)) + One(a, a)
              BY DEF Plus
            <7>2. One(k, a) = 0 /\ One(a, a) = 1 /\ e[a] \in Nat
              BY <1>3, <3>1 DEF One
            <7> HIDE DEF x
            <7> QED BY <7>1, <7>2
          <6> HIDE DEF x
          <6>2. Usable(q, a)
            BY <1>3, <3>1, <4>4, <5>2, <6>1, Survives
          <6>3. Like(r.h, q, a) /\ Usable(r.h, a)
            BY <4>4, <4>5, <6>2, SameLike DEF Owns
          <6>4. HasElement(q, a, n.v)
            BY <3>1, <3>12, <6>3, ContainsLike
          <6> QED BY <3>1, <4>4, <6>4, ContainedUsable
        <5> QED BY <5>1, <5>2
      <4>7. (G \ {n.v}) \cap Ids = {}
        BY <3>14
      <4>8. Hands(op, a, e, G \ {n.v}, s)
        BY <1>3, <4>7, StackHands DEF e
      <4>9. n.v \in Vals
        BY <2>8, <2>10 DEF Usable
      <4> QED BY <1>3, <4>1, <4>4, <4>6, <4>8, <4>9, Pushes
    <3> QED BY <3>18, <3>19
  <2> QED BY <2>9, <2>10
<1> QED BY <1>4, <1>5

-----------------------------------------------------------------------------
\* An operation with a result had two numbers.
LEMMA CalculatedBoth ==
  ASSUME NEW h, NEW b, NEW e, NEW F, Owns(h, b, e, F), NEW v, Usable(h, v), NEW w, Usable(h, w),
         NEW r \in Calculated(h, v, w), r.v # NULL
  PROVE  IsNumber(h, v) /\ IsNumber(h, w)
<1>1. Touch(Touch(h, v), w) = h
  BY UsableTouch
<1>2. r # Got(h, NULL)
  BY DEF Got
<1> QED BY <1>1, <1>2 DEF Calculated, Nothing

\* A container that an opcode finds again after it made v was there before.
LEMMA WasThere ==
  ASSUME NEW g, NEW h, NEW b, NEW e, NEW F, Owns(h, b, e, F), NEW d, NEW G, Owns(g, b, d, G),
         NEW a \in Places, Usable(h, a), TypeOf(h, a) \notin NumberTypes \cup {"null"}, a \notin F,
         \A i \in Ids : e[i] <= d[i]
  PROVE  Usable(g, a)
<1>1. CASE a \in Ids
  <2>1. Held(h, a) = 0 /\ Live(h, a)
    BY <1>1, ContainerNotHeld DEF Owns, Usable
  <2>2. /\ h.o[a].ref = Held(h, a) + b[a] + e[a] /\ b[a] \in Nat /\ e[a] \in Nat /\ h.o[a].ref \in Nat
        /\ ~(Live(h, a) /\ h.o[a].ref = 0)
    BY <1>1, OwnsAt
  <2>3. d[a] \in Nat /\ e[a] <= d[a]
    BY <1>1, OwnsAt
  <2>4. d[a] > 0 \/ b[a] > 0
    BY <2>1, <2>2, <2>3
  <2>5. a \in Vals
    BY DEF Vals
  <2> QED BY <1>1, <2>4, <2>5, HandUsable
<1>2. CASE a \notin Ids
  BY <1>2 DEF Usable, Vals
<1> QED BY <1>1, <1>2

\* The compound assignment to an element.
LEMMA IndexIpOutcome ==
  ASSUME Good, IndexIp
  PROVE  Outcome
<1> DEFINE a == Arg(2)
           k == Arg(1)
           v == Arg(3)
           s == Under(3)
           op == "INDEX_IP"
           g == object_unref(heap, a)
           e == ST(s)
           y == Plus(e, k)
           x == Plus(Plus(e, v), k)
           z == Plus(x, a)
<1>1. PICK p \in Place(heap, a, k) :
        IF object_index(heap, a, p) = NULL THEN Failed(op, a, UnrefAll(g, <<k, v>>), s)
        ELSE \E r \in Calculated(g, object_index(heap, a, p), v) :
          LET h == object_unref(r.h, v)
          IN  IF r.v = NULL THEN Failed(op, a, object_unref(h, k), s)
              ELSE LET i == object_ipindex(h, a, k, p, r.v)
                   IN  STACK_PUSH(op, a, object_unref(i.h, k), s, r.v)
  BY DEF IndexIp
<1> DEFINE d == object_index(heap, a, p)
<1>2. Holds(3)
  BY DEF IndexIp
<1>3. /\ s \in Stacks /\ k \in Vals /\ a \in Vals /\ v \in Vals /\ e \in [Ids -> Nat]
      /\ Owns(heap, VT, z, {}) /\ Usable(heap, a) /\ Usable(heap, k) /\ Usable(heap, v) /\ ~heap.wild
  BY <1>2, PoppedThree
<1>4. d = NULL => Failed(op, a, UnrefAll(g, <<k, v>>), s)
  BY <1>1
<1>5. d # NULL => \E r \in Calculated(g, d, v) :
        /\ r.v = NULL => Failed(op, a, object_unref(object_unref(r.h, v), k), s)
        /\ r.v # NULL => Leave(op, a, object_ref(object_unref(object_ipindex(object_unref(r.h, v), a, k, p, r.v).h, k), r.v),
                               Append(s, r.v), vars, "runs")
  BY <1>1 DEF STACK_PUSH, Continue
<1> HIDE DEF a, k, v, s
<1>6. Found(heap, a, k, p, d)
  BY <1>3, PlaceFound
<1> HIDE DEF d, e
<1>7. x \in [Ids -> Nat] /\ y \in [Ids -> Nat]
  <2>1. Plus(e, v) \in [Ids -> Nat] /\ y \in [Ids -> Nat]
    BY <1>3, PlusIs
  <2>2. x \in [Ids -> Nat]
    BY <2>1, PlusIs
  <2> QED BY <2>1, <2>2
<1>8. Owns(g, VT, x, {}) /\ ~g.wild /\ Same(heap, g)
  <2> HIDE DEF x
  <2>1. Left(heap, g, VT, x, {})
    BY <1>3, <1>7, LetGo
  <2> QED BY <1>3, <2>1 DEF Left
<1> HIDE DEF g
<1>9. Hands(op, a, e, {}, s)
  BY <1>3, StackHands DEF e
<1>10. CASE d = NULL
  <2> DEFINE h == UnrefAll(g, <<k, v>>)
  <2>1. Left(g, h, VT, e, {})
    BY <1>3, <1>8, LetGoPair
  <2>2. Failed(op, a, h, s)
    BY <1>4, <1>10
  <2> HIDE DEF h
  <2>3. Owns(h, VT, e, {}) /\ ~h.wild
    BY <1>8, <2>1 DEF Left
  <2> QED BY <1>3, <1>9, <2>2, <2>3, FailedEnds
<1>11. CASE d # NULL
  <2>1. PICK r \in Calculated(g, d, v) :
        /\ r.v = NULL => Failed(op, a, object_unref(object_unref(r.h, v), k), s)
        /\ r.v # NULL => Leave(op, a, object_ref(object_unref(object_ipindex(object_unref(r.h, v), a, k, p, r.v).h, k), r.v),
                               Append(s, r.v), vars, "runs")
    BY <1>5, <1>11
  <2> DEFINE h == object_unref(r.h, v)
  <2>2. /\ d \in Vals /\ p # -1 /\ TypeOf(heap, a) \in {"vec", "dict"} /\ TypeOf(heap, a) \notin NumberTypes \cup {"null"}
        /\ k # a /\ a \in Places /\ Usable(heap, d)
    <3>1. TypeOf(heap, a) \in {"vec", "dict"} /\ IsNumber(heap, k) /\ d \in Vals /\ p # -1 /\ Usable(heap, d)
      BY <1>6, <1>11 DEF Found, Usable
    <3>2. a \in Places
      BY <1>3, <3>1, TypedUsable, TypesApart DEF Types, NumberTypes
    <3> QED BY <3>1, <3>2 DEF IsNumber, NumberTypes
  <2>3. Usable(g, v)
    <3>1. Plus(e, k) \in [Ids -> Nat] /\ Gives(Plus(Plus(e, k), v), Plus(e, k), v)
      BY <1>3, PlusGives
    <3>2. Owns(g, VT, Plus(Plus(e, k), v), {})
      BY <1>3, <1>8, PlusSwap
    <3> QED BY <1>3, <3>1, <3>2, GivesUsable
  <2>4. ~Lone(a) => Usable(g, d)
    <3> SUFFICES ASSUME ~Lone(a) PROVE Usable(g, d)
      OBVIOUS
    <3>1. a \in Ids => z[a] <= x[a] + 1
      <4> SUFFICES ASSUME a \in Ids PROVE z[a] <= x[a] + 1
        OBVIOUS
      <4>1. z[a] = x[a] + One(a, a) /\ One(a, a) = 1 /\ x[a] \in Nat
        <5> HIDE DEF x
        <5> QED BY <1>7 DEF Plus, One
      <4> HIDE DEF z, x
      <4> QED BY <4>1
    <3> HIDE DEF z, x
    <3>2. Usable(g, a)
      BY <1>3, <1>8, <2>2, <3>1, Survives
    <3>3. Like(heap, g, a)
      BY <1>8, <3>2, SameLike DEF Owns
    <3> QED BY <1>3, <1>6, <1>8, <1>11, <3>2, <3>3, ElementStays
  <2>5. /\ Usable(g, d) => Made(g, VT, x, {}, r)
        /\ r.v # NULL => Usable(g, d) /\ IsNumber(g, d)
        /\ r.v = NULL => Owns(r.h, VT, x, {})
    <3> HIDE DEF x
    <3> QED BY <1>8, <2>2, <2>3, CalculatedMade
  <2>6. CASE r.v = NULL
    <3>1. Owns(r.h, VT, x, {})
      BY <2>5, <2>6
    <3>2. r.h.wild => Temp(op, a)
      <4>1. Usable(g, d) => ~r.h.wild
        BY <1>8, <2>5 DEF Made
      <4> QED BY <2>4, <4>1 DEF Temp, TemporaryOps
    <3>3. Left(r.h, object_unref(h, k), VT, e, {})
      BY <1>3, <3>1, LetGoTwo
    <3>4. Failed(op, a, object_unref(h, k), s)
      BY <2>1, <2>6
    <3> DEFINE q == object_unref(h, k)
    <3> HIDE DEF q, h
    <3>5. Owns(q, VT, e, {}) /\ (q.wild => Temp(op, a))
      BY <3>2, <3>3 DEF Left, q
    <3>6. Failed(op, a, q, s)
      BY <3>4 DEF q
    <3> QED BY <1>3, <1>9, <3>5, <3>6, FailedEnds
  <2>7. CASE r.v # NULL
    <3> DEFINE i == object_ipindex(h, a, k, p, r.v)
               q == object_unref(i.h, k)
    <3>1. Leave(op, a, object_ref(q, r.v), Append(s, r.v), vars, "runs")
      BY <2>1, <2>7
    <3>2. Usable(g, d) /\ IsNumber(g, d) /\ IsNumber(g, v) /\ Made(g, VT, x, {}, r)
      <4>1. Usable(g, d) /\ IsNumber(g, d) /\ Made(g, VT, x, {}, r)
        BY <2>5, <2>7
      <4> HIDE DEF x
      <4>2. IsNumber(g, v)
        BY <1>8, <2>3, <2>7, <4>1, CalculatedBoth
      <4> QED BY <4>1, <4>2
    <3>3. v # a
      <4>1. Like(heap, g, v)
        BY <1>8, <2>3, SameLike DEF Owns
      <4>2. TypeOf(heap, v) \in NumberTypes
        BY <3>2, <4>1 DEF Like, IsNumber
      <4> QED BY <2>2, <4>2
    <3>4. p > 0 /\ p \in Int /\ p \in DOMAIN Slots(heap, a)
      <4>1. p # 0
        BY <1>6, <3>2, ConstsAre DEF Found, IsNumber, TypeOf, NumberTypes
      <4> QED BY <1>6, <2>2, <4>1 DEF Found
    <3> DEFINE F == {} \cup {r.v}
    <3>5. /\ Owns(r.h, VT, x, F) /\ ~r.h.wild /\ Grows(g, r.h) /\ Usable(r.h, r.v) /\ TypeOf(r.h, r.v) \in NumberTypes
      BY <1>8, <2>7, <3>2 DEF Made
    <3>6. Owns(h, VT, y, F) /\ ~h.wild /\ Same(r.h, h)
      <4>1. Owns(r.h, VT, Plus(Plus(e, k), v), F)
        BY <1>3, <3>5, PlusSwap
      <4> HIDE DEF F
      <4>2. Left(r.h, h, VT, y, F)
        BY <1>3, <1>7, <4>1, LetGo
      <4> QED BY <3>5, <4>2 DEF Left
    <3> HIDE DEF h
    <3>7. Usable(h, r.v) /\ TypeOf(h, r.v) \in NumberTypes
      <4>1. r.v \in Vals /\ (r.v \in Ids => r.v \in F)
        BY <3>5 DEF Usable
      <4>2. Usable(h, r.v)
        BY <3>6, <4>1, HandUsable
      <4>3. Like(r.h, h, r.v)
        BY <3>6, <4>2, SameLike DEF Owns
      <4> QED BY <3>5, <4>2, <4>3 DEF Like
    <3>8. TypeOf(h, a) \in {"vec", "dict"} => Slots(h, a) = Slots(heap, a)
      <4> SUFFICES ASSUME TypeOf(h, a) \in {"vec", "dict"} PROVE Slots(h, a) = Slots(heap, a)
        OBVIOUS
      <4>1. TypeOf(h, a) \notin NumberTypes \cup {"null"} /\ TypeOf(h, a) \in Types \ NumberTypes
        BY DEF NumberTypes, Types
      <4>2. Usable(h, a)
        BY <1>3, <3>6, <4>1, TypedUsable
      <4>3. a \notin F
        BY <3>7, <4>1
      <4>4. \A j \in Ids : y[j] <= x[j]
        <5> TAKE j \in Ids
        <5>1. x[j] = (e[j] + One(v, j)) + One(k, j) /\ y[j] = e[j] + One(k, j) /\ e[j] \in Nat
          BY <1>3 DEF Plus
        <5>2. One(v, j) \in Nat /\ One(k, j) \in Nat
          BY DEF One
        <5> HIDE DEF x, y
        <5> QED BY <5>1, <5>2
      <4> HIDE DEF x, y, F
      <4>5. Usable(g, a)
        BY <1>8, <2>2, <3>6, <4>1, <4>2, <4>3, <4>4, WasThere
      <4>6. Like(heap, g, a)
        BY <1>8, <4>5, SameLike DEF Owns
      <4>7. Like(g, r.h, a)
        BY <1>8, <3>5, <4>5, GrowsLike DEF Owns
      <4>8. Like(r.h, h, a)
        BY <3>6, <4>2, SameLike DEF Owns
      <4> QED BY <2>2, <4>6, <4>7, <4>8 DEF Like
    <3>9. IpStored(h, i, VT, y, F, a, p, r.v)
      <4>1. TypeOf(h, a) \in {"vec", "dict"} /\ p > 0 => p \in DOMAIN Slots(h, a)
        BY <3>4, <3>8
      <4>2. p # 0 /\ p \in Int
        BY <3>4
      <4>3. TypeOf(h, r.v) \in NumberTypes \cup {"null"}
        BY <3>7
      <4> HIDE DEF F, y
      <4> QED BY <1>3, <3>6, <3>7, <4>1, <4>2, <4>3, IpIndexOwns
    <3> HIDE DEF i
    <3>10. CASE i.v = NULL
      <4>1. Owns(i.h, VT, y, F) /\ (Usable(h, a) => i.h = h)
        BY <3>9, <3>10 DEF IpStored
      <4>2. i.h.wild => Temp(op, a)
        <5>1. CASE Lone(a)
          BY <5>1 DEF Temp, TemporaryOps
        <5>2. CASE ~Lone(a)
          <6>1. a \in Ids => z[a] <= y[a] + 1
            <7> SUFFICES ASSUME a \in Ids PROVE z[a] <= y[a] + 1
              OBVIOUS
            <7>1. z[a] = ((e[a] + One(v, a)) + One(k, a)) + One(a, a) /\ y[a] = e[a] + One(k, a)
              BY DEF Plus
            <7>2. One(v, a) = 0 /\ One(k, a) = 0 /\ One(a, a) = 1 /\ e[a] \in Nat
              BY <1>3, <2>2, <3>3 DEF One
            <7> HIDE DEF z, y
            <7> QED BY <7>1, <7>2
          <6> HIDE DEF z, y
          <6>2. Usable(h, a)
            BY <1>3, <2>2, <3>6, <5>2, <6>1, Survives
          <6> QED BY <3>6, <4>1, <6>2
        <5> QED BY <5>1, <5>2
      <4>3. Left(i.h, q, VT, e, F)
        <5> HIDE DEF F
        <5> QED BY <1>3, <4>1, LetGo
      <4> HIDE DEF q
      <4>4. Owns(q, VT, e, F) /\ (q.wild => Temp(op, a))
        BY <4>2, <4>3 DEF Left
      <4>5. r.v \in Vals /\ (r.v \in Ids => r.v \in F)
        BY <3>5 DEF Usable
      <4>6. Usable(q, r.v)
        BY <4>4, <4>5, HandUsable
      <4>7. (F \ {r.v}) \cap Ids = {}
        OBVIOUS
      <4>8. Hands(op, a, e, F \ {r.v}, s)
        BY <1>3, <4>7, StackHands DEF e
      <4> QED BY <1>3, <3>1, <4>4, <4>5, <4>6, <4>8, Pushes
    <3>11. CASE i.v # NULL
      <4>1. Stored(h, i.h, VT, y, F \ {r.v}, a, r.v)
        BY <3>9, <3>11 DEF IpStored
      <4> DEFINE G == F \ {r.v}
      <4>2. Owns(i.h, VT, y, G) /\ ~i.h.wild /\ (Usable(i.h, a) => HasElement(i.h, a, r.v))
        BY <3>6, <4>1 DEF Stored
      <4>3. G \cap Ids = {}
        OBVIOUS
      <4> HIDE DEF G, F
      <4>4. Left(i.h, q, VT, e, G)
        BY <1>3, <4>2, LetGo
      <4> HIDE DEF q
      <4>5. Owns(q, VT, e, G) /\ ~q.wild /\ Same(i.h, q)
        BY <4>2, <4>4 DEF Left
      <4>6. Usable(q, r.v) \/ Temp(op, a)
        <5>1. CASE Lone(a)
          BY <5>1 DEF Temp, TemporaryOps
        <5>2. CASE ~Lone(a)
          <6>1. a \in Ids => z[a] <= e[a] + 1
            BY <1>3, <2>2, <3>3, ThreeMore
          <6> HIDE DEF z, y
          <6>2. Usable(q, a)
            BY <1>3, <2>2, <4>5, <5>2, <6>1, Survives
          <6>3. Like(i.h, q, a) /\ Usable(i.h, a)
            BY <4>5, <6>2, SameLike DEF Owns
          <6>4. HasElement(q, a, r.v)
            BY <2>2, <4>2, <6>3, ContainsLike
          <6> QED BY <2>2, <4>5, <6>4, ContainedUsable
        <5> QED BY <5>1, <5>2
      <4>7. (G \ {r.v}) \cap Ids = {}
        BY <4>3
      <4>8. Hands(op, a, e, G \ {r.v}, s)
        BY <1>3, <4>7, StackHands DEF e
      <4>9. r.v \in Vals
        BY <3>5 DEF Usable
      <4> QED BY <1>3, <3>1, <4>5, <4>6, <4>8, <4>9, Pushes
    <3> QED BY <3>10, <3>11
  <2> QED BY <2>6, <2>7
<1> QED BY <1>10, <1>11

-----------------------------------------------------------------------------
(* Members.                                                                 *)

\* A member that was found: the struct's own, or a new number of a union.
Fetched(h, b, e, a, f, d, G) ==
  /\ Owns(d.h, b, e, G) /\ d.h.wild = h.wild /\ Grows(h, d.h)
  /\ Usable(d.h, d.v) /\ a \in Places /\ TypeOf(h, a) \in Compounds
  /\ \/ TypeOf(h, a) = "struct" /\ G = {} /\ d.h = h /\ f \in DOMAIN StructField
        /\ StructField[f] \in DOMAIN Slots(h, a) /\ d.v = Slots(h, a)[StructField[f]]
     \/ TypeOf(h, a) = "union" /\ (\A i \in Ids : i \in G <=> i = d.v) /\ f \in DOMAIN UnionField
        /\ TypeOf(d.h, d.v) = UnionField[f]

\* get_member again, with what is new named.
LEMMA MemberFetched ==
  ASSUME NEW h, NEW b, NEW e, Owns(h, b, e, {}), NEW a \in Vals, Usable(h, a), NEW f \in Fields,
         NEW d \in get_member(h, a, f)
  PROVE  /\ d.v = NULL => Owns(d.h, b, e, {}) /\ d.h.wild = h.wild
         /\ d.v # NULL => \E G : Fetched(h, b, e, a, f, d, G)
<1>1. Member(h, b, e, {}, a, f, d)
  BY MemberMade
<1>2. NULL \notin Vals /\ NULL \notin Ids
  BY Apart DEF Vals, Places
<1>3. CASE d = Got(h, NULL)
  BY <1>3 DEF Got
<1>4. CASE /\ TypeOf(h, a) = "struct" /\ d.h = h /\ f \in DOMAIN StructField
           /\ StructField[f] \in DOMAIN Slots(h, a) /\ d.v = Slots(h, a)[StructField[f]]
  <2>1. a \in Places
    BY <1>4, StructSlots
  <2>2. Usable(h, d.v)
    BY <1>4, <2>1, SlotUsable
  <2>3. d.v # NULL
    BY <1>2, <2>2 DEF Usable
  <2>4. Grows(h, d.h)
    BY <1>4, GrowsSelf
  <2>5. Owns(d.h, b, e, {}) /\ d.h.wild = h.wild /\ Usable(d.h, d.v) /\ TypeOf(h, a) \in Compounds
    BY <1>4, <2>2 DEF Compounds
  <2>6. Fetched(h, b, e, a, f, d, {})
    BY <1>4, <2>1, <2>4, <2>5 DEF Fetched
  <2> QED BY <2>3, <2>6
<1>5. CASE /\ TypeOf(h, a) = "union" /\ f \in DOMAIN UnionField /\ Made(h, b, e, {}, d)
           /\ d.v # NULL => TypeOf(d.h, d.v) = UnionField[f]
  <2>1. a \in Places /\ TypeOf(h, a) \in Compounds
    BY <1>5, UnionSlots DEF Compounds
  <2> DEFINE G == {} \cup {d.v}
  <2>2. Owns(d.h, b, e, G) /\ d.h.wild = h.wild /\ Grows(h, d.h) /\ (d.v # NULL => Usable(d.h, d.v))
    BY <1>5 DEF Made
  <2>3. \A i \in Ids : i \in G <=> i = d.v
    OBVIOUS
  <2> HIDE DEF G
  <2>4. ASSUME d.v = NULL PROVE Owns(d.h, b, e, {})
    <3>1. \A i \in Ids : i \in G <=> i \in {}
      BY <1>2, <2>3, <2>4
    <3> QED BY <2>2, <3>1, SameF
  <2>5. ASSUME d.v # NULL PROVE Fetched(h, b, e, a, f, d, G)
    BY <1>5, <2>1, <2>2, <2>3, <2>5 DEF Fetched
  <2> QED BY <2>2, <2>4, <2>5
<1> QED BY <1>1, <1>3, <1>4, <1>5 DEF Member

\* Loading and storing a member.
LEMMA LoadMemberOutcome ==
  ASSUME Good, LoadMember
  PROVE  Outcome
<1> DEFINE a == Arg(1)
           s == Under(1)
           op == "LOAD_MEMBER"
           e == ST(s)
           x == Plus(e, a)
<1>1. PICK f \in Fields : \E r \in get_member(heap, a, f) :
        Ready(op, a, object_unref(r.h, a), s, r.v)
  BY DEF LoadMember, Ready
<1>2. PICK r \in get_member(heap, a, f) : Ready(op, a, object_unref(r.h, a), s, r.v)
  BY <1>1
<1>3. Holds(1)
  BY DEF LoadMember
<1>4. s \in Stacks /\ a \in Vals /\ e \in [Ids -> Nat] /\ Owns(heap, VT, x, {}) /\ Usable(heap, a) /\ ~heap.wild
  BY <1>3, Popped
<1> DEFINE g == object_unref(r.h, a)
<1>5. Ready(op, a, g, s, r.v)
  BY <1>2
<1> HIDE DEF a, s
<1>6. Hands(op, a, e, {}, s)
  BY <1>4, StackHands
<1> HIDE DEF e
<1>7. /\ r.v = NULL => Owns(r.h, VT, x, {}) /\ r.h.wild = heap.wild
      /\ r.v # NULL => \E G : Fetched(heap, VT, x, a, f, r, G)
  <2> HIDE DEF x
  <2> QED BY <1>4, MemberFetched
<1>8. CASE r.v = NULL
  <2>1. Left(r.h, g, VT, e, {})
    BY <1>4, <1>7, <1>8, LetGo
  <2>2. Owns(g, VT, e, {}) /\ ~g.wild
    BY <1>4, <1>7, <1>8, <2>1 DEF Left
  <2>3. Failed(op, a, g, s)
    BY <1>5, <1>8 DEF Ready
  <2> HIDE DEF g
  <2> QED BY <1>4, <1>6, <2>2, <2>3, FailedEnds
<1>9. CASE r.v # NULL
  <2>1. PICK G : Fetched(heap, VT, x, a, f, r, G)
    BY <1>7, <1>9
  <2>2. Owns(r.h, VT, x, G) /\ ~r.h.wild /\ Usable(r.h, r.v) /\ r.v \in Vals
    BY <1>4, <2>1 DEF Fetched, Usable
  <2>3. Left(r.h, g, VT, e, G)
    BY <1>4, <2>2, LetGo
  <2> HIDE DEF g
  <2>4. Owns(g, VT, e, G) /\ ~g.wild /\ Same(r.h, g)
    BY <2>2, <2>3 DEF Left
  <2>5. Leave(op, a, object_ref(g, r.v), Append(s, r.v), vars, "runs")
    BY <1>5, <1>9 DEF Ready, STACK_PUSH, Continue
  <2>6. CASE TypeOf(heap, a) = "union"
    <3>1. \A i \in Ids : i \in G <=> i = r.v
      BY <2>1, <2>6 DEF Fetched
    <3>2. Usable(g, r.v)
      BY <2>2, <2>4, <3>1, HandUsable
    <3>3. (G \ {r.v}) \cap Ids = {}
      BY <3>1
    <3>4. Hands(op, a, e, G \ {r.v}, s)
      BY <1>4, <3>3, StackHands DEF e
    <3> QED BY <1>4, <2>2, <2>4, <2>5, <3>2, <3>4, Pushes
  <2>7. CASE TypeOf(heap, a) # "union"
    <3>1. /\ TypeOf(heap, a) = "struct" /\ r.h = heap /\ StructField[f] \in DOMAIN Slots(heap, a)
          /\ r.v = Slots(heap, a)[StructField[f]] /\ a \in Places
      BY <2>1, <2>7 DEF Fetched
    <3>2. G = {}
      BY <2>1, <2>7 DEF Fetched
    <3>3. Usable(g, r.v) \/ Temp(op, a)
      <4>1. CASE Lone(a)
        BY <4>1 DEF Temp, TemporaryOps
      <4>2. CASE ~Lone(a)
        <5>1. a \in Ids => x[a] <= e[a] + 1
          BY <1>4 DEF Plus, One
        <5>2. TypeOf(heap, a) \notin NumberTypes \cup {"null"}
          BY <3>1 DEF NumberTypes
        <5> HIDE DEF x
        <5>3. Usable(g, a)
          BY <1>4, <2>4, <4>2, <5>1, <5>2, Survives
        <5>4. Like(heap, g, a)
          BY <2>4, <3>1, <5>3, SameLike DEF Owns
        <5>5. Slots(g, a) = Slots(heap, a)
          BY <3>1, <5>4 DEF Like
        <5> QED BY <2>4, <3>1, <5>5, SlotUsable
      <4> QED BY <4>1, <4>2
    <3>4. Hands(op, a, e, G \ {r.v}, s)
      BY <1>6, <3>2
    <3> QED BY <1>4, <2>2, <2>4, <2>5, <3>3, <3>4, Pushes
  <2> QED BY <2>6, <2>7
<1> QED BY <1>8, <1>9

LEMMA StoreMemberOutcome ==
  ASSUME Good, StoreMember
  PROVE  Outcome
<1> DEFINE a == Arg(1)
           v == Arg(2)
           s == Under(2)
           op == "STORE_MEMBER"
           e == ST(s)
           x == Plus(Plus(e, a), v)
<1>1. PICK f \in Fields : \E r \in store_member(heap, a, f, v) :
        Ready(op, a, object_unref(object_unref(r.h, a), v), s, r.v)
  BY DEF StoreMember, Ready
<1>2. PICK r \in store_member(heap, a, f, v) : Ready(op, a, object_unref(object_unref(r.h, a), v), s, r.v)
  BY <1>1
<1>3. Holds(2) /\ TypeOf(heap, v) \in NumberTypes \cup {"null"}
  BY DEF StoreMember
<1>4. /\ s \in Stacks /\ a \in Vals /\ v \in Vals /\ e \in [Ids -> Nat] /\ Owns(heap, VT, x, {})
      /\ Usable(heap, a) /\ Usable(heap, v) /\ ~heap.wild
  BY <1>3, PoppedTwo
<1> DEFINE g == object_unref(object_unref(r.h, a), v)
<1>5. Ready(op, a, g, s, r.v)
  BY <1>2
<1> HIDE DEF a, s, v
<1>6. Hands(op, a, e, {}, s)
  BY <1>4, StackHands
<1> HIDE DEF e
<1>7. MemberStored(heap, r, VT, x, {}, a)
  <2> HIDE DEF x
  <2> QED BY <1>3, <1>4, StoreMemberOwns
<1>8. CASE r.v = NULL
  <2>0. Owns(r.h, VT, x, {}) /\ ~r.h.wild
    BY <1>4, <1>7, <1>8 DEF MemberStored
  <2>1. Left(r.h, g, VT, e, {})
    BY <1>4, <2>0, LetGoTwo
  <2>2. Owns(g, VT, e, {}) /\ ~g.wild
    BY <2>0, <2>1 DEF Left
  <2>3. Failed(op, a, g, s)
    BY <1>5, <1>8 DEF Ready
  <2> HIDE DEF g
  <2> QED BY <1>4, <1>6, <2>2, <2>3, FailedEnds
<1>9. CASE r.v # NULL
  <2> DEFINE G == {} \ {r.v}
  <2>1. /\ Owns(r.h, VT, x, G) /\ ~r.h.wild /\ r.v \in Vals /\ TypeOf(heap, a) \in Compounds
        /\ Usable(r.h, a) => HasElement(r.h, a, r.v)
    BY <1>4, <1>7, <1>9 DEF MemberStored
  <2>2. G \ {r.v} = {}
    OBVIOUS
  <2> HIDE DEF G
  <2>3. Left(r.h, g, VT, e, G)
    BY <1>4, <2>1, LetGoTwo
  <2> HIDE DEF g
  <2>4. Owns(g, VT, e, G) /\ ~g.wild /\ Same(r.h, g)
    BY <2>1, <2>3 DEF Left
  <2>5. Leave(op, a, object_ref(g, r.v), Append(s, r.v), vars, "runs")
    BY <1>5, <1>9 DEF Ready, STACK_PUSH, Continue
  <2>6. Usable(g, r.v) \/ Temp(op, a)
    <3>1. CASE Lone(a)
      BY <3>1 DEF Temp, TemporaryOps
    <3>2. CASE ~Lone(a)
      <4>1. TypeOf(heap, a) \notin NumberTypes \cup {"null"} /\ v # a /\ TypeOf(heap, a) \in Types \ NumberTypes
        BY <1>3, <2>1 DEF NumberTypes, Compounds, Types
      <4>2. a \in Places
        BY <1>4, <4>1, TypedUsable
      <4>3. a \in Ids => x[a] <= e[a] + 1
        <5> SUFFICES ASSUME a \in Ids PROVE x[a] <= e[a] + 1
          OBVIOUS
        <5>1. x[a] = (e[a] + One(a, a)) + One(v, a)
          BY DEF Plus
        <5>2. One(a, a) = 1 /\ One(v, a) = 0 /\ e[a] \in Nat
          BY <1>4, <4>1 DEF One
        <5> HIDE DEF x
        <5> QED BY <5>1, <5>2
      <4> HIDE DEF x
      <4>4. Usable(g, a)
        BY <1>4, <2>4, <3>2, <4>1, <4>3, Survives
      <4>5. Like(r.h, g, a) /\ Usable(r.h, a)
        BY <2>4, <4>4, SameLike DEF Owns
      <4>6. HasElement(g, a, r.v)
        BY <2>1, <4>2, <4>5, ContainsLike
      <4> QED BY <2>4, <4>2, <4>6, ContainedUsable
    <3> QED BY <3>1, <3>2
  <2>7. Hands(op, a, e, G \ {r.v}, s)
    BY <1>6, <2>2
  <2> QED BY <1>4, <2>1, <2>4, <2>5, <2>6, <2>7, Pushes
<1> QED BY <1>8, <1>9

-----------------------------------------------------------------------------
\* A number can be stored in a member of a number type, and incremented.
LEMMA StoreMemberSome ==
  ASSUME NEW h, NEW b, NEW e, NEW F, Owns(h, b, e, F), NEW a, NEW f, NEW v, Usable(h, v), IsNumber(h, v),
         \/ TypeOf(h, a) = "struct" /\ f \in DOMAIN StructField /\ IsNumber(h, Slots(h, a)[StructField[f]])
         \/ TypeOf(h, a) = "union" /\ f \in DOMAIN UnionField,
         NEW r \in store_member(h, a, f, v)
  PROVE  r.v # NULL
<1>0. v # NULL /\ Got(h, v).v = v
  BY Apart DEF Usable, Got
<1>1. CASE TypeOf(h, a) = "struct"
  <2>1. f \in DOMAIN StructField /\ IsNumber(h, Slots(h, a)[StructField[f]])
    BY <1>1
  <2> DEFINE pos == StructField[f]
             prev == Slots(h, a)[pos]
  <2>2. r \in {IF x.v = NULL THEN x
            ELSE Got(object_unref(object_ref([x.h EXCEPT !.o[a].slots[pos] = x.v], x.v), prev), x.v) :
              x \in IF prev # "null" /\ TypeOf(h, prev) # TypeOf(h, v)
                    THEN object_cast(h, v, TypeOf(h, prev)) ELSE {Got(h, v)}}
    BY <1>1, <2>1 DEF store_member, structobject_store_member
  <2> DEFINE C == IF prev # "null" /\ TypeOf(h, prev) # TypeOf(h, v)
                  THEN object_cast(h, v, TypeOf(h, prev)) ELSE {Got(h, v)}
             W(x) == object_unref(object_ref([x.h EXCEPT !.o[a].slots[pos] = x.v], x.v), prev)
  <2>a. r \in {IF x.v = NULL THEN x ELSE Got(W(x), x.v) : x \in C}
    BY <2>2
  <2> HIDE DEF C, W
  <2>b. PICK x \in C : r = IF x.v = NULL THEN x ELSE Got(W(x), x.v)
    BY <2>a
  <2>3. r.v = x.v
    BY <2>b DEF Got
  <2>4. TypeOf(h, prev) \in NumberTypes
    BY <2>1 DEF IsNumber
  <2>5. x.v # NULL
    <3>1. CASE x = Got(h, v)
      BY <1>0, <3>1
    <3>2. CASE x # Got(h, v)
      <4>1. x \in object_cast(h, v, TypeOf(h, prev))
        BY <2>b, <3>2 DEF C
      <4> HIDE DEF prev
      <4> QED BY <2>4, <4>1, CastNumber
    <3> QED BY <3>1, <3>2
  <2> QED BY <2>3, <2>5
<1>2. CASE TypeOf(h, a) = "union"
  <2>1. f \in DOMAIN UnionField /\ UnionField[f] \in NumberTypes
    BY <1>2, FieldsAre DEF NumberTypes
  <2>2. r \in {IF x.v = NULL THEN x
        ELSE Got(UnrefAll(object_ref([x.h EXCEPT !.o[a].slots = <<x.v>>], x.v), Slots(h, a)), x.v) :
          x \in IF TypeOf(h, v) # UnionField[f] THEN object_cast(h, v, UnionField[f]) ELSE {Got(h, v)}}
    BY <1>2, <2>1 DEF store_member, unionobject_store_member
  <2> DEFINE C == IF TypeOf(h, v) # UnionField[f] THEN object_cast(h, v, UnionField[f]) ELSE {Got(h, v)}
             W(x) == UnrefAll(object_ref([x.h EXCEPT !.o[a].slots = <<x.v>>], x.v), Slots(h, a))
  <2>a. r \in {IF x.v = NULL THEN x ELSE Got(W(x), x.v) : x \in C}
    BY <2>2
  <2> HIDE DEF C, W
  <2>b. PICK x \in C : r = IF x.v = NULL THEN x ELSE Got(W(x), x.v)
    BY <2>a
  <2>3. r.v = x.v
    BY <2>b DEF Got
  <2>5. x.v # NULL
    <3>1. CASE x = Got(h, v)
      BY <1>0, <3>1
    <3>2. CASE x # Got(h, v)
      <4>1. x \in object_cast(h, v, UnionField[f])
        BY <2>b, <3>2 DEF C
      <4> QED BY <2>1, <4>1, CastNumber
    <3> QED BY <3>1, <3>2
  <2> QED BY <2>3, <2>5
<1> QED BY <1>1, <1>2

LEMMA PlusOneNumber ==
  ASSUME NEW h, NEW b, NEW e, NEW F, Owns(h, b, e, F), NEW v, Usable(h, v), IsNumber(h, v), NEW r \in PlusOne(h, v)
  PROVE  r.v # NULL
<1>1. Touch(h, v) = h
  BY UsableTouch
<1>2. r \in Number(h, Higher(TypeOf(h, v), "int")) /\ Higher(TypeOf(h, v), "int") \in NumberTypes
  BY <1>1, HigherIs DEF PlusOne, IsNumber, NumberTypes
<1> QED BY <1>2, NumberMade

\* Incrementing a member: after its value is taken, a converted result is lost, as the property says.
LEMMA MemberIncOutcome ==
  ASSUME Good, NEW post \in BOOLEAN, MemberInc(post)
  PROVE  Outcome
<1> DEFINE a == Arg(1)
           s == Under(1)
           op == IF post THEN "MEMBER_POINC" ELSE "MEMBER_INC"
           e == ST(s)
           x == Plus(e, a)
<1>1. IF ~IsCompound(a) THEN Failed(op, a, heap, s)
     ELSE \E f \in Fields : \E d \in get_member(heap, a, f) :
       IF d.v = NULL THEN Dies(op, a)
       ELSE \E n \in PlusOne(d.h, d.v) :
         IF n.v = NULL THEN Failed(op, a, object_unref(n.h, a), s)
         ELSE \E r \in store_member(object_ref(n.h, d.v), a, f, n.v) :
           LET g == object_unref(r.h, a)
           IN  IF post THEN Continue(op, a, g, Append(s, d.v), vars)
               ELSE STACK_PUSH(op, a, object_unref(g, d.v), s, n.v)
  BY DEF MemberInc
<1>2. Holds(1)
  BY DEF MemberInc
<1>3. s \in Stacks /\ a \in Vals /\ e \in [Ids -> Nat] /\ Owns(heap, VT, x, {}) /\ Usable(heap, a) /\ ~heap.wild
  BY <1>2, Popped
<1>4. op \in TemporaryOps /\ op # "none" /\ op \in {"MEMBER_INC", "MEMBER_POINC"}
  BY DEF TemporaryOps
<1>5. (post => op = "MEMBER_POINC") /\ (~post => op = "MEMBER_INC")
  OBVIOUS
<1> HIDE DEF a, s, op
<1>6. Hands(op, a, e, {}, s)
  BY <1>3, StackHands
<1>7. \A i \in Ids : e[i] = Times(i, s)
  BY <1>3, HandsAre
<1> HIDE DEF e
<1>8. CASE ~IsCompound(a)
  <2>1. Failed(op, a, heap, s)
    BY <1>1, <1>8
  <2>2. Lose(op, a)
    BY <1>4, <1>8 DEF Lose, IsCompound
  <2>3. \A i \in Ids : Times(i, s) <= x[i]
    <3> TAKE i \in Ids
    <3>1. x[i] = e[i] + One(a, i) /\ One(a, i) \in Nat /\ e[i] \in Nat /\ e[i] = Times(i, s)
      BY <1>3, <1>7 DEF Plus, One
    <3> HIDE DEF x
    <3> QED BY <3>1
  <2>4. Hands(op, a, x, {}, s)
    BY <2>2, <2>3 DEF Hands
  <2> HIDE DEF x
  <2> QED BY <1>3, <1>4, <2>1, <2>4, FailedEnds
<1>9. CASE IsCompound(a)
  <2>1. PICK f \in Fields : \E d \in get_member(heap, a, f) :
       IF d.v = NULL THEN Dies(op, a)
       ELSE \E n \in PlusOne(d.h, d.v) :
         IF n.v = NULL THEN Failed(op, a, object_unref(n.h, a), s)
         ELSE \E r \in store_member(object_ref(n.h, d.v), a, f, n.v) :
           LET g == object_unref(r.h, a)
           IN  IF post THEN Continue(op, a, g, Append(s, d.v), vars)
               ELSE STACK_PUSH(op, a, object_unref(g, d.v), s, n.v)
    BY <1>1, <1>9
  <2>2. PICK d \in get_member(heap, a, f) :
       IF d.v = NULL THEN Dies(op, a)
       ELSE \E n \in PlusOne(d.h, d.v) :
         IF n.v = NULL THEN Failed(op, a, object_unref(n.h, a), s)
         ELSE \E r \in store_member(object_ref(n.h, d.v), a, f, n.v) :
           LET g == object_unref(r.h, a)
           IN  IF post THEN Continue(op, a, g, Append(s, d.v), vars)
               ELSE STACK_PUSH(op, a, object_unref(g, d.v), s, n.v)
    BY <2>1
  <2>3. CASE d.v = NULL
    <3>1. Dies(op, a)
      BY <2>2, <2>3
    <3> QED BY <1>4, <3>1, DiesEnds
  <2>4. CASE d.v # NULL
    <3>1. PICK n \in PlusOne(d.h, d.v) :
         IF n.v = NULL THEN Failed(op, a, object_unref(n.h, a), s)
         ELSE \E r \in store_member(object_ref(n.h, d.v), a, f, n.v) :
           LET g == object_unref(r.h, a)
           IN  IF post THEN Continue(op, a, g, Append(s, d.v), vars)
               ELSE STACK_PUSH(op, a, object_unref(g, d.v), s, n.v)
      BY <2>2, <2>4
    <3>2. PICK G : Fetched(heap, VT, x, a, f, d, G)
      <4> HIDE DEF x
      <4> QED BY <1>3, <2>4, MemberFetched
    <3>3. /\ Owns(d.h, VT, x, G) /\ ~d.h.wild /\ Grows(heap, d.h) /\ Usable(d.h, d.v) /\ d.v \in Vals
          /\ a \in Places /\ TypeOf(heap, a) \in Compounds
      BY <1>3, <3>2 DEF Fetched, Usable
    <3>4. \/ TypeOf(heap, a) = "struct" /\ G = {} /\ d.h = heap /\ f \in DOMAIN StructField
             /\ StructField[f] \in DOMAIN Slots(heap, a) /\ d.v = Slots(heap, a)[StructField[f]]
          \/ TypeOf(heap, a) = "union" /\ (\A i \in Ids : i \in G <=> i = d.v) /\ f \in DOMAIN UnionField
             /\ TypeOf(d.h, d.v) = UnionField[f]
      BY <3>2 DEF Fetched
    <3> HIDE DEF x
    <3>5. Made(d.h, VT, x, G, n) /\ (n.v # NULL => IsNumber(d.h, d.v)) /\ (IsNumber(d.h, d.v) => n.v # NULL)
      BY <3>3, PlusOneMade, PlusOneNumber
    <3>6. /\ Owns(n.h, VT, x, G \cup {n.v}) /\ ~n.h.wild /\ Grows(d.h, n.h)
          /\ n.v # NULL => Usable(n.h, n.v) /\ TypeOf(n.h, n.v) \in NumberTypes
          /\ n.v \in Ids => ~Live(d.h, n.v)
      BY <3>3, <3>5 DEF Made
    <3>7. CASE n.v = NULL
      <4>1. TypeOf(heap, a) # "union"
        <5>1. TypeOf(heap, a) = "union" => UnionField[f] \in NumberTypes /\ TypeOf(d.h, d.v) = UnionField[f]
          BY <3>4, FieldsAre DEF NumberTypes
        <5> QED BY <3>5, <3>7, <5>1 DEF IsNumber
      <4>2. (G \cup {n.v}) \cap Ids = {}
        BY <3>4, <3>7, <4>1, Apart DEF Vals, Places
      <4> DEFINE g == object_unref(n.h, a)
                 K == G \cup {n.v}
      <4>3. Failed(op, a, g, s)
        BY <3>1, <3>7
      <4>4. Hands(op, a, e, K, s)
        BY <1>3, <4>2, StackHands DEF e
      <4> HIDE DEF K
      <4>5. Owns(n.h, VT, Plus(e, a), K)
        BY <3>6 DEF x, K
      <4>6. Left(n.h, g, VT, e, K)
        BY <1>3, <4>5, LetGo
      <4> HIDE DEF g
      <4>7. Owns(g, VT, e, K) /\ ~g.wild
        BY <3>6, <4>6 DEF Left
      <4> QED BY <1>3, <1>4, <4>3, <4>4, <4>7, FailedEnds
    <3>8. CASE n.v # NULL
      <4> DEFINE k == object_ref(n.h, d.v)
                 K == (G \cup {n.v}) \ {d.v}
                 y == Plus(x, d.v)
      <4>1. PICK r \in store_member(k, a, f, n.v) :
           LET g == object_unref(r.h, a)
           IN  IF post THEN Continue(op, a, g, Append(s, d.v), vars)
               ELSE STACK_PUSH(op, a, object_unref(g, d.v), s, n.v)
        BY <3>1, <3>8
      <4> DEFINE g == object_unref(r.h, a)
      <4>2. post => Leave(op, a, g, Append(s, d.v), vars, "runs")
        BY <4>1 DEF Continue
      <4>3. ~post => Leave(op, a, object_ref(object_unref(g, d.v), n.v), Append(s, n.v), vars, "runs")
        BY <4>1 DEF STACK_PUSH, Continue
      <4>4. x \in [Ids -> Nat] /\ Shaped(d.h) /\ Shaped(heap)
        BY <1>3, <3>3 DEF Owns
      <4>5. Usable(n.h, d.v) /\ Like(d.h, n.h, d.v)
        BY <3>3, <3>6, <4>4, GrowsLike
      <4>6. Referred(n.h, k, VT, y, K)
        BY <3>6, <4>4, <4>5, Counts
      <4>7. Owns(k, VT, y, K) /\ ~k.wild /\ Widens(n.h, k) /\ Widens(heap, d.h) /\ Widens(d.h, n.h)
        <5>1. Widens(n.h, k)
          BY <4>6, WidensReferred
        <5>2. Widens(heap, d.h) /\ Widens(d.h, n.h)
          BY <3>3, <3>6, <4>4, WidensGrown
        <5> QED BY <3>6, <4>6, <5>1, <5>2 DEF Referred
      <4>8. \A i \in Ids : i \in K <=> i = n.v
        <5>1. n.v \in Ids => n.v # d.v
          BY <3>3, <3>6 DEF Usable
        <5> QED BY <3>4, <5>1
      <4> HIDE DEF k, K, y
      <4>9. Usable(k, n.v) /\ TypeOf(k, n.v) \in NumberTypes /\ TypeOf(k, n.v) = TypeOf(n.h, n.v)
        BY <3>6, <3>8, <4>7 DEF Widens, Like
      <4>10. Like(heap, k, a) /\ Usable(k, a)
        <5>1. Widens(heap, k)
          BY <4>7, WidensThen
        <5> QED BY <1>3, <5>1 DEF Widens
      <4>11. TypeOf(k, a) = TypeOf(heap, a) /\ Slots(k, a) = Slots(heap, a)
        BY <3>3, <4>10 DEF Like
      <4>12. TypeOf(k, d.v) = TypeOf(d.h, d.v) /\ TypeOf(d.h, d.v) \in NumberTypes
        BY <3>3, <3>5, <3>8, <4>5, <4>7 DEF Widens, Like, IsNumber
      <4>13. /\ MemberStored(k, r, VT, y, K, a)
             /\ TypeOf(k, a) = "union" /\ f \in DOMAIN UnionField /\ TypeOf(k, n.v) = UnionField[f] => r.v = n.v
        <5>1. TypeOf(k, n.v) \in NumberTypes \cup {"null"}
          BY <4>9
        <5> QED BY <1>3, <4>7, <4>9, <5>1, StoreMemberOwns
      <4>14. r.v # NULL
        <5>1. IsNumber(k, n.v)
          BY <4>9 DEF IsNumber
        <5>2. \/ TypeOf(k, a) = "struct" /\ f \in DOMAIN StructField /\ IsNumber(k, Slots(k, a)[StructField[f]])
              \/ TypeOf(k, a) = "union" /\ f \in DOMAIN UnionField
          <6>1. CASE TypeOf(heap, a) = "struct"
            <7>1. f \in DOMAIN StructField /\ d.v = Slots(heap, a)[StructField[f]]
              BY <3>4, <6>1
            <7>2. IsNumber(k, d.v)
              BY <4>12 DEF IsNumber
            <7> QED BY <4>11, <6>1, <7>1, <7>2
          <6>2. CASE TypeOf(heap, a) = "union"
            BY <3>4, <4>11, <6>2
          <6> QED BY <3>4, <6>1, <6>2
        <5> QED BY <4>7, <4>9, <5>1, <5>2, StoreMemberSome
      <4>15. Lose(op, a) \/ ~post \/ r.v = n.v
        <5>1. CASE TypeOf(heap, a) = "struct" /\ post
          BY <1>5, <5>1 DEF Lose
        <5>2. CASE TypeOf(heap, a) = "union"
          <6>1. f \in DOMAIN UnionField /\ TypeOf(d.h, d.v) = UnionField[f]
            BY <3>4, <5>2
          <6>2. TypeOf(d.h, d.v) # "short"
            BY <6>1, FieldsAre
          <6>3. TypeOf(n.h, n.v) = TypeOf(d.h, d.v)
            BY <3>3, <3>8, <6>2, PlusOneKeeps
          <6> QED BY <4>9, <4>11, <4>13, <5>2, <6>1, <6>3
        <5> QED BY <3>4, <5>1, <5>2
      <4> DEFINE J == K \ {r.v}
                 z == Plus(e, d.v)
      <4>16. Owns(r.h, VT, y, J) /\ ~r.h.wild /\ (Usable(r.h, a) => HasElement(r.h, a, r.v))
        BY <4>7, <4>13, <4>14 DEF MemberStored
      <4>17. \A i \in Ids : i \in J => i = n.v /\ i # r.v
        BY <4>8
      <4>18. n.v \in Ids /\ n.v # r.v => n.v \in J
        BY <4>8
      <4>19. z \in [Ids -> Nat] /\ \A i \in Ids : z[i] = e[i] + One(d.v, i)
        BY <1>3, PlusIs
      <4>20. Owns(r.h, VT, Plus(z, a), J)
        <5>1. Owns(r.h, VT, Plus(Plus(e, a), d.v), J)
          BY <4>16 DEF y, x
        <5> HIDE DEF J
        <5> QED BY <1>3, <5>1, PlusSwap
      <4> HIDE DEF J, z
      <4>21. Left(r.h, g, VT, z, J)
        BY <1>3, <4>19, <4>20, LetGo
      <4> HIDE DEF g
      <4>22. Owns(g, VT, z, J) /\ ~g.wild /\ Same(r.h, g)
        BY <4>16, <4>21 DEF Left
      <4>23. CASE post
        <5>1. Leave(op, a, g, Append(s, d.v), vars, "runs")
          BY <4>2, <4>23
        <5>2. Append(s, d.v) \in Stacks /\ \A i \in Ids : Times(i, Append(s, d.v)) = Times(i, s) + One(d.v, i)
          BY <1>3, <3>3, TimesAppend DEF Stacks
        <5>3. \A i \in Ids : Times(i, Append(s, d.v)) = z[i] /\ z[i] \in Nat
          BY <1>7, <4>19, <5>2
        <5>4. \A i \in Ids : Times(i, Append(s, d.v)) <= z[i]
          BY <5>3
        <5>5. Lose(op, a) \/ J \cap Ids = {}
          BY <4>15, <4>17, <4>23
        <5>6. Hands(op, a, z, J, Append(s, d.v))
          BY <5>3, <5>4, <5>5 DEF Hands
        <5> QED BY <1>4, <4>22, <5>1, <5>2, <5>6, Goes
      <4>24. CASE ~post
        <5> DEFINE q == object_unref(g, d.v)
        <5>1. Leave(op, a, object_ref(q, n.v), Append(s, n.v), vars, "runs")
          BY <4>3, <4>24
        <5>2. Owns(g, VT, Plus(e, d.v), J)
          BY <4>22 DEF z
        <5>3. Left(g, q, VT, e, J)
          BY <1>3, <3>3, <5>2, LetGo
        <5> HIDE DEF q
        <5>4. Owns(q, VT, e, J) /\ ~q.wild /\ Same(g, q)
          BY <4>22, <5>3 DEF Left
        <5>5. Same(r.h, q)
          BY <4>22, <5>4, SameThen
        <5>6. n.v \in Vals
          BY <3>6, <3>8 DEF Usable
        <5>7. Usable(q, n.v) \/ Temp(op, a)
          <6>1. CASE Lone(a)
            BY <1>4, <6>1 DEF Temp
          <6>2. CASE n.v # r.v
            <7>1. n.v \in Ids => n.v \in J
              BY <4>18, <6>2
            <7> QED BY <5>4, <5>6, <7>1, HandUsable
          <6>3. CASE ~Lone(a) /\ n.v = r.v
            <7>1. a \in Ids => x[a] <= e[a] + 1
              BY <1>3 DEF x, Plus, One
            <7>2. TypeOf(heap, a) \notin NumberTypes \cup {"null"}
              BY <3>3 DEF NumberTypes, Compounds
            <7>3. Usable(q, a)
              BY <1>3, <5>4, <6>3, <7>1, <7>2, Survives
            <7>4. Like(r.h, q, a) /\ Usable(r.h, a)
              BY <5>4, <5>5, <7>3, SameLike DEF Owns
            <7>5. HasElement(q, a, n.v)
              BY <3>3, <4>16, <6>3, <7>4, ContainsLike
            <7> QED BY <3>3, <5>4, <7>5, ContainedUsable
          <6> QED BY <6>1, <6>2, <6>3
        <5>8. (J \ {n.v}) \cap Ids = {}
          BY <4>17
        <5>9. Hands(op, a, e, J \ {n.v}, s)
          BY <1>3, <5>8, StackHands DEF e
        <5> QED BY <1>3, <1>4, <5>1, <5>4, <5>6, <5>7, <5>9, Pushes
      <4> QED BY <4>23, <4>24
    <3> QED BY <3>7, <3>8
  <2> QED BY <2>3, <2>4
<1> QED BY <1>8, <1>9

-----------------------------------------------------------------------------
\* The compound assignment to a member, which fails without an error when it converts.
LEMMA MemberIpOutcome ==
  ASSUME Good, MemberIp
  PROVE  Outcome
<1> DEFINE a == Arg(1)
           v == Arg(2)
           s == Under(2)
           op == "MEMBER_IP"
           e == ST(s)
           x == Plus(Plus(e, a), v)
           Ending(h, n, r) == CASE n.v = r.v -> STACK_PUSH(op, a, n.h, s, r.v)
                             [] n.v # r.v /\ n.v # NULL -> FailedQuietly(op, a, object_free(n.h, r.v), s)
                             [] OTHER -> Failed(op, a, object_free(n.h, r.v), s)
<1>1. Holds(2)
  BY DEF MemberIp
<1>2. PICK f \in Fields : \E d \in get_member(heap, a, f) :
       LET g == object_unref(d.h, a)
       IN  IF d.v = NULL THEN Failed(op, a, object_unref(g, v), s)
           ELSE \E r \in Calculated(g, d.v, v) :
             LET h == object_unref(r.h, v)
             IN  IF r.v = NULL THEN Failed(op, a, h, s)
                 ELSE \E n \in store_member(h, a, f, r.v) : Ending(h, n, r)
  BY DEF MemberIp
<1>3. PICK d \in get_member(heap, a, f) :
       LET g == object_unref(d.h, a)
       IN  IF d.v = NULL THEN Failed(op, a, object_unref(g, v), s)
           ELSE \E r \in Calculated(g, d.v, v) :
             LET h == object_unref(r.h, v)
             IN  IF r.v = NULL THEN Failed(op, a, h, s)
                 ELSE \E n \in store_member(h, a, f, r.v) : Ending(h, n, r)
  BY <1>2
<1>4. /\ s \in Stacks /\ a \in Vals /\ v \in Vals /\ e \in [Ids -> Nat]
      /\ Usable(heap, a) /\ Usable(heap, v) /\ ~heap.wild
  BY <1>1, PoppedTwo
<1>5. Owns(heap, VT, Plus(Plus(e, v), a), {}) /\ Owns(heap, VT, x, {})
  <2>1. Owns(heap, VT, x, {})
    BY <1>1, PoppedTwo
  <2> QED BY <1>4, <2>1, PlusSwap
<1>6. op \in TemporaryOps /\ op # "none"
  BY DEF TemporaryOps
<1>7. TypeOf(heap, a) = "union" => Lose(op, a)
  BY DEF Lose
<1> HIDE DEF a, v, s, op
<1>8. \A F : F \cap Ids = {} \/ TypeOf(heap, a) = "union" => Hands(op, a, e, F, s)
  BY <1>4, <1>7, StackHands
<1>9. Plus(e, v) \in [Ids -> Nat] /\ Shaped(heap)
  BY <1>4, <1>5, PlusIs DEF Owns
<1> HIDE DEF e
<1> DEFINE g == object_unref(d.h, a)
<1>10. CASE d.v = NULL
  <2> DEFINE k == object_unref(g, v)
  <2>1. Failed(op, a, k, s)
    BY <1>3, <1>10
  <2>2. Owns(d.h, VT, x, {}) /\ ~d.h.wild
    <3> HIDE DEF x
    <3> QED BY <1>4, <1>5, <1>10, MemberFetched
  <2>3. Left(d.h, k, VT, e, {})
    BY <1>4, <2>2, LetGoTwo
  <2> HIDE DEF k
  <2>4. Owns(k, VT, e, {}) /\ ~k.wild
    BY <2>2, <2>3 DEF Left
  <2>5. Hands(op, a, e, {}, s)
    BY <1>8
  <2> QED BY <1>4, <1>6, <2>1, <2>4, <2>5, FailedEnds
<1>11. CASE d.v # NULL
  <2>1. PICK r \in Calculated(g, d.v, v) :
             LET h == object_unref(r.h, v)
             IN  IF r.v = NULL THEN Failed(op, a, h, s)
                 ELSE \E n \in store_member(h, a, f, r.v) : Ending(h, n, r)
    BY <1>3, <1>11
  <2>2. PICK G : Fetched(heap, VT, Plus(Plus(e, v), a), a, f, d, G)
    <3> DEFINE y == Plus(Plus(e, v), a)
    <3>1. Owns(heap, VT, y, {})
      BY <1>5
    <3> HIDE DEF y
    <3>2. \E G : Fetched(heap, VT, y, a, f, d, G)
      BY <1>4, <1>11, <3>1, MemberFetched
    <3> QED BY <3>2 DEF y
  <2>3. /\ Owns(d.h, VT, Plus(Plus(e, v), a), G) /\ ~d.h.wild /\ Grows(heap, d.h)
        /\ Usable(d.h, d.v) /\ d.v \in Vals /\ a \in Places /\ TypeOf(heap, a) \in Compounds
    BY <1>4, <2>2 DEF Fetched, Usable
  <2>4. /\ TypeOf(heap, a) = "struct" => G = {} /\ d.h = heap /\ f \in DOMAIN StructField
                /\ StructField[f] \in DOMAIN Slots(heap, a) /\ d.v = Slots(heap, a)[StructField[f]]
        /\ TypeOf(heap, a) # "struct" => TypeOf(heap, a) = "union" /\ \A i \in Ids : i \in G <=> i = d.v
    BY <2>2 DEF Fetched
  <2>5. Left(d.h, g, VT, Plus(e, v), G)
    BY <1>4, <1>9, <2>3, LetGo
  <2> DEFINE h == object_unref(r.h, v)
  <2>6. /\ r.v = NULL => Failed(op, a, h, s)
        /\ r.v # NULL => \E n \in store_member(h, a, f, r.v) : Ending(h, n, r)
    BY <2>1
  <2> HIDE DEF g
  <2>7. Owns(g, VT, Plus(e, v), G) /\ ~g.wild /\ Same(d.h, g)
    BY <2>3, <2>5 DEF Left
  <2>8. Usable(g, v)
    BY <1>4, <2>7, PlusGives, GivesUsable
  <2>9. TypeOf(heap, a) \notin NumberTypes \cup {"null"}
    BY <2>3 DEF NumberTypes, Compounds
  <2>10. Usable(g, d.v) \/ Lone(a)
    <3>1. CASE TypeOf(heap, a) # "struct"
      <4>1. d.v \in Ids => d.v \in G
        BY <2>4, <3>1
      <4> QED BY <2>3, <2>7, <4>1, HandUsable
    <3>2. CASE TypeOf(heap, a) = "struct" /\ ~Lone(a)
      <4> DEFINE y == Plus(Plus(e, v), a)
                 w == Plus(e, v)
      <4>1. a \in Ids => y[a] <= w[a] + 1
        BY <1>9 DEF Plus, One
      <4>2. Owns(heap, VT, y, {}) /\ Owns(g, VT, w, G)
        BY <1>5, <2>7
      <4> HIDE DEF y, w
      <4>3. Usable(g, a)
        BY <1>4, <2>9, <3>2, <4>1, <4>2, Survives
      <4>4. Same(heap, g)
        BY <2>4, <2>7, <3>2
      <4>5. Slots(g, a) = Slots(heap, a)
        BY <2>3, <4>2, <4>3, <4>4, SameLike DEF Like, Owns
      <4>6. StructField[f] \in DOMAIN Slots(g, a) /\ d.v = Slots(g, a)[StructField[f]]
        BY <2>4, <3>2, <4>5
      <4> QED BY <2>3, <4>2, <4>6, SlotUsable
    <3> QED BY <3>1, <3>2
  <2>11. CASE r.v = NULL
    <3>1. Failed(op, a, h, s)
      BY <2>6, <2>11
    <3>2. Owns(r.h, VT, Plus(e, v), G) /\ (r.h.wild => Lone(a))
      <4> DEFINE w == Plus(e, v)
      <4>1. Owns(g, VT, w, G)
        BY <2>7
      <4> HIDE DEF w
      <4>2. Owns(r.h, VT, w, G)
        BY <2>3, <2>8, <2>11, <4>1, CalculatedMade
      <4>3. CASE ~Lone(a)
        <5>1. Made(g, VT, w, G, r)
          BY <2>3, <2>8, <2>10, <4>1, <4>3, CalculatedMade
        <5> QED BY <2>7, <4>2, <5>1 DEF Made, w
      <4> QED BY <4>2, <4>3 DEF w
    <3>3. Left(r.h, h, VT, e, G)
      BY <1>4, <3>2, LetGo
    <3> HIDE DEF h
    <3>4. Owns(h, VT, e, G) /\ (h.wild => Temp(op, a))
      BY <1>6, <3>2, <3>3 DEF Left, Temp
    <3>5. Hands(op, a, e, G, s)
      BY <1>8, <2>4
    <3> QED BY <1>4, <1>6, <3>1, <3>4, <3>5, FailedEnds
  <2>12. CASE r.v # NULL
    <3> DEFINE K == G \cup {r.v}
               w == Plus(e, v)
    <3>1. PICK n \in store_member(h, a, f, r.v) : Ending(h, n, r)
      BY <2>6, <2>12
    <3>2. Owns(g, VT, w, G)
      BY <2>7
    <3> HIDE DEF w
    <3>3. Usable(g, d.v) /\ IsNumber(g, v) /\ Made(g, VT, w, G, r)
      <4>1. Usable(g, d.v)
        BY <2>3, <2>8, <2>12, <3>2, CalculatedMade
      <4>2. Made(g, VT, w, G, r)
        BY <2>3, <2>8, <3>2, <4>1, CalculatedMade
      <4>3. IsNumber(g, v)
        BY <2>8, <2>12, <3>2, <4>1, CalculatedBoth
      <4> QED BY <4>1, <4>2, <4>3
    <3>4. /\ Owns(r.h, VT, w, K) /\ ~r.h.wild
          /\ Usable(r.h, r.v) /\ TypeOf(r.h, r.v) \in NumberTypes /\ r.v \in Vals
      BY <2>7, <2>12, <3>3 DEF Made, Usable
    <3>5. K \ {r.v} = G \ {r.v} /\ r.v \in K
      OBVIOUS
    <3> HIDE DEF K
    <3>6. Left(r.h, h, VT, e, K)
      BY <1>4, <3>4, LetGo DEF w
    <3> HIDE DEF h
    <3>7. Owns(h, VT, e, K) /\ ~h.wild /\ Same(r.h, h)
      BY <3>4, <3>6 DEF Left
    <3>8. Usable(h, r.v) /\ TypeOf(h, r.v) \in NumberTypes
      <4>1. Usable(h, r.v)
        BY <3>4, <3>5, <3>7, HandUsable
      <4> QED BY <3>4, <3>7, <4>1, SameLike DEF Like, Owns
    <3>9. v # a
      <4>1. TypeOf(g, v) = TypeOf(d.h, v)
        BY <2>7, <2>8, SameLike DEF Like, Owns
      <4>2. TypeOf(d.h, v) = TypeOf(heap, v)
        BY <1>4, <1>9, <2>3, GrowsLike DEF Like
      <4> QED BY <2>9, <3>3, <4>1, <4>2 DEF IsNumber
    <3>10. ASSUME NEW q, NEW L, Owns(q, VT, e, L)
           PROVE  Lone(a) \/ Usable(q, a)
      <4>1. a \in Ids => x[a] <= e[a] + 1
        BY <1>4, <3>9 DEF Plus, One
      <4>2. Owns(heap, VT, x, {})
        BY <1>5
      <4> HIDE DEF x
      <4> QED BY <1>4, <2>9, <3>10, <4>1, <4>2, Survives
    <3>11. MemberStored(h, n, VT, e, K, a)
      <4>1. TypeOf(h, r.v) \in NumberTypes \cup {"null"}
        BY <3>8
      <4> QED BY <1>4, <3>7, <3>8, <4>1, StoreMemberOwns
    <3> DEFINE q == object_free(n.h, r.v)
    <3>12. /\ n.v = r.v => STACK_PUSH(op, a, n.h, s, r.v)
           /\ n.v # r.v => Failed(op, a, q, s) \/ FailedQuietly(op, a, q, s)
      BY <3>1
    <3>13. ASSUME NEW L, L \cap Ids \subseteq K \ {r.v}
           PROVE  Hands(op, a, e, L, s)
      <4>1. TypeOf(heap, a) = "union" \/ L \cap Ids = {}
        BY <2>4, <3>5, <3>13
      <4> QED BY <1>8, <4>1
    <3>14. CASE n.v = r.v
      <4> DEFINE L == K \ {n.v}
      <4>1. Leave(op, a, object_ref(n.h, r.v), Append(s, r.v), vars, "runs")
        BY <3>12, <3>14 DEF STACK_PUSH, Continue
      <4>2. Owns(n.h, VT, e, L) /\ ~n.h.wild /\ (Usable(n.h, a) => HasElement(n.h, a, r.v))
        BY <2>12, <3>7, <3>11, <3>14 DEF MemberStored
      <4>3. Hands(op, a, e, L \ {r.v}, s)
        BY <3>13
      <4> HIDE DEF L
      <4>4. Usable(n.h, r.v) \/ Temp(op, a)
        <5>1. CASE Lone(a)
          BY <1>6, <5>1 DEF Temp
        <5>2. CASE Usable(n.h, a)
          BY <2>3, <4>2, <5>2, ContainedUsable
        <5> QED BY <3>10, <4>2, <5>1, <5>2
      <4> QED BY <1>4, <1>6, <3>4, <4>1, <4>2, <4>3, <4>4, Pushes
    <3>15. CASE n.v # r.v
      <4>1. PICK L \in {K, K \ {n.v}} : Owns(n.h, VT, e, L)
        <5>1. CASE n.v = NULL
          BY <3>11, <5>1 DEF MemberStored
        <5>2. CASE n.v # NULL
          BY <3>11, <5>2 DEF MemberStored
        <5> QED BY <5>1, <5>2
      <4>2. n.h.wild => Lone(a)
        BY <3>7, <3>10, <3>11 DEF MemberStored
      <4>3. r.v \in Ids => r.v \in L
        BY <3>5, <3>15, <4>1
      <4>4. Hands(op, a, e, L \ {r.v}, s)
        <5>1. (L \ {r.v}) \cap Ids \subseteq K \ {r.v}
          BY <4>1
        <5> QED BY <3>13, <5>1
      <4>5. Owns(q, VT, e, L \ {r.v}) /\ q.wild = n.h.wild
        BY <4>1, <4>3, FreeOwns
      <4>6. Failed(op, a, q, s) \/ FailedQuietly(op, a, q, s)
        BY <3>12, <3>15
      <4> HIDE DEF q
      <4>7. q.wild => Temp(op, a)
        BY <1>6, <4>2, <4>5 DEF Temp
      <4> QED BY <1>4, <1>6, <4>4, <4>5, <4>6, <4>7, FailedEnds
    <3> QED BY <3>14, <3>15
  <2> QED BY <2>11, <2>12
<1> QED BY <1>10, <1>11

-----------------------------------------------------------------------------
(* Calls.                                                                   *)
\* The arguments of a call, in the order of the vec that holds them.
LEMMA Arguments ==
  ASSUME Good, NEW n \in 1 .. 2, Holds(n)
  PROVE  /\ SubSeq(stack, Len(stack) + 1 - n, Len(stack)) \in Stacks
         /\ \A i \in Ids : ST(stack)[i] = ST(Under(n))[i] + Times(i, SubSeq(stack, Len(stack) + 1 - n, Len(stack)))
<1> DEFINE S == SubSeq(stack, Len(stack) + 1 - n, Len(stack))
<1>1. stack \in Seq(Vals) /\ Len(stack) \in Nat /\ Len(stack) >= n
  BY DEF Good, Stacks, Holds
<1>2. Holds(1) /\ Arg(1) \in Vals /\ \A i \in Ids : ST(Under(0))[i] = ST(Under(1))[i] + One(Arg(1), i)
  <2>1. Holds(1)
    BY <1>1 DEF Holds
  <2>2. 1 - 1 = 0
    OBVIOUS
  <2> QED BY <2>1, <2>2, StackIs
<1>3. Under(0) = stack
  BY <1>1 DEF Under
<1>4. CASE n = 1
  <2>1. S = <<Arg(1)>>
    <3>1. S \in Seq(Vals) /\ Len(S) = 1
      BY <1>1, <1>4, SubSeqProperties
    <3>2. S[1] = Arg(1)
      BY <1>1, <1>4, SubSeqProperties DEF Arg
    <3> HIDE DEF S
    <3> QED BY <3>1, <3>2
  <2>2. <<Arg(1)>> \in Seq(Vals)
    BY <1>2
  <2>3. \A i \in Ids : Times(i, <<Arg(1)>>) = One(Arg(1), i)
    BY <1>2, TimesShort
  <2> HIDE DEF S
  <2>4. S \in Stacks /\ \A i \in Ids : ST(stack)[i] = ST(Under(n))[i] + Times(i, S)
    BY <1>2, <1>3, <1>4, <2>1, <2>2, <2>3 DEF Stacks
  <2> QED BY <2>4 DEF S
<1>5. CASE n = 2
  <2>0. Holds(2) /\ Arg(2) \in Vals /\ \A i \in Ids : ST(Under(1))[i] = ST(Under(2))[i] + One(Arg(2), i)
    <3>1. Holds(2)
      BY <1>1, <1>5 DEF Holds
    <3>2. 2 - 1 = 1
      OBVIOUS
    <3> QED BY <3>1, <3>2, StackIs
  <2>1. S = <<Arg(2), Arg(1)>>
    <3>1. S \in Seq(Vals) /\ Len(S) = 2
      BY <1>1, <1>5, SubSeqProperties
    <3>2. S[1] = Arg(2) /\ S[2] = Arg(1)
      BY <1>1, <1>5, SubSeqProperties DEF Arg
    <3> HIDE DEF S
    <3> QED BY <3>1, <3>2
  <2>2. <<Arg(2), Arg(1)>> \in Seq(Vals)
    BY <1>2, <2>0
  <2>3. \A i \in Ids : Times(i, <<Arg(2), Arg(1)>>) = One(Arg(2), i) + One(Arg(1), i)
    BY <1>2, <2>0, TimesShort
  <2> HIDE DEF S
  <2>4. S \in Stacks
    BY <2>1, <2>2 DEF Stacks
  <2>5. \A i \in Ids : ST(stack)[i] = ST(Under(n))[i] + Times(i, S)
    <3> TAKE i \in Ids
    <3>1. ST(Under(2))[i] \in Nat /\ One(Arg(1), i) \in Nat /\ One(Arg(2), i) \in Nat
      <4>1. ST(Under(2)) \in [Ids -> Nat]
        BY <2>0, StackIs
      <4> QED BY <4>1 DEF One
    <3>2. ST(stack)[i] = ST(Under(1))[i] + One(Arg(1), i) /\ ST(Under(1))[i] = ST(Under(2))[i] + One(Arg(2), i)
      BY <1>2, <1>3, <2>0
    <3>3. Times(i, S) = One(Arg(2), i) + One(Arg(1), i)
      BY <2>1, <2>3
    <3> QED BY <1>5, <3>1, <3>2, <3>3
  <2> QED BY <2>4, <2>5 DEF S
<1> QED BY <1>4, <1>5

\* What is in hand is the whole stack, or more where a call loses some.
Brings(op, a, d) ==
  \/ Lose(op, a) /\ \A i \in Ids : ST(stack)[i] <= d[i]
  \/ \A i \in Ids : ST(stack)[i] = d[i]

\* A call is right that has its arguments in hand and returns what nothing counts yet.
LEMMA CalledEnds ==
  ASSUME Good, NEW n \in 1 .. 2, Holds(n), NEW op, op # "none", NEW r, Called(op, n, r), r.v = NULL \/ r.v \in Vals,
         NEW d \in [Ids -> Nat], NEW F, Owns(r.h, VT, d, F), \A i \in Ids : i \in F <=> i = r.v, ~r.h.wild,
         Brings(op, Arg(n), d)
  PROVE  Outcome
<1> DEFINE S == SubSeq(stack, Len(stack) + 1 - n, Len(stack))
           g == UnrefAll(r.h, S)
           u == Under(n)
           c == [i \in Ids |-> d[i] - Times(i, S)]
<1>1. Ready(op, Arg(n), g, u, r.v)
  BY DEF Called, Ready
<1>2. S \in Stacks /\ \A i \in Ids : ST(stack)[i] = ST(u)[i] + Times(i, S)
  BY Arguments
<1>3. u \in Stacks /\ ST(u) \in [Ids -> Nat] /\ Arg(n) \in Vals
  <2>1. n \in 1 .. 3
    OBVIOUS
  <2> QED BY <2>1, StackIs
<1> HIDE DEF S, u
<1>4. \A i \in Ids : Times(i, S) \in Nat
  BY <1>2, TimesIsTo DEF Stacks
<1>5. \A i \in Ids : Times(i, u) = ST(u)[i] /\ ST(u)[i] \in Nat
  BY <1>3, HandsAre
<1>6. \A i \in Ids : d[i] - Times(i, S) \in Nat
  <2> TAKE i \in Ids
  <2>1. ST(stack)[i] <= d[i] /\ d[i] \in Nat
    <3>1. ST(stack)[i] \in Nat
      BY <1>2, <1>4, <1>5
    <3> QED BY <3>1 DEF Brings
  <2> QED BY <1>2, <1>4, <1>5, <2>1
<1>7. c \in [Ids -> Nat] /\ GivesAll(d, c, S)
  BY <1>4, <1>6 DEF GivesAll
<1>8. Hands(op, Arg(n), c, {}, u)
  <2>1. \A i \in Ids : Times(i, u) <= c[i]
    <3> TAKE i \in Ids
    <3>1. ST(stack)[i] <= d[i] /\ d[i] \in Nat
      <4>1. ST(stack)[i] \in Nat
        BY <1>2, <1>4, <1>5
      <4> QED BY <4>1 DEF Brings
    <3> QED BY <1>2, <1>4, <1>5, <3>1
  <2>2. Lose(op, Arg(n)) \/ \A i \in Ids : Times(i, u) = c[i]
    <3>1. ASSUME \A i \in Ids : ST(stack)[i] = d[i]
          PROVE  \A i \in Ids : Times(i, u) = c[i]
      <4> TAKE i \in Ids
      <4>1. ST(stack)[i] = d[i] /\ d[i] \in Nat
        BY <3>1
      <4> QED BY <1>2, <1>4, <1>5, <4>1
    <3> QED BY <3>1 DEF Brings
  <2> QED BY <2>1, <2>2 DEF Hands
<1> HIDE DEF c
<1>9. Owns(g, VT, c, F) /\ g.wild = r.h.wild
  BY <1>2, <1>7, UnrefAllOwns DEF Stacks
<1> HIDE DEF g
<1>10. g.wild => Temp(op, Arg(n))
  BY <1>9
<1>11. (r.v = NULL => Failed(op, Arg(n), g, u)) /\ (r.v # NULL => STACK_PUSH(op, Arg(n), g, u, r.v))
  BY <1>1 DEF Ready
<1> DEFINE a == Arg(n)
           v == r.v
<1>12. /\ Hands(op, a, c, {}, u) /\ (g.wild => Temp(op, a)) /\ (v = NULL \/ v \in Vals)
       /\ (v = NULL => Failed(op, a, g, u)) /\ (v # NULL => STACK_PUSH(op, a, g, u, v))
  BY <1>8, <1>10, <1>11
<1>13. \A i \in Ids : i \in F <=> i = v
  OBVIOUS
<1> HIDE DEF a, v
<1>14. Good /\ op # "none" /\ u \in Stacks /\ Owns(g, VT, c, F)
  BY <1>3, <1>9
<1> QED BY <1>12, <1>13, <1>14, ResultEnds, SMTT(60)

\* The whole stack is in hand, and nothing is new.
LEMMA CallStart ==
  ASSUME Good
  PROVE  /\ Owns(heap, VT, ST(stack), {}) /\ ~heap.wild /\ ST(stack) \in [Ids -> Nat]
         /\ \A op, a : Brings(op, a, ST(stack))
         /\ \A i \in Ids : (i \in {} <=> i = NULL) /\ (i \in {} <=> i = "dummy")
         /\ "dummy" \in Vals /\ "dummy" # NULL
<1>1. stack \in Stacks
  BY DEF Good
<1>2. \A i \in Ids : i # NULL /\ i # "dummy"
  BY Apart, ConstsAre DEF Vals, Places
<1>3. "dummy" \in Vals
  BY ConstsAre DEF Vals
<1>4. "dummy" # NULL
  BY DEF NULL
<1> QED BY <1>1, <1>2, <1>3, <1>4, StartOwns, HandsAre DEF Brings

\* A call that fails with nothing done.
LEMMA CallFails ==
  ASSUME Good, NEW n \in 1 .. 2, Holds(n), NEW op, op # "none", Called(op, n, Got(heap, NULL))
  PROVE  Outcome
<1> DEFINE r == Got(heap, NULL)
           d == ST(stack)
<1>1. r.h = heap /\ r.v = NULL
  BY DEF Got
<1>2. Called(op, n, r)
  OBVIOUS
<1> HIDE DEF r
<1>3. d \in [Ids -> Nat] /\ Owns(r.h, VT, d, {}) /\ (\A i \in Ids : i \in {} <=> i = r.v) /\ ~r.h.wild /\ Brings(op, Arg(n), d)
  BY <1>1, CallStart
<1> HIDE DEF d
<1> QED BY <1>1, <1>2, <1>3, CalledEnds

\* The builtins append, remove and copy, and the other calls.
LEMMA AppendOutcome ==
  ASSUME Good, _builtin_append
  PROVE  Outcome
<1> DEFINE a == Arg(2)
           c == Arg(1)
           d == ST(stack)
           g == object_ref([heap EXCEPT !.o[a].slots = Append(@, c)], c)
<1>1. /\ IF TypeOf(heap, a) # "vec" THEN Called("APPEND", 2, Got(heap, NULL))
         ELSE /\ TypeOf(heap, c) \in NumberTypes \cup {"null"}
              /\ Len(Slots(heap, a)) < MaxLen
              /\ Called("APPEND", 2, Got(g, "dummy"))
  BY DEF _builtin_append
<1>0. Holds(2)
  BY DEF _builtin_append, Holds
<1>2. CASE TypeOf(heap, a) # "vec"
  <2>1. Called("APPEND", 2, Got(heap, NULL))
    BY <1>1, <1>2
  <2> QED BY <1>0, <2>1, CallFails
<1>3. CASE TypeOf(heap, a) = "vec"
  <2>1. a \in Vals /\ Usable(heap, c)
    BY <1>0, PoppedTwo
  <2>2. /\ TypeOf(heap, c) \in NumberTypes \cup {"null"} /\ Len(Slots(heap, a)) < MaxLen
    BY <1>1, <1>3
  <2> DEFINE r == Got(g, "dummy")
  <2>3. Called("APPEND", 2, r) /\ r.h = g /\ r.v = "dummy"
    BY <1>1, <1>3 DEF Got
  <2>4. Owns(heap, VT, d, {}) /\ ~heap.wild /\ d \in [Ids -> Nat] /\ Brings("APPEND", a, d)
    BY CallStart
  <2> HIDE DEF a, c, d
  <2>5. Owns(g, VT, d, {} \ {c}) /\ g.wild = heap.wild
    BY <1>3, <2>1, <2>2, <2>4, AppendOwns
  <2>6. {} \ {c} = {}
    OBVIOUS
  <2> HIDE DEF g, r
  <2>7. Owns(r.h, VT, d, {}) /\ ~r.h.wild
    BY <2>3, <2>4, <2>5, <2>6
  <2>8. (\A i \in Ids : i \in {} <=> i = r.v) /\ r.v \in Vals
    BY <2>3, CallStart
  <2>9. Brings("APPEND", Arg(2), d)
    BY <2>4 DEF a
  <2>10. Called("APPEND", 2, r) /\ d \in [Ids -> Nat]
    BY <2>3, <2>4
  <2> QED BY <1>0, <2>7, <2>8, <2>9, <2>10, CalledEnds
<1> QED BY <1>2, <1>3

LEMMA RemoveOutcome ==
  ASSUME Good, _builtin_remove
  PROVE  Outcome
<1> DEFINE a == Arg(2)
           k == Arg(1)
           e == ST(stack)
<1>1. PICK p \in Place(heap, a, k) :
       CASE p < 1 -> Called("REMOVE", 2, Got(heap, NULL))
         [] p >= 1 /\ TypeOf(heap, a) = "vec" -> Called("REMOVE", 2, Got(vecobject_remove(heap, a, p), "dummy"))
         [] OTHER -> Called("REMOVE", 2, Got(dictobject_remove(heap, a), "dummy"))
  BY DEF _builtin_remove
<1>2. Holds(2)
  BY DEF _builtin_remove, Holds
<1>3. a \in Vals
  BY <1>2, PoppedTwo
<1>4. Owns(heap, VT, e, {}) /\ ~heap.wild /\ e \in [Ids -> Nat] /\ \A op, b : Brings(op, b, e)
  BY CallStart
<1>5. TypeOf(heap, a) = "vec" => Lose("REMOVE", Arg(2))
  BY DEF Lose
<1>6. \A d : (\A i \in Ids : e[i] <= d[i]) /\ Lose("REMOVE", Arg(2)) => Brings("REMOVE", Arg(2), d)
  BY DEF Brings
<1> HIDE DEF a, k, e
<1>7. Found(heap, a, k, p, object_index(heap, a, p))
  BY <1>3, <1>4, PlaceFound
<1>8. p \in Int /\ (p >= 1 => p \in DOMAIN Slots(heap, a) /\ TypeOf(heap, a) \in {"vec", "dict"})
  BY <1>7 DEF Found
<1>9. ASSUME NEW h, NEW d \in [Ids -> Nat], Called("REMOVE", 2, Got(h, "dummy")), Owns(h, VT, d, {}), ~h.wild,
             Brings("REMOVE", Arg(2), d)
      PROVE  Outcome
  <2> DEFINE r == Got(h, "dummy")
  <2>1. Called("REMOVE", 2, r) /\ r.h = h /\ r.v = "dummy"
    BY <1>9 DEF Got
  <2> HIDE DEF r
  <2>2. Owns(r.h, VT, d, {}) /\ ~r.h.wild
    BY <1>9, <2>1
  <2>3. (\A i \in Ids : i \in {} <=> i = r.v) /\ r.v \in Vals
    BY <2>1, CallStart
  <2> QED BY <1>2, <1>9, <2>1, <2>2, <2>3, CalledEnds
<1>10. CASE p < 1
  <2>1. Called("REMOVE", 2, Got(heap, NULL))
    BY <1>1, <1>8, <1>10
  <2> QED BY <1>2, <2>1, CallFails
<1>11. CASE p >= 1 /\ TypeOf(heap, a) = "vec"
  <2> DEFINE h == vecobject_remove(heap, a, p)
  <2>1. Called("REMOVE", 2, Got(h, "dummy"))
    BY <1>1, <1>8, <1>11
  <2>2. PICK d \in [Ids -> Nat] : Owns(h, VT, d, {}) /\ (\A i \in Ids : e[i] <= d[i]) /\ h.wild = heap.wild
    BY <1>3, <1>4, <1>8, <1>11, VecRemoveOwns
  <2>3. Brings("REMOVE", Arg(2), d)
    BY <1>5, <1>6, <1>11, <2>2
  <2> HIDE DEF h
  <2> QED BY <1>4, <1>9, <2>1, <2>2, <2>3
<1>12. CASE p >= 1 /\ TypeOf(heap, a) # "vec"
  <2> DEFINE h == dictobject_remove(heap, a)
  <2>1. Called("REMOVE", 2, Got(h, "dummy"))
    BY <1>1, <1>8, <1>12
  <2>2. Owns(h, VT, e, {}) /\ h.wild = heap.wild
    BY <1>3, <1>4, <1>8, <1>12, DictRemoveOwns
  <2> HIDE DEF h
  <2> QED BY <1>4, <1>9, <2>1, <2>2
<1> QED BY <1>8, <1>10, <1>11, <1>12

LEMMA CopyOutcome ==
  ASSUME Good, _builtin_copy
  PROVE  Outcome
<1> DEFINE a == Arg(1)
           t == TypeOf(heap, a)
           e == ST(stack)
<1>1. /\ t \in NumberTypes => \E r \in object_cast(heap, a, t) : Called("COPY", 1, r)
      /\ t \in Compounds \cup {"vec", "dict"} /\ (t = "union" => Slots(heap, a) # <<>>) =>
                \E c \in Copied(heap, Slots(heap, a)) :
                  CASE ~c.ok /\ t = "dict" -> Dies("COPY", a)
                    [] ~c.ok /\ t # "dict" -> Called("COPY", 1, Got(c.h, NULL))
                    [] OTHER -> \E r \in New(c.h, t, c.s) : Called("COPY", 1, r)
      /\ t = "union" /\ Slots(heap, a) = <<>> => Dies("COPY", a)
      /\ t \notin NumberTypes \cup Compounds \cup {"vec", "dict"} => Called("COPY", 1, Got(heap, NULL))
  BY DEF _builtin_copy, NumberTypes, Compounds
<1>2. Holds(1)
  BY DEF _builtin_copy
<1>3. a \in Vals /\ Usable(heap, a)
  BY <1>2, Popped
<1>4. Owns(heap, VT, e, {}) /\ ~heap.wild /\ e \in [Ids -> Nat] /\ \A op, b : Brings(op, b, e)
  BY CallStart
<1>5. /\ t \in {"vec", "struct"} => Lose("COPY", Arg(1))
      /\ \A d : (\A i \in Ids : e[i] <= d[i]) /\ Lose("COPY", Arg(1)) => Brings("COPY", Arg(1), d)
      /\ \A d : (\A i \in Ids : e[i] = d[i]) => Brings("COPY", Arg(1), d)
  BY DEF Brings, Lose
<1> HIDE DEF a, e
<1>6. CASE t \in NumberTypes
  <2>1. PICK r \in object_cast(heap, a, t) : Called("COPY", 1, r)
    BY <1>1, <1>6
  <2>2. Made(heap, VT, e, {}, r)
    BY <1>3, <1>4, CastMade
  <2>3. Owns(r.h, VT, e, {} \cup {r.v}) /\ r.h.wild = heap.wild /\ (r.v = NULL \/ r.v \in Vals)
    BY <2>2, MadeOwns
  <2> DEFINE F == {} \cup {r.v}
  <2>4. \A i \in Ids : i \in F <=> i = r.v
    OBVIOUS
  <2>5. Owns(r.h, VT, e, F)
    BY <2>3
  <2> HIDE DEF F
  <2> QED BY <1>2, <1>4, <2>1, <2>3, <2>4, <2>5, CalledEnds
<1>7. CASE t \in Compounds \cup {"vec", "dict"} /\ (t = "union" => Slots(heap, a) # <<>>)
  <2>1. PICK c \in Copied(heap, Slots(heap, a)) :
                  CASE ~c.ok /\ t = "dict" -> Dies("COPY", a)
                    [] ~c.ok /\ t # "dict" -> Called("COPY", 1, Got(c.h, NULL))
                    [] OTHER -> \E r \in New(c.h, t, c.s) : Called("COPY", 1, r)
    BY <1>1, <1>7
  <2>2. t \in Types \ NumberTypes
    BY <1>7 DEF Types, NumberTypes, Compounds
  <2>3. a \in Places /\ t = heap.o[a].type
    BY <1>3, <1>4, <2>2, TypedUsable
  <2>4. CopyInv(heap, VT, e, a, Len(Slots(heap, a)), c)
    BY <1>3, <1>4, <2>3, CopiedOwns
  <2>5. c.h.wild = heap.wild
    BY <2>4 DEF CopyInv
  <2>6. CASE ~c.ok /\ t = "dict"
    <3>1. Dies("COPY", a)
      BY <2>1, <2>6
    <3>2. "COPY" # "none"
      OBVIOUS
    <3> QED BY <3>1, <3>2, DiesEnds
  <2>7. CASE ~c.ok /\ t # "dict"
    <3> DEFINE r == Got(c.h, NULL)
    <3>1. Called("COPY", 1, r)
      BY <2>1, <2>7
    <3>2. r.h = c.h /\ r.v = NULL
      BY DEF Got
    <3>3. PICK d \in [Ids -> Nat] : Owns(c.h, VT, d, {}) /\ \A i \in Ids : e[i] <= d[i] /\ (Len(Slots(heap, a)) <= 1 => e[i] = d[i])
      BY <2>4, <2>7 DEF CopyInv
    <3>4. Brings("COPY", Arg(1), d)
      <4>1. CASE t = "union"
        <5>1. Len(Slots(heap, a)) <= 1
          BY <1>4, <2>3, <4>1 DEF Owns, Shaped, Fits, Slots
        <5> QED BY <1>5, <3>3, <5>1
      <4>2. CASE t # "union"
        <5>1. Lose("COPY", Arg(1))
          BY <1>5, <1>7, <2>7, <4>2 DEF Compounds
        <5> QED BY <1>5, <3>3, <5>1
      <4> QED BY <4>1, <4>2
    <3> HIDE DEF r
    <3>5. Owns(r.h, VT, d, {}) /\ ~r.h.wild
      BY <1>4, <2>5, <3>2, <3>3
    <3>6. (\A i \in Ids : i \in {} <=> i = r.v)
      BY <3>2, CallStart
    <3>7. d \in [Ids -> Nat] /\ (r.v = NULL \/ r.v \in Vals)
      BY <3>2
    <3> QED BY <1>2, <3>1, <3>4, <3>5, <3>6, <3>7, CalledEnds
  <2>8. CASE c.ok
    <3>1. PICK r \in New(c.h, t, c.s) : Called("COPY", 1, r)
      BY <2>1, <2>8
    <3>2. Owns(r.h, VT, e, {r.v}) /\ r.h.wild = heap.wild /\ Usable(r.h, r.v)
      <4>1. Owns(heap, VT, e, {}) /\ a \in Vals /\ TypeOf(heap, a) \in Types \ NumberTypes
        BY <1>3, <1>4, <2>2
      <4>2. r \in New(c.h, TypeOf(heap, a), c.s)
        OBVIOUS
      <4> HIDE DEF t
      <4> QED BY <2>4, <2>8, <4>1, <4>2, CopyOwns
    <3>3. r.v \in Vals /\ \A i \in Ids : i \in {r.v} <=> i = r.v
      BY <3>2 DEF Usable
    <3> DEFINE F == {r.v}
    <3>4. Owns(r.h, VT, e, F) /\ \A i \in Ids : i \in F <=> i = r.v
      BY <3>2
    <3>5. Called("COPY", 1, r) /\ r.v \in Vals /\ ~r.h.wild /\ e \in [Ids -> Nat] /\ Brings("COPY", Arg(1), e)
      BY <1>4, <3>1, <3>2, <3>3
    <3> HIDE DEF F
    <3> QED BY <1>2, <3>4, <3>5, CalledEnds
  <2> QED BY <2>6, <2>7, <2>8
<1>8. CASE t = "union" /\ Slots(heap, a) = <<>>
  <2>1. Dies("COPY", a)
    BY <1>1, <1>8
  <2>2. "COPY" # "none"
    OBVIOUS
  <2> QED BY <2>1, <2>2, DiesEnds
<1>9. CASE t \notin NumberTypes \cup Compounds \cup {"vec", "dict"}
  <2>1. Called("COPY", 1, Got(heap, NULL))
    BY <1>1, <1>9
  <2> QED BY <1>2, <2>1, CallFails
<1> QED BY <1>6, <1>7, <1>8, <1>9

LEMMA CallOtherOutcome ==
  ASSUME Good, CallOther
  PROVE  Outcome
<1> DEFINE a == Arg(1)
           op == "CALL_FUNC"
<1>1. /\ TypeOf(heap, a) # "vec" => Failed(op, a, heap, Under(1))
      /\ TypeOf(heap, a) = "vec" /\ Len(stack) = 1 => Dies(op, a)
      /\ TypeOf(heap, a) = "vec" /\ Len(stack) # 1 => Failed(op, a, UnrefAll(heap, <<Arg(2), Arg(1)>>), Under(2))
  BY DEF CallOther
<1>2. Holds(1) /\ op # "none"
  BY DEF CallOther
<1>3. CASE TypeOf(heap, a) # "vec"
  <2> DEFINE s == Under(1)
             d == ST(stack)
  <2>1. Failed(op, a, heap, s)
    BY <1>1, <1>3
  <2>2. Lose(op, a)
    BY <1>3 DEF Lose
  <2>3. s \in Stacks
    BY <1>2, Popped
  <2>4. \A i \in Ids : Times(i, s) <= d[i]
    <3> TAKE i \in Ids
    <3>1. ST(stack)[i] = ST(s)[i] + One(a, i)
      <4>1. 1 - 1 = 0
        OBVIOUS
      <4> QED BY <1>2, <4>1, StackIs
    <3>2. ST(s)[i] = Times(i, s) /\ ST(s)[i] \in Nat
      BY <2>3, HandsAre
    <3>3. One(a, i) \in Nat
      BY DEF One
    <3> QED BY <3>1, <3>2, <3>3
  <2>5. Hands(op, a, d, {}, s)
    BY <2>2, <2>4 DEF Hands
  <2>6. Owns(heap, VT, d, {}) /\ ~heap.wild
    BY StartOwns
  <2> HIDE DEF a, s, d, op
  <2> QED BY <1>2, <2>1, <2>3, <2>5, <2>6, FailedEnds
<1>4. CASE TypeOf(heap, a) = "vec" /\ Len(stack) = 1
  <2>1. Dies(op, a)
    BY <1>1, <1>4
  <2> HIDE DEF a, op
  <2> QED BY <1>2, <2>1, DiesEnds
<1>5. CASE TypeOf(heap, a) = "vec" /\ Len(stack) # 1
  <2> DEFINE g == UnrefAll(heap, <<Arg(2), Arg(1)>>)
             s == Under(2)
             e == ST(s)
  <2>1. Failed(op, a, g, s)
    BY <1>1, <1>5
  <2>2. Holds(2)
    <3>1. Len(stack) \in Nat /\ Len(stack) >= 1
      BY <1>2 DEF Holds, Good, Stacks
    <3>2. Len(stack) # 1
      BY <1>5
    <3>3. \A k \in Nat : k >= 1 /\ k # 1 => k >= 2
      OBVIOUS
    <3> HIDE DEF a, g, s, e, op
    <3>4. Len(stack) >= 2
      BY <3>1, <3>2, <3>3
    <3> QED BY <3>4 DEF Holds
  <2>3. /\ s \in Stacks /\ Arg(1) \in Vals /\ Arg(2) \in Vals /\ e \in [Ids -> Nat]
        /\ Owns(heap, VT, Plus(Plus(e, Arg(1)), Arg(2)), {}) /\ ~heap.wild
    BY <2>2, PoppedTwo
  <2>4. Hands(op, a, e, {}, s)
    BY <2>3, StackHands
  <2> HIDE DEF a, s, e, op
  <2>5. Left(heap, g, VT, e, {})
    BY <2>3, LetGoPair
  <2> HIDE DEF g
  <2>6. Owns(g, VT, e, {}) /\ ~g.wild
    BY <2>3, <2>5 DEF Left
  <2> QED BY <1>2, <2>1, <2>3, <2>4, <2>6, FailedEnds
<1> QED BY <1>3, <1>4, <1>5

-----------------------------------------------------------------------------
(* A failed '&'.  What is true when an opcode lets go of too much: an object *)
(* that is left has a count, which is at most the number of its holders.     *)
(* The objects are those of k, and t(i) are the references outside objects.  *)
Weak(k, h, t) ==
  /\ h \in Heaps /\ Same(k, h) /\ h.o[Literal].type = "vec"
  /\ \A j \in Places : ~Live(h, j) => h.o[j] = NoObject
  /\ \A i \in Ids : Live(h, i) => 0 < h.o[i].ref /\ h.o[i].ref <= Held(h, i) + t[i]

\* With more references outside, Weak says less.
LEMMA WeakMore ==
  ASSUME NEW k, NEW h, NEW t \in [Ids -> Int], Shaped(k), Weak(k, h, t), NEW u \in [Ids -> Int], \A i \in Ids : t[i] <= u[i]
  PROVE  Weak(k, h, u)
<1>1. ASSUME NEW i \in Ids, Live(h, i) PROVE 0 < h.o[i].ref /\ h.o[i].ref <= Held(h, i) + u[i]
  <2>1. 0 < h.o[i].ref /\ h.o[i].ref <= Held(h, i) + t[i] /\ t[i] <= u[i] /\ t[i] \in Int /\ u[i] \in Int
    BY <1>1 DEF Weak
  <2>2. h.o[i].ref \in Int
    BY HeapIs DEF Weak, Places
  <2>3. Held(h, i) \in Nat
    BY FinitePlaces DEF Held, Places
  <2> QED BY <2>1, <2>2, <2>3
<1> QED BY <1>1 DEF Weak

\* The slots of what is left are those of k.
LEMMA WeakSlots ==
  ASSUME NEW k, NEW h, NEW t, Shaped(k), Weak(k, h, t), NEW j \in Places
  PROVE  /\ Slots(h, j) \in Seq(Vals) /\ Len(Slots(h, j)) <= MaxLen + 2
         /\ \A n \in DOMAIN Slots(h, j) : TypeOf(k, Slots(h, j)[n]) \in NumberTypes \cup {"null"}
<1>1. CASE Live(h, j)
  <2>1. h.o[j].slots = k.o[j].slots
    BY <1>1 DEF Weak, Same
  <2>2. k \in Heaps /\ Fits(k, k.o[j])
    BY DEF Shaped
  <2>3. k.o[j].slots \in Seq(Vals)
    BY <2>2, HeapIs
  <2> QED BY <2>1, <2>2, <2>3 DEF Fits, Slots
<1>2. CASE ~Live(h, j)
  <2>1. Slots(h, j) = <<>>
    BY <1>2 DEF Weak, Slots, NoObject
  <2>2. <<>> \in Seq(Vals) /\ Len(<<>>) = 0 /\ DOMAIN <<>> = {}
    OBVIOUS
  <2>3. 0 <= MaxLen + 2
    BY RefsAssumption
  <2> QED BY <2>1, <2>2, <2>3
<1> QED BY <1>1, <1>2

\* One object goes, or has one reference less.
OneLess(h, g, v) ==
  /\ g \in Heaps /\ \A j \in Places : j # v => g.o[j] = h.o[j]
  /\ \/ g.o[v] = NoObject
     \/ /\ g.o[v].type = h.o[v].type /\ g.o[v].slots = h.o[v].slots
        /\ g.o[v].ref = h.o[v].ref - 1 /\ g.o[v].ref > 0
WithSlots(t, v, s) == [i \in Ids |-> t[i] + Times(i, s) - One(v, i)]

\* Weak is kept with one reference less, when an object goes or its count goes down.
LEMMA WeakOne ==
  ASSUME NEW k, NEW h, NEW t \in [Ids -> Int], Shaped(k), Weak(k, h, t), NEW v \in Ids, NEW g, OneLess(h, g, v),
         NEW s, s = IF g.o[v] = NoObject THEN Slots(h, v) ELSE <<>>
  PROVE  Weak(k, g, WithSlots(t, v, s))
<1>0. v \in Places /\ h \in Heaps /\ g \in Heaps
  BY DEF Places, Weak, OneLess
<1>1. \A j \in Places : ~Live(g, j) => g.o[j] = NoObject
  <2> TAKE j \in Places
  <2>1. CASE j # v
    BY <2>1 DEF OneLess, Weak, Live
  <2>2. CASE j = v /\ g.o[v] # NoObject
    <3>1. g.o[v].type = h.o[v].type /\ g.o[v].slots = h.o[v].slots /\ g.o[v].ref > 0 /\ g.o[v].ref = h.o[v].ref - 1
      BY <2>2 DEF OneLess
    <3>2. Live(h, v)
      <4>1. ~Live(h, v) => h.o[v].ref = 0
        BY <1>0 DEF Weak, NoObject
      <4> QED BY <3>1, <4>1
    <3> QED BY <2>2, <3>1, <3>2 DEF Live
  <2> QED BY <2>1, <2>2
<1>2. Same(k, g)
  <2> SUFFICES ASSUME NEW j \in Places, Live(g, j) PROVE g.o[j].type = k.o[j].type /\ g.o[j].slots = k.o[j].slots
    BY DEF Same
  <2>1. g.o[j] # NoObject
    BY DEF Live, NoObject
  <2>2. g.o[j].type = h.o[j].type /\ g.o[j].slots = h.o[j].slots
    BY <2>1 DEF OneLess
  <2> QED BY <2>2 DEF Weak, Same, Live
<1>3. g.o[Literal].type = "vec"
  <2>1. Literal # v /\ Literal \in Places
    BY Apart DEF Places
  <2> QED BY <2>1 DEF OneLess, Weak
<1>4. ASSUME NEW i \in Ids, Live(g, i)
      PROVE  0 < g.o[i].ref /\ g.o[i].ref <= Held(g, i) + WithSlots(t, v, s)[i]
  <2>1. g.o[i] # NoObject /\ i \in Places
    BY <1>4 DEF Live, NoObject, Places
  <2>2. Live(h, i) /\ g.o[i].type = h.o[i].type
    BY <1>4, <2>1 DEF OneLess, Live
  <2>3. 0 < h.o[i].ref /\ h.o[i].ref <= Held(h, i) + t[i]
    BY <2>2 DEF Weak
  <2>4. /\ Held(h, i) = HeldBut(h, i, v) + Times(i, Slots(h, v)) /\ HeldBut(h, i, v) \in Nat /\ Held(h, i) \in Nat
    BY <1>0, WeakSlots, HeldSplit
  <2>5. Slots(g, v) = IF g.o[v] = NoObject THEN <<>> ELSE Slots(h, v)
    BY DEF OneLess, Slots, NoObject
  <2>6. Slots(g, v) \in Seq(Vals) /\ Len(Slots(g, v)) <= MaxLen + 2 /\ Slots(h, v) \in Seq(Vals)
    <3>1. Slots(h, v) \in Seq(Vals) /\ Len(Slots(h, v)) <= MaxLen + 2
      BY <1>0, WeakSlots
    <3>2. <<>> \in Seq(Vals) /\ Len(<<>>) = 0 /\ 0 <= MaxLen + 2
      BY RefsAssumption
    <3> QED BY <2>5, <3>1, <3>2
  <2>7. /\ Held(g, i) = HeldBut(g, i, v) + Times(i, Slots(g, v)) /\ HeldBut(g, i, v) \in Nat /\ Held(g, i) \in Nat
    BY <1>0, <2>6, HeldSplit
  <2>8. HeldBut(h, i, v) = HeldBut(g, i, v)
    <3>1. \A j \in Places \ {v} : Slots(h, j) = Slots(g, j)
      BY DEF OneLess, Slots
    <3> QED BY <3>1, HeldButSame
  <2>9. Times(i, <<>>) = 0 /\ Times(i, Slots(h, v)) \in Nat
    <3>1. Times(i, <<>>) = 0
      BY TimesShort
    <3> QED BY <2>6, <3>1, TimesIsTo
  <2>10. WithSlots(t, v, s)[i] = t[i] + Times(i, s) - One(v, i) /\ t[i] \in Int
    BY DEF WithSlots
  <2>11. Times(i, Slots(g, v)) + Times(i, s) = Times(i, Slots(h, v)) /\ Times(i, s) \in Nat /\ Times(i, Slots(g, v)) \in Nat
    <3>1. CASE g.o[v] = NoObject
      <4>1. s = Slots(h, v) /\ Slots(g, v) = <<>>
        BY <2>5, <3>1
      <4> QED BY <2>9, <4>1
    <3>2. CASE g.o[v] # NoObject
      <4>1. s = <<>> /\ Slots(g, v) = Slots(h, v)
        BY <2>5, <3>2
      <4> QED BY <2>9, <4>1
    <3> QED BY <3>1, <3>2
  <2>12. h.o[i].ref \in Int
    BY <1>0, <2>1, HeapIs
  <2>13. g.o[i].ref = h.o[i].ref - One(v, i) /\ 0 < g.o[i].ref /\ One(v, i) \in Nat
    <3>1. CASE i = v
      BY <2>1, <3>1 DEF OneLess, One
    <3>2. CASE i # v
      <4>1. g.o[i].ref = h.o[i].ref /\ One(v, i) = 0
        BY <2>1, <3>2 DEF OneLess, One
      <4> QED BY <2>3, <2>12, <4>1
    <3> QED BY <3>1, <3>2
  <2> QED BY <2>3, <2>4, <2>7, <2>8, <2>10, <2>11, <2>12, <2>13
<1> QED BY <1>0, <1>1, <1>2, <1>3, <1>4 DEF Weak

\* What letting go does first: the count goes down, or the object goes.
Lower(h, v) == [Touch(h, v) EXCEPT !.o[v].ref = @ - 1]

\* Letting go does one of the two.
LEMMA LowerIs ==
  ASSUME NEW h \in Heaps, \A j \in Places : ~Live(h, j) => h.o[j] = NoObject, NEW v \in Ids,
         NEW g, g = Lower(h, v)
  PROVE  /\ g \in Heaps /\ g.o[v].ref = h.o[v].ref - 1 /\ g.o[v].slots = h.o[v].slots /\ g.o[v].type = h.o[v].type
         /\ \A j \in Places : j # v => g.o[j] = h.o[j]
         /\ g.o[v].ref > 0 => Live(g, v) /\ OneLess(h, g, v)
         /\ OneLess(h, Gone(g, v), v) /\ Gone(g, v).o[v] = NoObject
         /\ OneLess(h, Gone(Touch(g, v), v), v) /\ Gone(Touch(g, v), v).o[v] = NoObject
<1> DEFINE q == Touch(h, v)
           x == [q.o[v] EXCEPT !.ref = @ - 1]
<1>0. v \in Places
  BY DEF Places
<1>1. q \in Heaps /\ q.o = h.o
  BY TouchIs
<1>2. h.o[v] \in Objects /\ h.o[v].ref \in Int
  BY <1>0, HeapIs
<1>3. x \in Objects /\ x.ref = h.o[v].ref - 1 /\ x.slots = h.o[v].slots /\ x.type = h.o[v].type
  BY <1>1, <1>2 DEF Objects
<1>4. g = [q EXCEPT !.o[v] = x]
  BY <1>0, <1>1 DEF Heaps, Lower
<1> HIDE DEF q, x
<1>5. g \in Heaps /\ g.o[v] = x /\ \A j \in Places : j # v => g.o[j] = q.o[j]
  <2> DEFINE y == [q EXCEPT !.o[v] = x]
  <2>1. y \in Heaps /\ y.o[v] = x /\ \A j \in Places : j # v => y.o[j] = q.o[j]
    BY <1>0, <1>1, <1>3, SetIs
  <2>2. g = y
    BY <1>4
  <2> HIDE DEF y
  <2> QED BY <2>1, <2>2
<1>6. \A j \in Places : j # v => g.o[j] = h.o[j]
  BY <1>1, <1>5
<1>7. g.o[v].ref = h.o[v].ref - 1 /\ g.o[v].slots = h.o[v].slots /\ g.o[v].type = h.o[v].type
  BY <1>3, <1>5
<1>8. g.o[v].ref > 0 => Live(g, v) /\ OneLess(h, g, v)
  <2> SUFFICES ASSUME g.o[v].ref > 0 PROVE Live(g, v) /\ OneLess(h, g, v)
    OBVIOUS
  <2>1. ~Live(h, v) => h.o[v].ref = 0
    BY <1>0 DEF NoObject
  <2>2. Live(h, v)
    BY <1>7, <2>1
  <2> QED BY <1>5, <1>6, <1>7, <2>2 DEF Live, OneLess
<1>9. ASSUME NEW p \in Heaps, p.o = g.o
      PROVE  OneLess(h, Gone(p, v), v) /\ Gone(p, v).o[v] = NoObject
  <2> DEFINE y == Gone(p, v)
  <2>1. y \in Heaps /\ y.o[v] = NoObject /\ \A j \in Places : j # v => y.o[j] = p.o[j]
    BY <1>0, <1>9, GoneIs
  <2>2. y = Gone(p, v)
    OBVIOUS
  <2> HIDE DEF y
  <2>3. OneLess(h, y, v)
    BY <1>6, <1>9, <2>1 DEF OneLess
  <2> QED BY <2>1, <2>2, <2>3
<1>10. Touch(g, v) \in Heaps /\ Touch(g, v).o = g.o
  BY <1>5, TouchIs
<1>11. OneLess(h, Gone(g, v), v) /\ Gone(g, v).o[v] = NoObject
  BY <1>5, <1>9
<1>12. OneLess(h, Gone(Touch(g, v), v), v) /\ Gone(Touch(g, v), v).o[v] = NoObject
  BY <1>9, <1>10
<1> QED BY <1>5, <1>6, <1>7, <1>8, <1>11, <1>12

-----------------------------------------------------------------------------
\* An empty sequence holds nothing.
LEMMA NoTimes == <<>> \in Seq(Vals) /\ \A i \in Ids : Times(i, <<>>) = 0
<1>1. "null" \in Vals
  BY ConstsAre DEF Vals
<1>2. ASSUME NEW i \in Ids PROVE Times(i, <<>>) = 0
  BY <1>1, TimesShort
<1>3. <<>> \in Seq(Vals)
  OBVIOUS
<1> QED BY <1>2, <1>3

\* The references outside after an object has gone are numbers.
LEMMA WithoutSlots ==
  ASSUME NEW t \in [Ids -> Int], NEW v, NEW s \in Seq(Vals)
  PROVE  /\ WithSlots(t, v, s) \in [Ids -> Int] /\ Minus(t, v) \in [Ids -> Int]
         /\ \A i \in Ids : WithSlots(t, v, s)[i] = t[i] + Times(i, s) - One(v, i) /\ Minus(t, v)[i] = t[i] - One(v, i)
                           /\ Times(i, s) \in Nat /\ One(v, i) \in Nat
<1>1. \A i \in Ids : Times(i, s) \in Nat
  BY TimesIsTo
<1>2. \A i \in Ids : One(v, i) \in Nat
  BY DEF One
<1>3. \A i \in Ids : t[i] + Times(i, s) - One(v, i) \in Int /\ t[i] - One(v, i) \in Int
  BY <1>1, <1>2
<1> QED BY <1>1, <1>2, <1>3 DEF WithSlots, Minus

\* Letting go of a number keeps Weak with one reference less outside.
LEMMA WeakNumber ==
  ASSUME NEW k, NEW h, NEW t \in [Ids -> Int], Shaped(k), Weak(k, h, t), NEW v \in Vals,
         TypeOf(k, v) \in NumberTypes \cup {"null"}
  PROVE  Weak(k, UnrefNumber(h, v), Minus(t, v))
<1>0. <<>> \in Seq(Vals) /\ \A i \in Ids : Times(i, <<>>) = 0
  BY NoTimes
<1>1. Minus(t, v) \in [Ids -> Int] /\ WithSlots(t, v, <<>>) \in [Ids -> Int] /\ \A i \in Ids : WithSlots(t, v, <<>>)[i] <= Minus(t, v)[i]
  <2>1. \A i \in Ids : t[i] \in Int
    OBVIOUS
  <2>2. Minus(t, v) \in [Ids -> Int] /\ WithSlots(t, v, <<>>) \in [Ids -> Int]
    BY <1>0, WithoutSlots
  <2>3. \A i \in Ids : WithSlots(t, v, <<>>)[i] = t[i] + Times(i, <<>>) - One(v, i) /\ Minus(t, v)[i] = t[i] - One(v, i)
    BY <1>0, WithoutSlots
  <2>4. \A i \in Ids : WithSlots(t, v, <<>>)[i] = Minus(t, v)[i] /\ Minus(t, v)[i] \in Int
    <3> TAKE i \in Ids
    <3> DEFINE x == WithSlots(t, v, <<>>)[i]
               y == Minus(t, v)[i]
    <3>1. x = t[i] + Times(i, <<>>) - One(v, i) /\ y = t[i] - One(v, i) /\ y \in Int
      BY <2>2, <2>3
    <3>2. Times(i, <<>>) = 0 /\ t[i] \in Int
      BY <1>0, <2>1
    <3>3. One(v, i) \in Nat
      BY DEF One
    <3> HIDE DEF x, y
    <3>4. x = y
      BY <3>1, <3>2, <3>3
    <3> QED BY <3>1, <3>4 DEF x, y
  <2> QED BY <2>2, <2>4
<1>2. CASE v \notin Ids
  <2>1. UnrefNumber(h, v) = h
    BY <1>2 DEF UnrefNumber
  <2>2. \A i \in Ids : t[i] <= Minus(t, v)[i]
    BY <1>2 DEF Minus, One
  <2> QED BY <1>1, <2>1, <2>2, WeakMore
<1>3. CASE v \in Ids
  <2> DEFINE g == Lower(h, v)
             f == UnrefNumber(h, v)
             p == Gone(g, v)
  <2>1. f = IF g.o[v].ref <= 0 THEN p ELSE g
    BY <1>3 DEF UnrefNumber, Lower, Gone
  <2>2. h \in Heaps /\ (\A j \in Places : ~Live(h, j) => h.o[j] = NoObject) /\ v \in Places
    BY <1>3 DEF Weak, Places
  <2>3. g.o[v].ref = h.o[v].ref - 1 /\ (g.o[v].ref > 0 => Live(g, v) /\ OneLess(h, g, v)) /\ OneLess(h, p, v) /\ p.o[v] = NoObject
    BY <1>3, <2>2, LowerIs
  <2>4. h.o[v].ref \in Int
    BY <2>2, HeapIs
  <2> HIDE DEF f, g, p
  <2>5. OneLess(h, f, v)
    <3>1. g.o[v].ref \in Int
      BY <2>3, <2>4
    <3>2. CASE g.o[v].ref <= 0
      BY <2>1, <2>3, <3>2
    <3>3. CASE ~(g.o[v].ref <= 0)
      <4>1. g.o[v].ref > 0
        BY <3>1, <3>3
      <4> QED BY <2>1, <2>3, <3>3, <4>1
    <3> QED BY <3>2, <3>3
  <2>6. Slots(h, v) = <<>>
    <3>1. CASE Live(h, v)
      <4>1. h.o[v].slots = k.o[v].slots
        BY <2>2, <3>1 DEF Weak, Same
      <4>2. TypeOf(k, v) = k.o[v].type
        BY <2>2, TypeOfId
      <4>3. h.o[v].type = k.o[v].type
        BY <2>2, <3>1 DEF Weak, Same
      <4>4. k.o[v].type \in NumberTypes
        <5>1. h.o[v].type \in Types \cup {"none"}
          BY <2>2, HeapIs
        <5> QED BY <3>1, <4>2, <4>3, <5>1, TypesApart DEF Live
      <4> QED BY <2>2, <4>1, <4>4 DEF Shaped, Fits, Slots
    <3>2. CASE ~Live(h, v)
      BY <2>2, <3>2 DEF Slots, NoObject
    <3> QED BY <3>1, <3>2
  <2>7. Weak(k, f, WithSlots(t, v, <<>>))
    <3>1. <<>> = IF f.o[v] = NoObject THEN Slots(h, v) ELSE <<>>
      BY <2>6
    <3> QED BY <1>3, <2>5, <3>1, WeakOne
  <2>8. Weak(k, f, Minus(t, v))
    BY <1>1, <2>7, WeakMore
  <2> QED BY <2>8 DEF f
<1> QED BY <1>2, <1>3

\* A sequence that is let go of, one after the other.
LEMMA RestAre ==
  ASSUME NEW t \in [Ids -> Int], NEW s \in Seq(Vals), NEW n \in 0 .. Len(s)
  PROVE  /\ Rest(t, s, n) \in [Ids -> Int]
         /\ \A i \in Ids : Rest(t, s, n)[i] = t[i] - TimesTo(i, s, n)
         /\ n > 0 => \A i \in Ids : Minus(Rest(t, s, n - 1), s[n])[i] <= Rest(t, s, n)[i]
         /\ n = Len(s) => \A i \in Ids : Rest(t, s, n)[i] = t[i] - Times(i, s)
<1>1. \A i \in Ids : TimesTo(i, s, n) \in Nat
  BY TimesToIs
<1>2. Rest(t, s, n) \in [Ids -> Int] /\ \A i \in Ids : Rest(t, s, n)[i] = t[i] - TimesTo(i, s, n)
  BY <1>1 DEF Rest
<1>3. ASSUME n > 0, NEW i \in Ids PROVE Minus(Rest(t, s, n - 1), s[n])[i] <= Rest(t, s, n)[i]
  <2>1. n - 1 \in Nat /\ (n - 1) + 1 = n
    BY <1>3
  <2>2. TimesTo(i, s, n) = TimesTo(i, s, n - 1) + One(s[n], i) /\ TimesTo(i, s, n - 1) \in Nat
    <3>1. TimesTo(i, s, (n - 1) + 1) = TimesTo(i, s, n - 1) + One(s[(n - 1) + 1], i) /\ TimesTo(i, s, n - 1) \in Nat
      BY <2>1, TimesToIs
    <3> QED BY <2>1, <3>1
  <2>3. Minus(Rest(t, s, n - 1), s[n])[i] = t[i] - TimesTo(i, s, n - 1) - One(s[n], i)
    BY DEF Minus, Rest
  <2>4. One(s[n], i) \in Nat /\ t[i] \in Int
    BY DEF One
  <2> QED BY <1>2, <2>2, <2>3, <2>4
<1>4. n = Len(s) => \A i \in Ids : Rest(t, s, n)[i] = t[i] - Times(i, s)
  <2>1. \A i \in Ids : Times(i, s) = TimesTo(i, s, Len(s))
    BY TimesIsTo
  <2> QED BY <1>2, <2>1
<1> QED BY <1>2, <1>3, <1>4

\* So does letting go of elements in turn.
LEMMA WeakElements ==
  ASSUME NEW k, NEW h, NEW t \in [Ids -> Int], Shaped(k), Weak(k, h, t), NEW s \in Seq(Vals),
         \A n \in DOMAIN s : TypeOf(k, s[n]) \in NumberTypes \cup {"null"}
  PROVE  Weak(k, UnrefElements(h, s), Rest(t, s, Len(s)))
<1>0. Len(s) \in Nat
  OBVIOUS
<1>1. PICK f : /\ f[0] = h /\ f[Len(s)] = UnrefElements(h, s)
               /\ \A n \in 1 .. Len(s) : f[n] = UnrefNumber(f[n - 1], s[n])
  <2>1. \E f : Walked(f, h, s)
    BY <1>0, ElementsWalk
  <2> QED BY <2>1 DEF Walked
<1> DEFINE P(n) == Weak(k, f[n], Rest(t, s, n))
           Bad == {n \in 0 .. Len(s) : ~P(n)}
<1>2. P(0)
  <2>1. 0 \in 0 .. Len(s)
    BY <1>0
  <2>2. Rest(t, s, 0) \in [Ids -> Int] /\ \A i \in Ids : t[i] <= Rest(t, s, 0)[i]
    <3>1. \A i \in Ids : TimesTo(i, s, 0) = 0
      BY TimesToIs
    <3>2. Rest(t, s, 0) \in [Ids -> Int] /\ \A i \in Ids : Rest(t, s, 0)[i] = t[i] - TimesTo(i, s, 0)
      BY <2>1, RestAre
    <3> QED BY <3>1, <3>2
  <2>3. Weak(k, h, Rest(t, s, 0))
    BY <2>2, WeakMore
  <2> QED BY <1>1, <2>3
<1>3. ASSUME NEW n \in 1 .. Len(s), P(n - 1) PROVE P(n)
  <2> DEFINE g == f[n - 1]
             v == s[n]
             d == Rest(t, s, n - 1)
             e == Rest(t, s, n)
  <2>0. n \in 0 .. Len(s) /\ n > 0 /\ n - 1 \in 0 .. Len(s) /\ n \in DOMAIN s /\ v \in Vals
    OBVIOUS
  <2>1. f[n] = UnrefNumber(g, v) /\ TypeOf(k, v) \in NumberTypes \cup {"null"}
    BY <1>1, <2>0
  <2>2. d \in [Ids -> Int] /\ e \in [Ids -> Int] /\ \A i \in Ids : Minus(d, v)[i] <= e[i]
    BY <2>0, RestAre
  <2>3. Weak(k, g, d)
    BY <1>3
  <2>4. P(n) <=> Weak(k, f[n], e)
    OBVIOUS
  <2> HIDE DEF g, v, d, e, P
  <2>5. Weak(k, UnrefNumber(g, v), Minus(d, v))
    BY <2>0, <2>1, <2>2, <2>3, WeakNumber
  <2>6. Minus(d, v) \in [Ids -> Int]
    <3>1. <<>> \in Seq(Vals)
      OBVIOUS
    <3> QED BY <2>2, <3>1, WithoutSlots
  <2>7. Weak(k, UnrefNumber(g, v), e)
    BY <2>2, <2>5, <2>6, WeakMore
  <2> QED BY <2>1, <2>4, <2>7
<1>4. ASSUME Bad # {} PROVE FALSE
  <2>1. Bad \in SUBSET Nat
    OBVIOUS
  <2> HIDE DEF P
  <2>2. PICK m \in Bad : \A j \in Bad : m <= j
    <3> HIDE DEF Bad
    <3> QED BY <1>4, <2>1, Least
  <2>3. m \in 0 .. Len(s) /\ ~P(m) /\ m # 0
    BY <1>2, <2>2
  <2>4. m \in 1 .. Len(s) /\ m - 1 \in 0 .. Len(s) /\ ~(m <= m - 1)
    BY <2>3
  <2>5. P(m - 1)
    BY <2>2, <2>4
  <2> QED BY <1>3, <2>3, <2>4, <2>5
<1>5. P(Len(s))
  <2>1. Len(s) \in 0 .. Len(s)
    OBVIOUS
  <2> HIDE DEF P
  <2> QED BY <1>4, <2>1
<1> QED BY <1>1, <1>5

\* So does letting go of any value.
LEMMA WeakUnref ==
  ASSUME NEW k, NEW h, NEW t \in [Ids -> Int], Shaped(k), Weak(k, h, t), NEW v \in Vals
  PROVE  Weak(k, object_unref(h, v), Minus(t, v))
<1>1. Minus(t, v) \in [Ids -> Int] /\ \A i \in Ids : Minus(t, v)[i] = t[i] - One(v, i) /\ One(v, i) \in Nat
  <2>1. <<>> \in Seq(Vals)
    OBVIOUS
  <2> QED BY <2>1, WithoutSlots
<1>2. CASE v \notin Ids
  <2>1. object_unref(h, v) = h
    BY <1>2 DEF object_unref
  <2>2. \A i \in Ids : t[i] <= Minus(t, v)[i]
    BY <1>2 DEF Minus, One
  <2> QED BY <1>1, <2>1, <2>2, WeakMore
<1>3. CASE v \in Ids
  <2> DEFINE g == Lower(h, v)
             p == Gone(Touch(g, v), v)
             f == object_unref(h, v)
             s == Slots(h, v)
             w == WithSlots(t, v, s)
             u == WithSlots(t, v, <<>>)
  <2>1. f = IF g.o[v].ref > 0 THEN Touch(g, v) ELSE UnrefElements(p, Slots(g, v))
    <3>1. f = object_free(g, v)
      BY <1>3 DEF object_unref, Lower
    <3> HIDE DEF f, g
    <3>2. object_free(g, v) = IF g.o[v].ref > 0 THEN Touch(g, v) ELSE UnrefElements(Gone(Touch(g, v), v), Slots(g, v))
      BY <1>3 DEF object_free, Gone
    <3> QED BY <3>1, <3>2
  <2>2. h \in Heaps /\ (\A j \in Places : ~Live(h, j) => h.o[j] = NoObject) /\ v \in Places
    BY <1>3 DEF Weak, Places
  <2>3. /\ g \in Heaps /\ g.o[v].slots = h.o[v].slots
        /\ (g.o[v].ref > 0 => Live(g, v) /\ OneLess(h, g, v)) /\ OneLess(h, p, v) /\ p.o[v] = NoObject
    BY <1>3, <2>2, LowerIs
  <2>4. s \in Seq(Vals) /\ \A n \in DOMAIN s : TypeOf(k, s[n]) \in NumberTypes \cup {"null"}
    BY <2>2, WeakSlots
  <2>5. <<>> \in Seq(Vals) /\ \A i \in Ids : Times(i, <<>>) = 0
    BY NoTimes
  <2>6. Slots(g, v) = s
    BY <2>3 DEF Slots
  <2>7. /\ w \in [Ids -> Int] /\ \A i \in Ids : w[i] = t[i] + Times(i, s) - One(v, i) /\ Times(i, s) \in Nat
    BY <2>4, WithoutSlots
  <2>8. u \in [Ids -> Int] /\ \A i \in Ids : u[i] <= Minus(t, v)[i]
    <3>1. u \in [Ids -> Int] /\ \A i \in Ids : u[i] = t[i] + Times(i, <<>>) - One(v, i)
      BY <2>5, WithoutSlots
    <3> HIDE DEF u
    <3>2. \A i \in Ids : t[i] \in Int
      OBVIOUS
    <3>3. \A i \in Ids : u[i] = Minus(t, v)[i] /\ u[i] \in Int
      BY <1>1, <2>5, <3>1, <3>2
    <3> QED BY <3>1, <3>3
  <2> HIDE DEF f, g, p, s
  <2>9. CASE g.o[v].ref > 0
    <3>1. f = g
      BY <2>1, <2>3, <2>9, TouchIs
    <3>2. g.o[v] # NoObject
      BY <2>3, <2>9 DEF Live, NoObject
    <3>3. <<>> = IF g.o[v] = NoObject THEN Slots(h, v) ELSE <<>>
      BY <3>2
    <3>4. Weak(k, g, u)
      BY <1>3, <2>3, <2>9, <3>3, WeakOne
    <3> HIDE DEF u
    <3>5. Weak(k, g, Minus(t, v))
      BY <1>1, <2>8, <3>4, WeakMore
    <3> QED BY <3>1, <3>5 DEF f
  <2>10. CASE ~(g.o[v].ref > 0)
    <3>1. f = UnrefElements(p, s)
      BY <2>1, <2>6, <2>10
    <3>2. s = IF p.o[v] = NoObject THEN Slots(h, v) ELSE <<>>
      BY <2>3 DEF s
    <3>3. Weak(k, p, w)
      BY <1>3, <2>3, <3>2, WeakOne
    <3> HIDE DEF w
    <3> DEFINE q == UnrefElements(p, s)
               r == Rest(w, s, Len(s))
    <3>4. Weak(k, q, r)
      BY <2>4, <2>7, <3>3, WeakElements
    <3>5. Len(s) \in 0 .. Len(s)
      BY <2>4
    <3>6. r \in [Ids -> Int] /\ \A i \in Ids : r[i] = w[i] - Times(i, s)
      BY <2>4, <2>7, <3>5, RestAre
    <3> HIDE DEF q, r
    <3>7. \A i \in Ids : r[i] <= Minus(t, v)[i]
      <4> TAKE i \in Ids
      <4>1. t[i] \in Int
        OBVIOUS
      <4> QED BY <1>1, <2>7, <3>6, <4>1
    <3>8. Weak(k, q, Minus(t, v))
      BY <1>1, <3>4, <3>6, <3>7, WeakMore
    <3> QED BY <3>1, <3>8 DEF f, q
  <2> QED BY <2>9, <2>10
<1> QED BY <1>2, <1>3

\* So does letting go of any values in turn.
LEMMA WeakAll ==
  ASSUME NEW k, NEW h, NEW t \in [Ids -> Int], Shaped(k), Weak(k, h, t), NEW s \in Seq(Vals)
  PROVE  Weak(k, UnrefAll(h, s), Rest(t, s, Len(s)))
<1>0. Len(s) \in Nat
  OBVIOUS
<1>1. PICK f : /\ f[0] = h /\ f[Len(s)] = UnrefAll(h, s)
               /\ \A n \in 1 .. Len(s) : f[n] = object_unref(f[n - 1], s[n])
  BY <1>0, AllWalk
<1> DEFINE P(n) == Weak(k, f[n], Rest(t, s, n))
           Bad == {n \in 0 .. Len(s) : ~P(n)}
<1>2. P(0)
  <2>1. 0 \in 0 .. Len(s)
    BY <1>0
  <2>2. Rest(t, s, 0) \in [Ids -> Int] /\ \A i \in Ids : t[i] <= Rest(t, s, 0)[i]
    <3>1. \A i \in Ids : TimesTo(i, s, 0) = 0
      BY TimesToIs
    <3>2. Rest(t, s, 0) \in [Ids -> Int] /\ \A i \in Ids : Rest(t, s, 0)[i] = t[i] - TimesTo(i, s, 0)
      BY <2>1, RestAre
    <3> QED BY <3>1, <3>2
  <2>3. Weak(k, h, Rest(t, s, 0))
    BY <2>2, WeakMore
  <2> QED BY <1>1, <2>3
<1>3. ASSUME NEW n \in 1 .. Len(s), P(n - 1) PROVE P(n)
  <2> DEFINE g == f[n - 1]
             v == s[n]
             d == Rest(t, s, n - 1)
             e == Rest(t, s, n)
  <2>0. n \in 0 .. Len(s) /\ n > 0 /\ n - 1 \in 0 .. Len(s) /\ n \in DOMAIN s /\ v \in Vals
    OBVIOUS
  <2>1. f[n] = object_unref(g, v)
    BY <1>1, <2>0
  <2>2. d \in [Ids -> Int] /\ e \in [Ids -> Int] /\ \A i \in Ids : Minus(d, v)[i] <= e[i]
    BY <2>0, RestAre
  <2>3. Weak(k, g, d)
    BY <1>3
  <2>4. P(n) <=> Weak(k, f[n], e)
    OBVIOUS
  <2> HIDE DEF g, v, d, e, P
  <2>5. Weak(k, object_unref(g, v), Minus(d, v))
    BY <2>0, <2>2, <2>3, WeakUnref
  <2>6. Minus(d, v) \in [Ids -> Int]
    <3>1. <<>> \in Seq(Vals)
      OBVIOUS
    <3> QED BY <2>2, <3>1, WithoutSlots
  <2>7. Weak(k, object_unref(g, v), e)
    BY <2>2, <2>5, <2>6, WeakMore
  <2> QED BY <2>1, <2>4, <2>7
<1>4. ASSUME Bad # {} PROVE FALSE
  <2>1. Bad \in SUBSET Nat
    OBVIOUS
  <2> HIDE DEF P
  <2>2. PICK m \in Bad : \A j \in Bad : m <= j
    <3> HIDE DEF Bad
    <3> QED BY <1>4, <2>1, Least
  <2>3. m \in 0 .. Len(s) /\ ~P(m) /\ m # 0
    BY <1>2, <2>2
  <2>4. m \in 1 .. Len(s) /\ m - 1 \in 0 .. Len(s) /\ ~(m <= m - 1)
    BY <2>3
  <2>5. P(m - 1)
    BY <2>2, <2>4
  <2> QED BY <1>3, <2>3, <2>4, <2>5
<1>5. P(Len(s))
  <2>1. Len(s) \in 0 .. Len(s)
    OBVIOUS
  <2> HIDE DEF P
  <2> QED BY <1>4, <2>1
<1> QED BY <1>1, <1>5

-----------------------------------------------------------------------------
\* Weak is true of the objects at the start.
LEMMA WeakStart ==
  ASSUME NEW h, NEW b, NEW e, Owns(h, b, e, {}), NEW t \in [Ids -> Int], \A i \in Ids : t[i] = b[i] + e[i]
  PROVE  Weak(h, h, t)
<1>1. h \in Heaps /\ h.o[Literal].type = "vec" /\ \A j \in Places : ~Live(h, j) => h.o[j] = NoObject
  BY DEF Owns, Shaped
<1>2. ASSUME NEW i \in Ids, Live(h, i) PROVE 0 < h.o[i].ref /\ h.o[i].ref <= Held(h, i) + t[i]
  <2>1. /\ b[i] \in Nat /\ e[i] \in Nat /\ Held(h, i) \in Nat /\ h.o[i].ref \in Nat
        /\ h.o[i].ref = Held(h, i) + b[i] + e[i] /\ h.o[i].ref # 0
    BY <1>2, OwnsAt
  <2>2. t[i] = b[i] + e[i]
    OBVIOUS
  <2> QED BY <2>1, <2>2
<1> QED BY <1>1, <1>2, SameSelf DEF Weak

\* What is left after too much was let go of: no count is too high.
LEMMA WeakCounts ==
  ASSUME NEW k, NEW h, NEW t \in [Ids -> Int], Shaped(k), Weak(k, h, t), NEW s, NEW vs,
         \A i \in Ids : Holders(h, s, vs, i) = Held(h, i) + t[i]
  PROVE  ~Kept(h, s, vs)
<1> SUFFICES ASSUME NEW i \in Ids, Live(h, i), h.o[i].ref > Holders(h, s, vs, i) \/ Holders(h, s, vs, i) = 0
             PROVE  FALSE
  BY DEF Kept
<1>1. 0 < h.o[i].ref /\ h.o[i].ref <= Holders(h, s, vs, i)
  BY DEF Weak
<1>2. h.o[i].ref \in Int
  BY HeapIs DEF Weak, Places
<1>3. Holders(h, s, vs, i) \in Int
  <2>1. Held(h, i) \in Nat
    BY FinitePlaces DEF Held, Places
  <2>2. t[i] \in Int
    OBVIOUS
  <2> QED BY <2>1, <2>2
<1> QED BY <1>1, <1>2, <1>3

\* And when the counts happen to be right, the objects are whole.
LEMMA WeakShaped ==
  ASSUME NEW k, NEW h, NEW t, Shaped(k), Weak(k, h, t), NEW s \in Stacks, NEW vs, Exact(h, s, vs)
  PROVE  Shaped(h)
<1> DEFINE D == {i \in Ids : ~Live(h, i)}
<1>0. k \in Heaps /\ h \in Heaps /\ (\A j \in Places : ~Live(k, j) => k.o[j] = NoObject)
  BY DEF Shaped, Weak
<1>1. \A j \in Places \ D : Live(h, j)
  BY DEF Places, Weak, Live
<1>2. \A j \in Places \ D : h.o[j].type = k.o[j].type /\ h.o[j].slots = k.o[j].slots
  BY <1>1 DEF Weak, Same
<1>3. \A j \in Places \ D : ~Live(k, j) => h.o[j] = NoObject
  BY <1>1, <1>2 DEF Live
<1>4. D \in SUBSET Ids /\ \A j \in D : h.o[j] = NoObject
  BY DEF Weak, Places
<1>5. \A j \in Places \ D : \A n \in DOMAIN k.o[j].slots : k.o[j].slots[n] \notin D
  <2> SUFFICES ASSUME NEW j \in Places \ D, NEW n \in DOMAIN k.o[j].slots, k.o[j].slots[n] \in D PROVE FALSE
    OBVIOUS
  <2> DEFINE i == k.o[j].slots[n]
  <2>1. Slots(h, j) = k.o[j].slots
    BY <1>2 DEF Slots
  <2>2. Slots(h, j) \in Seq(Vals) /\ Len(Slots(h, j)) <= MaxLen + 2
    BY WeakSlots
  <2>3. n \in DOMAIN Slots(h, j) /\ Slots(h, j)[n] = i /\ i \in Ids /\ ~Live(h, i)
    BY <2>1
  <2> HIDE DEF i, D
  <2>4. Held(h, i) >= 1
    BY <2>2, <2>3, HeldSome
  <2>5. Holders(h, s, vs, i) = Times(i, s) + VarTimes(i, vs, Names) + Held(h, i)
    BY HoldersAre
  <2>6. Times(i, s) \in Nat
    BY TimesIsTo DEF Stacks
  <2>7. VarTimes(i, vs, Names) \in Nat
    BY VarTimesType
  <2>8. Held(h, i) \in Nat
    BY FinitePlaces DEF Held, Places
  <2>9. Holders(h, s, vs, i) > 0
    BY <2>4, <2>5, <2>6, <2>7, <2>8
  <2>10. Live(h, i) = (Holders(h, s, vs, i) > 0)
    BY <2>3 DEF Exact
  <2> QED BY <2>3, <2>9, <2>10
<1> HIDE DEF D
<1> QED BY <1>0, <1>2, <1>3, <1>4, <1>5, StillShaped

\* The end of a failed '&': e are the stack's references, and no more.
LEMMA WeakFails ==
  ASSUME Good, NEW op, op = "BIT_AND", NEW a, NEW k, NEW h, NEW s \in Stacks, Owns(k, VT, ST(s), {}),
         NEW t \in [Ids -> Int], Weak(k, h, t), \A i \in Ids : t[i] = VT[i] + ST(s)[i], Failed(op, a, h, s)
  PROVE  Outcome
<1> DEFINE gone == IF inTry THEN Inner ELSE Names
           st == IF inTry THEN "runs" ELSE "ended"
           g == UnrefAll(h, s)
           r == Rest(t, s, Len(s))
           vl == Values(gone)
           f == UnrefAll(g, vl)
           q == Rest(r, vl, Len(vl))
           vs == Without(gone)
<1>0. vars \in [Names -> Vals \cup {Unset}] /\ s \in Seq(Vals) /\ Shaped(k) /\ gone \in SUBSET Names
  BY DEF Good, Scopes, Stacks, Owns, Names
<1>1. Leave(op, a, f, <<>>, vs, st)
  BY DEF Failed, HANDLE_EXCEPTION
<1> HIDE DEF gone, st
<1>2. vl \in Seq(Vals) /\ \A i \in Ids : Times(i, vl) = VarTimes(i, vars, gone)
  BY <1>0, ValuesAre DEF Vals, Places
<1>3. vs \in Scopes /\ \A i \in Ids : VarTimes(i, vs, Names) = VarTimes(i, vars, Names \ gone)
  BY <1>0, WithoutAre DEF Vals, Places, Scopes
<1>4. \A n \in Names : vs[n] # Unset => vs[n] = vars[n] /\ n \in Names \ gone
  BY DEF Without
<1> HIDE DEF vl, vs
<1>5. Weak(k, g, r) /\ r \in [Ids -> Int] /\ \A i \in Ids : r[i] = t[i] - Times(i, s)
  <2>1. Len(s) \in 0 .. Len(s)
    BY <1>0
  <2> QED BY <1>0, <2>1, WeakAll, RestAre
<1> HIDE DEF g, r
<1>6. Weak(k, f, q) /\ q \in [Ids -> Int] /\ \A i \in Ids : q[i] = r[i] - Times(i, vl)
  <2>1. Len(vl) \in 0 .. Len(vl)
    BY <1>2
  <2> QED BY <1>0, <1>2, <1>5, <2>1, WeakAll, RestAre
<1> HIDE DEF f, q
<1>7. ASSUME NEW i \in Ids PROVE Holders(f, <<>>, vs, i) = Held(f, i) + q[i] /\ Holders(f, <<>>, vs, i) = VarTimes(i, vs, Names) + Held(f, i)
  <2>1. Names \ gone \in SUBSET Names
    OBVIOUS
  <2>2. VarTimes(i, vars, Names \ gone) \in Nat /\ VarTimes(i, vars, gone) \in Nat
    BY <1>0, <2>1, VarTimesType
  <2>3. VarTimes(i, vars, Names) = VarTimes(i, vars, gone) + VarTimes(i, vars, Names \ gone)
    BY <1>0, VarTimesSplit
  <2>4. VT[i] = VarTimes(i, vars, Names) /\ ST(s)[i] = Times(i, s) /\ Times(i, s) \in Nat
    BY <1>0, HandsAre, TimesIsTo
  <2>5. q[i] = VarTimes(i, vs, Names)
    <3>1. t[i] = VT[i] + ST(s)[i] /\ r[i] = t[i] - Times(i, s) /\ q[i] = r[i] - Times(i, vl)
      BY <1>5, <1>6
    <3>2. Times(i, vl) = VarTimes(i, vars, gone) /\ VarTimes(i, vs, Names) = VarTimes(i, vars, Names \ gone)
      BY <1>2, <1>3
    <3> QED BY <2>2, <2>3, <2>4, <3>1, <3>2
  <2>6. Times(i, <<>>) = 0
    BY NoTimes
  <2>7. Holders(f, <<>>, vs, i) = Times(i, <<>>) + VarTimes(i, vs, Names) + Held(f, i)
    BY HoldersAre
  <2>8. Held(f, i) \in Nat
    BY FinitePlaces DEF Held, Places
  <2>9. VarTimes(i, vs, Names) \in Nat
    BY <1>3, <2>2
  <2> QED BY <2>5, <2>6, <2>7, <2>8, <2>9
<1>8. ~Kept(f, <<>>, vs)
  BY <1>0, <1>6, <1>7, WeakCounts
<1>9. <<>> \in Stacks
  BY DEF Stacks
<1>10. ASSUME Exact(f, <<>>, vs) PROVE Shaped(f) /\ KeepsTypes(f, vs)
  <2>1. Shaped(f)
    BY <1>0, <1>6, <1>9, <1>10, WeakShaped
  <2>2. ASSUME NEW n \in Names, vars[n] # Unset, vs[n] # Unset PROVE TypeOf(f, vs[n]) = TypeOf(heap, vars[n])
    <3>1. vs[n] = vars[n] /\ n \in Names \ gone
      BY <1>4, <2>2
    <3>2. TypeOf(k, vars[n]) = TypeOf(heap, vars[n]) /\ vars[n] \in Vals
      BY <2>2, VarsStay
    <3>3. vars[n] \in Ids => Live(f, vars[n])
      <4> SUFFICES ASSUME vars[n] \in Ids PROVE Live(f, vars[n])
        OBVIOUS
      <4> DEFINE i == vars[n]
      <4>1. VarTimes(i, vars, Names \ gone) > 0
        <5>1. Names \ gone \in SUBSET Names
          OBVIOUS
        <5> QED BY <3>1, <5>1, VarSome
      <4>2. VarTimes(i, vs, Names) > 0 /\ VarTimes(i, vs, Names) \in Nat
        <5>1. Names \in SUBSET Names
          OBVIOUS
        <5>2. VarTimes(i, vs, Names) \in Nat
          BY <5>1, VarTimesType
        <5> QED BY <1>3, <4>1, <5>2
      <4>3. Held(f, i) \in Nat
        BY FinitePlaces DEF Held, Places
      <4>4. Holders(f, <<>>, vs, i) > 0
        BY <1>7, <4>2, <4>3
      <4> QED BY <1>10, <4>4 DEF Exact
    <3>4. Same(k, f)
      BY <1>6 DEF Weak
    <3>5. TypeOf(f, vars[n]) = TypeOf(k, vars[n])
      BY <2>1, <3>2, <3>3, <3>4, SameType
    <3> QED BY <3>1, <3>2, <3>5
  <2> QED BY <2>1, <2>2 DEF KeepsTypes
<1>11. op # "none"
  OBVIOUS
<1> QED BY <1>1, <1>3, <1>8, <1>9, <1>10, <1>11, LeaveOutcome

\* Letting go of what is not in hand.
LEMMA MinusLess ==
  ASSUME NEW k, NEW h, NEW t \in [Ids -> Int], Shaped(k), NEW v, Weak(k, h, Minus(t, v))
  PROVE  Weak(k, h, t)
<1>1. <<>> \in Seq(Vals)
  OBVIOUS
<1>2. Minus(t, v) \in [Ids -> Int]
  BY <1>1, WithoutSlots
<1>3. \A i \in Ids : Minus(t, v)[i] <= t[i]
  <2> TAKE i \in Ids
  <2>1. Minus(t, v)[i] = t[i] - One(v, i) /\ One(v, i) \in Nat /\ t[i] \in Int
    BY <1>1, WithoutSlots
  <2> QED BY <2>1
<1> QED BY <1>2, <1>3, WeakMore

\* BIT_AND: an operator with two operands that lets go of them twice when it fails.
LEMMA BitAndOutcome ==
  ASSUME Good, BitAnd
  PROVE  Outcome
<1> DEFINE a == Arg(2)
           c == Arg(1)
           s == Under(2)
           e == ST(s)
           op == "BIT_AND"
<1>1. Holds(2)
  BY DEF BitAnd
<1>2. PICK r \in Calculated(heap, a, c) :
        LET g == object_unref(object_unref(r.h, a), c)
        IN  IF r.v = NULL THEN Failed(op, a, object_unref(object_unref(g, a), c), s)
            ELSE STACK_PUSH(op, a, g, s, r.v)
  BY DEF BitAnd
<1>3. /\ Owns(heap, VT, Plus(Plus(e, c), a), {}) /\ Usable(heap, c) /\ Usable(heap, a)
      /\ a \in Vals /\ c \in Vals /\ s \in Stacks /\ e \in [Ids -> Nat]
  BY <1>1, PoppedTwo
<1>4. Made(heap, VT, Plus(Plus(e, c), a), {}, r)
  BY <1>3, CalculatedMade
<1>5. CASE r.v # NULL
  <2>1. Ready(op, a, object_unref(object_unref(r.h, a), c), s, r.v)
    BY <1>2, <1>5 DEF Ready
  <2>2. op # "none"
    OBVIOUS
  <2> QED BY <1>1, <1>4, <2>1, <2>2, TwoEnds
<1>6. CASE r.v = NULL
  <2> DEFINE k == object_unref(object_unref(r.h, a), c)
             h1 == object_unref(k, a)
             h == object_unref(h1, c)
             t == [i \in Ids |-> VT[i] + e[i]]
  <2>1. Failed(op, a, h, s)
    BY <1>2, <1>6
  <2>2. \A i \in Ids : i \in {} \cup {r.v} <=> i \in {}
    BY <1>6, Apart DEF Vals, Places
  <2> DEFINE d == Plus(Plus(e, c), a)
  <2>3. Owns(r.h, VT, d, {})
    <3>1. Owns(r.h, VT, d, {} \cup {r.v})
      BY <1>4, MadeOwns
    <3> HIDE DEF d
    <3> QED BY <2>2, <3>1, SameF
  <2>4. Left(r.h, k, VT, e, {})
    BY <1>3, <2>3, LetGoTwo
  <2> HIDE DEF k
  <2>5. Owns(k, VT, e, {}) /\ Shaped(k)
    BY <2>4 DEF Left, Owns
  <2>6. t \in [Ids -> Int] /\ \A i \in Ids : t[i] = VT[i] + e[i]
    BY <1>3, HandsAre
  <2> HIDE DEF t
  <2>7. Weak(k, k, t)
    BY <2>5, <2>6, WeakStart
  <2>8. Weak(k, h1, t)
    <3>1. Weak(k, h1, Minus(t, a))
      BY <1>3, <2>5, <2>6, <2>7, WeakUnref
    <3> QED BY <2>5, <2>6, <3>1, MinusLess
  <2> HIDE DEF h1
  <2>9. Weak(k, h, t)
    <3>1. Weak(k, h, Minus(t, c))
      BY <1>3, <2>5, <2>6, <2>8, WeakUnref
    <3> QED BY <2>5, <2>6, <3>1, MinusLess
  <2> HIDE DEF h, a, s, op
  <2>10. op = "BIT_AND"
    BY DEF op
  <2> QED BY <1>3, <2>1, <2>5, <2>6, <2>9, <2>10, WeakFails DEF e
<1> QED BY <1>5, <1>6

-----------------------------------------------------------------------------
(* What holds of every state: the counts are exact as long as no opcode is   *)
(* to blame, and the one that is to blame is one of those that are known.    *)
CountsInv ==
  /\ program \in Programs
  /\ blame = NoBlame => Good
  /\ NoneFreedEarly
  /\ NoneLost

\* The counts are exact at first: there are no objects.
LEMMA InitGood == ASSUME Init PROVE Good
<1> DEFINE L == [type |-> "vec", ref |-> 0, slots |-> <<"small">>]
<1>1. /\ heap.o = [i \in Ids \cup {Literal} |-> IF i = Literal THEN L ELSE NoObject] /\ ~heap.wild
      /\ heap = [o |-> heap.o, wild |-> FALSE]
  BY DEF Init
<1>2. stack = <<>> /\ vars = [n \in Names |-> Unset]
  BY DEF Init
<1>3. "small" \in Vals /\ "small" \in Consts /\ ConstType["small"] = "int"
  BY ConstsAre DEF Vals
<1>4. L \in Objects /\ NoObject \in Objects
  BY <1>3 DEF Objects, NoObject, Types
<1>5. Literal \notin Ids
  BY Apart
<1>6. heap.o[Literal] = L /\ \A i \in Ids : heap.o[i] = NoObject
  BY <1>1, <1>5
<1>7. heap \in Heaps
  <2>1. heap.o \in [Places -> Objects]
    BY <1>1, <1>4 DEF Places
  <2>2. \A p \in [Places -> Objects] : [o |-> p, wild |-> FALSE] \in Heaps
    BY DEF Heaps
  <2>3. [o |-> heap.o, wild |-> FALSE] \in Heaps
    BY <2>1, <2>2
  <2>4. heap = [o |-> heap.o, wild |-> FALSE]
    BY <1>1
  <2> QED BY <2>3, <2>4
<1>8. L.type = "vec" /\ L.ref = 0 /\ L.slots = <<"small">> /\ NoObject.type = "none" /\ NoObject.ref = 0 /\ NoObject.slots = <<>>
  BY DEF NoObject
<1>9. TypeOf(heap, "small") = "int"
  BY <1>3 DEF TypeOf
<1> HIDE DEF L
<1>10. Fits(heap, L)
  <2>1. Len(L.slots) = 1 /\ DOMAIN L.slots = {1} /\ L.slots[1] = "small"
    BY <1>8
  <2>2. 1 <= MaxLen + 2
    BY RefsAssumption
  <2>3. "vec" \notin NumberTypes /\ "int" \in NumberTypes
    BY DEF NumberTypes
  <2> QED BY <1>8, <1>9, <2>1, <2>2, <2>3 DEF Fits
<1>11. Fits(heap, NoObject)
  <2>1. Len(NoObject.slots) = 0 /\ DOMAIN NoObject.slots = {}
    BY <1>8
  <2>2. 0 <= MaxLen + 2
    BY RefsAssumption
  <2> QED BY <1>8, <2>1, <2>2 DEF Fits
<1>12. Shaped(heap)
  <2>1. \A j \in Places : Fits(heap, heap.o[j]) /\ (~Live(heap, j) => heap.o[j] = NoObject)
    BY <1>6, <1>8, <1>10, <1>11 DEF Places, Live
  <2> QED BY <1>6, <1>7, <1>8, <2>1 DEF Shaped
<1>13. ASSUME NEW i \in Ids PROVE Holders(heap, stack, vars, i) = 0
  <2>1. Held(heap, i) = 0
    <3>1. \A j \in Places : \A k \in DOMAIN Slots(heap, j) : Slots(heap, j)[k] # i
      <4> SUFFICES ASSUME NEW j \in Places, NEW k \in DOMAIN Slots(heap, j), Slots(heap, j)[k] = i PROVE FALSE
        OBVIOUS
      <4>1. j = Literal
        BY <1>6, <1>8 DEF Places, Slots
      <4>2. Slots(heap, j)[k] = "small"
        BY <1>6, <1>8, <4>1 DEF Slots
      <4> QED BY <1>3, <4>2, Apart
    <3> QED BY <3>1, HeldNot
  <2>2. Times(i, stack) = 0
    BY <1>2, NoTimes
  <2>3. VarTimes(i, vars, Names) = 0
    <3>1. i # Unset
      BY Apart DEF Vals, Places
    <3>2. {n \in Names : vars[n] = i} = {}
      BY <1>2, <3>1
    <3> QED BY <3>2, FS_EmptySet DEF VarTimes
  <2>4. Holders(heap, stack, vars, i) = Times(i, stack) + VarTimes(i, vars, Names) + Held(heap, i)
    BY HoldersAre
  <2> QED BY <2>1, <2>2, <2>3, <2>4
<1>14. Exact(heap, stack, vars)
  <2>1. \A i \in Ids : heap.o[i].ref = 0 /\ ~Live(heap, i)
    BY <1>6, <1>8 DEF Live
  <2>3. \A i \in Ids : LET n == Holders(heap, stack, vars, i) IN heap.o[i].ref = n /\ Live(heap, i) = (n > 0)
    <3> TAKE i \in Ids
    <3> DEFINE n == Holders(heap, stack, vars, i)
    <3>1. n = 0 /\ heap.o[i].ref = 0 /\ ~Live(heap, i)
      BY <1>13, <2>1
    <3> HIDE DEF n
    <3>2. Live(heap, i) = (n > 0)
      BY <3>1 DEF Live
    <3> QED BY <3>1, <3>2 DEF n
  <2> QED BY <1>1, <2>3 DEF Exact
<1>15. stack \in Stacks /\ vars \in Scopes
  BY <1>2 DEF Stacks, Scopes
<1> QED BY <1>12, <1>14, <1>15 DEF Good

\* Each opcode, run with exact counts, does what Outcome says.
LEMMA StepOutcome == ASSUME Good, program \in Programs, Next PROVE Outcome
<1>1. \/ LoadConst \/ LoadVar \/ StoreLocal \/ StoreDef \/ StoreVar \/ EnterTry \/ LeaveBlock
      \/ PopStack \/ TypeCast \/ Unary \/ Binary \/ BitAnd \/ VarIp
      \/ \E post \in BOOLEAN : VarInc(post) \/ IndexInc(post) \/ MemberInc(post)
      \/ LoadIndex \/ StoreIndex \/ IndexIp \/ LoadMember \/ StoreMember \/ MemberIp
      \/ Jump \/ ConSel \/ JumpCase
      \/ _builtin_append \/ _builtin_remove \/ _builtin_copy \/ CallOther
  BY DEF Next
<1>2. CASE LoadConst \/ LoadVar \/ StoreLocal \/ StoreDef \/ StoreVar \/ EnterTry \/ LeaveBlock
  BY <1>2, LoadConstOutcome, LoadVarOutcome, StoreLocalOutcome, StoreDefOutcome, StoreVarOutcome,
     EnterTryOutcome, LeaveBlockOutcome
<1>3. CASE PopStack \/ TypeCast \/ Unary \/ Binary \/ BitAnd \/ VarIp
  BY <1>3, PopStackOutcome, TypeCastOutcome, UnaryOutcome, BinaryOutcome, BitAndOutcome, VarIpOutcome
<1>4. CASE \E post \in BOOLEAN : VarInc(post) \/ IndexInc(post) \/ MemberInc(post)
  BY <1>4, VarIncOutcome, IndexIncOutcome, MemberIncOutcome
<1>5. CASE LoadIndex \/ StoreIndex \/ IndexIp \/ LoadMember \/ StoreMember \/ MemberIp
  BY <1>5, LoadIndexOutcome, StoreIndexOutcome, IndexIpOutcome, LoadMemberOutcome, StoreMemberOutcome, MemberIpOutcome
<1>6. CASE Jump \/ ConSel \/ JumpCase
  BY <1>6, JumpOutcome, ConSelOutcome, JumpCaseOutcome
<1>7. CASE _builtin_append \/ _builtin_remove \/ _builtin_copy \/ CallOther
  BY <1>7, AppendOutcome, RemoveOutcome, CopyOutcome, CallOtherOutcome
<1> QED BY <1>1, <1>2, <1>3, <1>4, <1>5, <1>6, <1>7

\* For any finitely many objects, any variables and any programs: while no opcode is to blame,
\* every count is the number of holders (stack entries, variables, elements, members), every
\* object is whole and of its type; and the opcode that spoils a count is one of the known ones.
\* This is the inductive invariant of object_ref and object_unref.
THEOREM CountsHold == Spec => []CountsInv
<1>1. Init => CountsInv
  <2> SUFFICES ASSUME Init PROVE CountsInv
    OBVIOUS
  <2>1. Good
    BY InitGood
  <2> QED BY <2>1 DEF Init, CountsInv, NoneFreedEarly, NoneLost
<1>2. CountsInv /\ [Next]_vv => CountsInv'
  <2> SUFFICES ASSUME CountsInv, [Next]_vv PROVE CountsInv'
    OBVIOUS
  <2>1. CASE Next
    <3>1. Outcome
      BY <2>1, StepOutcome DEF CountsInv, Next
    <3>2. program' \in Programs
      BY <2>1 DEF CountsInv, Next
    <3>3. blame' = NoBlame => Good'
      BY <3>1 DEF Outcome, Good
    <3> QED BY <3>1, <3>2, <3>3 DEF Outcome, CountsInv
  <2>2. CASE UNCHANGED vv
    <3>1. /\ heap' = heap /\ stack' = stack /\ vars' = vars /\ blame' = blame /\ program' = program
      BY <2>2 DEF vv
    <3>2. NoneFreedEarly' /\ NoneLost'
      BY <3>1 DEF CountsInv, NoneFreedEarly, NoneLost, Temporary
    <3>3. blame' = NoBlame => Good'
      BY <3>1 DEF CountsInv, Good
    <3> QED BY <3>1, <3>2, <3>3 DEF CountsInv
  <2> QED BY <2>1, <2>2
<1> QED BY <1>1, <1>2, PTL DEF Spec

\* So no opcode frees an object that something holds, but for a temporary container whose
\* last reference an index or member opcode drops before it uses it, and a '&' that fails
\* (object_unref in interpreter.c before the use of what it returns).
THEOREM NoObjectIsFreedEarly == Spec => []NoneFreedEarly
<1>1. CountsInv => NoneFreedEarly
  BY DEF CountsInv
<1> QED BY <1>1, CountsHold, PTL

\* And no opcode leaves an object that nothing holds or whose count is above its holders (it
\* would never be freed), but for those of NoneLost: a sum that is stored converted, a member
\* of a union, an element taken out of a vec, a copy or a call that fails.
THEOREM NoReferenceIsLost == Spec => []NoneLost
<1>1. CountsInv => NoneLost
  BY DEF CountsInv
<1> QED BY <1>1, CountsHold, PTL

\* No opcode changes the type of what a variable holds or stores another type than an int
\* in a struct's int member: frame_store_var and structobject_store_member convert first.
THEOREM TypesAreKept == Spec => TypesKept
<1> DEFINE A == blame' = NoBlame =>
     /\ \A n \in Names : vars[n] # Unset /\ vars'[n] # Unset =>
          TypeOf(heap', vars'[n]) = TypeOf(heap, vars[n])
     /\ \A i \in Ids : TypeOf(heap', i) = "struct" => TypeOf(heap', Slots(heap', i)[1]) = "int"
<1>1. CountsInv /\ [Next]_vv => [A]_vv
  <2> SUFFICES ASSUME CountsInv, Next, blame' = NoBlame PROVE A
    OBVIOUS
  <2>1. Outcome
    BY StepOutcome DEF CountsInv, Next
  <2>2. KeepsTypes(heap', vars') /\ Shaped(heap')
    BY <2>1 DEF Outcome
  <2>3. ASSUME NEW i \in Ids, TypeOf(heap', i) = "struct" PROVE TypeOf(heap', Slots(heap', i)[1]) = "int"
    <3>1. heap'.o[i].type = "struct" /\ i \in Places
      BY <2>3, TypeOfId DEF Places
    <3> QED BY <2>2, <3>1 DEF Shaped, Fits, Slots
  <2> QED BY <2>2, <2>3 DEF KeepsTypes
<1>2. Spec => [][Next]_vv
  BY PTL DEF Spec
<1>3. TypesKept <=> [][A]_vv
  BY DEF TypesKept
<1> QED BY <1>1, <1>2, <1>3, CountsHold, PTL
=============================================================================
