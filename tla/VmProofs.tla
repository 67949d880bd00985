------------------------------ MODULE VmProofs ------------------------------
(***************************************************************************)
(* Vm for every program: the state keeps its types, and the flag catched   *)
(* of a block says exactly that a try is open around it.  The two are      *)
(* proved together: the handler's position and the blocks it leaves have   *)
(* their types because the flag is exact, so that there is a try to find.  *)
(*                                                                         *)
(* The second half is about code that has a layout (LayoutAssumption):     *)
(* frames keep to it, whatever jumps, calls, errors and recoveries happen. *)
(***************************************************************************)
EXTENDS Layout, TLAPS, SequenceTheorems, WellFoundedInduction, FiniteSetTheorems

-----------------------------------------------------------------------------
(***************************************************************************)
(* A non-empty set of natural numbers has a least element.                 *)
(***************************************************************************)
Less == {p \in Nat \X Nat : p[1] < p[2]}

\* The order of the natural numbers is well founded.
LEMMA LessWellFounded == IsWellFoundedOn(Less, Nat)
BY NatLessThanWellFounded DEF OpToRel, Less

\* Used to find the innermost try: the least block position with an out.
LEMMA Least ==
    ASSUME NEW T, T \subseteq Nat, T # {}
    PROVE  \E x \in T : \A y \in T : x <= y
<1>1. PICK x \in T : \A y \in T : <<y, x>> \notin Less
  BY LessWellFounded, WFMin
<1>2. ASSUME NEW y \in T PROVE x <= y
  <2>1. <<y, x>> \in Nat \X Nat /\ <<y, x>>[1] = y /\ <<y, x>>[2] = x
    OBVIOUS
  <2>2. ~(y < x)
    BY <1>1, <2>1 DEF Less
  <2> QED BY <2>2
<1> QED BY <1>2

-----------------------------------------------------------------------------
(***************************************************************************)
(* Frames and blocks.                                                      *)
(***************************************************************************)
ExactBlocks(b) ==
    \A i \in DOMAIN b : b[i].catched <=> \E j \in i .. Len(b) : b[j].out > 0

GoodFrame(f) == f \in FrameSet /\ ExactBlocks(f.blocks)

GoodFrames(fs) == fs \in Seq(FrameSet) /\ \A k \in DOMAIN fs : ExactBlocks(fs[k].blocks)

LEMMA BlockTyped ==
    ASSUME NEW b \in Seq(BlockSet), NEW k \in DOMAIN b
    PROVE  b[k] \in BlockSet /\ b[k].out \in Nat /\ b[k].bottom \in Nat
<1>1. b[k] \in BlockSet
  OBVIOUS
<1> QED BY <1>1 DEF BlockSet

\* Leaving blocks, however many, keeps the flags of those that stay exact
\* (frame_leave_block, OP_POP_BLOCKS, frame_recover_exception).
LEMMA SuffixExact ==
    ASSUME NEW b \in Seq(BlockSet), ExactBlocks(b), NEW n \in 1 .. Len(b) + 1
    PROVE  /\ SubSeq(b, n, Len(b)) \in Seq(BlockSet)
           /\ ExactBlocks(SubSeq(b, n, Len(b)))
<1> DEFINE s == SubSeq(b, n, Len(b))
<1>1. /\ s \in Seq(BlockSet)
      /\ Len(s) = Len(b) - n + 1
      /\ \A i \in 1 .. Len(s) : s[i] = b[i + n - 1]
  BY SubSeqProperties
<1>2. ASSUME NEW i \in 1 .. Len(s)
      PROVE  s[i].catched <=> \E j \in i .. Len(s) : s[j].out > 0
  <2>1. b[i + n - 1].catched <=> \E j \in i + n - 1 .. Len(b) : b[j].out > 0
    BY <1>1 DEF ExactBlocks
  <2>2. ASSUME NEW j \in i .. Len(s), s[j].out > 0
        PROVE  b[i + n - 1].catched
    BY <1>1, <2>1, <2>2, j + n - 1 \in i + n - 1 .. Len(b)
  <2>3. ASSUME NEW j \in i + n - 1 .. Len(b), b[j].out > 0
        PROVE  \E l \in i .. Len(s) : s[l].out > 0
    <3>1. j - n + 1 \in i .. Len(s) /\ s[j - n + 1] = b[j]
      BY <1>1
    <3> QED BY <2>3, <3>1
  <2> QED BY <1>1, <2>1, <2>2, <2>3
<1>3. DOMAIN s = 1 .. Len(s)
  BY <1>1
<1> HIDE DEF s
<1>4. ExactBlocks(s)
  BY <1>2, <1>3 DEF ExactBlocks
<1> QED BY <1>1, <1>4 DEF s

\* A new innermost block has the exact flag (frame_enter_block).
LEMMA EnterExact ==
    ASSUME NEW f, GoodFrame(f), NEW out \in Nat, NEW bottom \in Nat
    PROVE  GoodFrame(frame_enter_block(f, out, bottom))
<1> DEFINE b == f.blocks
           new == [out |-> out, bottom |-> bottom, catched |-> out > 0 \/ IsCatched(b)]
           s == <<new>> \o b
<1>1. b \in Seq(BlockSet) /\ ExactBlocks(b)
  BY DEF GoodFrame, FrameSet
<1>2. IsCatched(b) <=> \E j \in 1 .. Len(b) : b[j].out > 0
  BY <1>1 DEF IsCatched, ExactBlocks
<1>3. new \in BlockSet
  BY DEF BlockSet, IsCatched
<1>4. /\ s \in Seq(BlockSet)
      /\ Len(s) = Len(b) + 1
      /\ s[1] = new
      /\ \A i \in 2 .. Len(s) : s[i] = b[i - 1]
  BY <1>1, <1>3
<1>5. new.catched <=> (new.out > 0 \/ IsCatched(b))
  OBVIOUS
<1> HIDE DEF new, s
<1>6. ASSUME NEW i \in 1 .. Len(s)
      PROVE  s[i].catched <=> \E j \in i .. Len(s) : s[j].out > 0
  <2>1. CASE i = 1
    <3>1. (\E j \in 1 .. Len(s) : s[j].out > 0)
            <=> new.out > 0 \/ \E j \in 1 .. Len(b) : b[j].out > 0
      <4>1. ASSUME NEW j \in 1 .. Len(b) PROVE j + 1 \in 2 .. Len(s) /\ s[j + 1] = b[j]
        BY <1>1, <1>4
      <4>2. ASSUME NEW j \in 2 .. Len(s) PROVE j - 1 \in 1 .. Len(b) /\ s[j] = b[j - 1]
        BY <1>1, <1>4
      <4>3. ASSUME NEW j \in 1 .. Len(s), s[j].out > 0
            PROVE  new.out > 0 \/ \E l \in 1 .. Len(b) : b[l].out > 0
        <5>1. CASE j = 1
          BY <1>4, <4>3, <5>1
        <5>2. CASE j # 1
          <6>1. j - 1 \in 1 .. Len(b) /\ s[j] = b[j - 1]
            BY <1>1, <1>4, <4>2, <5>2
          <6> QED BY <4>3, <6>1
        <5> QED BY <5>1, <5>2
      <4>4. ASSUME new.out > 0 \/ \E l \in 1 .. Len(b) : b[l].out > 0
            PROVE  \E j \in 1 .. Len(s) : s[j].out > 0
        <5>1. CASE new.out > 0
          <6>1. 1 \in 1 .. Len(s)
            BY <1>1, <1>4
          <6> QED BY <1>4, <5>1, <6>1
        <5>2. ASSUME NEW l \in 1 .. Len(b), b[l].out > 0
              PROVE  \E j \in 1 .. Len(s) : s[j].out > 0
          BY <4>1, <5>2
        <5> QED BY <4>4, <5>1, <5>2
      <4> QED BY <4>3, <4>4
    <3> QED BY <1>2, <1>4, <1>5, <2>1, <3>1
  <2>2. CASE i # 1
    <3>1. i - 1 \in 1 .. Len(b) /\ s[i] = b[i - 1]
      BY <1>1, <1>4, <2>2
    <3>2. b[i - 1].catched <=> \E j \in i - 1 .. Len(b) : b[j].out > 0
      BY <1>1, <3>1 DEF ExactBlocks
    <3>3. ASSUME NEW j \in i - 1 .. Len(b) PROVE j + 1 \in i .. Len(s) /\ s[j + 1] = b[j]
      BY <1>1, <1>4, <3>1
    <3>4. ASSUME NEW j \in i .. Len(s) PROVE j - 1 \in i - 1 .. Len(b) /\ s[j] = b[j - 1]
      BY <1>1, <1>4, <3>1
    <3> QED BY <3>1, <3>2, <3>3, <3>4
  <2> QED BY <2>1, <2>2
<1>7. ExactBlocks(s)
  BY <1>4, <1>6 DEF ExactBlocks
<1>8. frame_enter_block(f, out, bottom) = [f EXCEPT !.blocks = s]
  BY DEF frame_enter_block, new, s
<1>9. [f EXCEPT !.blocks = s] \in FrameSet /\ [f EXCEPT !.blocks = s].blocks = s
  BY <1>4 DEF GoodFrame, FrameSet
<1> QED BY <1>7, <1>8, <1>9 DEF GoodFrame

\* Entering blocks that belong to no try, however many, keeps the flags exact
\* (OP_PUSH_BLOCKS).
LEMMA EnteredGood ==
    ASSUME NEW f, GoodFrame(f), NEW n \in Nat, NEW bottom \in Nat
    PROVE  GoodFrame(Entered(f, n, bottom))
<1> DEFINE b == f.blocks
           new == [out |-> 0, bottom |-> bottom, catched |-> IsCatched(b)]
           more == [i \in 1 .. n |-> new]
           all == more \o b
<1>1. f \in FrameSet /\ b \in Seq(BlockSet) /\ ExactBlocks(b) /\ Len(b) \in Nat
  BY DEF GoodFrame, FrameSet
<1>2. IsCatched(b) \in BOOLEAN
  BY <1>1 DEF IsCatched, BlockSet
<1>3. new \in BlockSet /\ new.out = 0 /\ new.catched = IsCatched(b)
  BY <1>2 DEF BlockSet
<1>4. IsCatched(b) <=> \E j \in 1 .. Len(b) : b[j].out > 0
  <2>1. CASE b = <<>>
    BY <2>1 DEF IsCatched
  <2>2. CASE b # <<>>
    <3>1. 1 \in DOMAIN b /\ Head(b) = b[1]
      BY <1>1, <2>2
    <3> HIDE DEF b
    <3> QED BY <1>1, <2>2, <3>1 DEF IsCatched, ExactBlocks
  <2> QED BY <2>1, <2>2
<1> HIDE DEF new, b
<1>5. /\ more \in Seq(BlockSet) /\ Len(more) = n
      /\ \A i \in 1 .. n : more[i] = new
  BY <1>3
<1> HIDE DEF more
<1>6. /\ all \in Seq(BlockSet) /\ Len(all) = n + Len(b)
      /\ \A i \in 1 .. n : all[i] = new
      /\ \A i \in n + 1 .. n + Len(b) : all[i] = b[i - n]
  BY <1>1, <1>5, ConcatProperties
<1> HIDE DEF all
<1>7. ASSUME NEW i \in 1 .. n + Len(b)
      PROVE  all[i].catched <=> \E j \in i .. Len(all) : all[j].out > 0
  <2>1. ASSUME NEW k \in 1 .. Len(b) PROVE k + n \in n + 1 .. n + Len(b) /\ all[k + n] = b[k]
    BY <1>1, <1>6
  <2>2. CASE i \in 1 .. n
    <3>1. ASSUME NEW k \in 1 .. Len(b), b[k].out > 0
          PROVE  \E j \in i .. Len(all) : all[j].out > 0
      BY <1>1, <1>6, <2>1, <2>2, <3>1
    <3>2. ASSUME NEW j \in i .. Len(all), all[j].out > 0
          PROVE  \E k \in 1 .. Len(b) : b[k].out > 0
      <4>1. j \notin 1 .. n
        BY <1>3, <1>6, <3>2
      <4>2. j - n \in 1 .. Len(b) /\ all[j] = b[j - n]
        BY <1>1, <1>6, <2>2, <4>1
      <4> QED BY <3>2, <4>2
    <3> QED BY <1>3, <1>4, <1>6, <2>2, <3>1, <3>2
  <2>3. CASE i \in n + 1 .. n + Len(b)
    <3>1. i - n \in DOMAIN b /\ all[i] = b[i - n]
      BY <1>1, <1>6, <2>3
    <3>2. b[i - n].catched <=> \E k \in i - n .. Len(b) : b[k].out > 0
      BY <1>1, <3>1 DEF ExactBlocks
    <3>3. ASSUME NEW k \in i - n .. Len(b), b[k].out > 0
          PROVE  \E j \in i .. Len(all) : all[j].out > 0
      <4>1. k \in 1 .. Len(b) /\ k + n \in i .. Len(all)
        BY <1>1, <1>6, <2>3
      <4> QED BY <2>1, <3>3, <4>1
    <3>4. ASSUME NEW j \in i .. Len(all), all[j].out > 0
          PROVE  \E k \in i - n .. Len(b) : b[k].out > 0
      <4>1. j - n \in i - n .. Len(b) /\ all[j] = b[j - n]
        BY <1>1, <1>6, <2>3
      <4> QED BY <3>4, <4>1
    <3> QED BY <3>1, <3>2, <3>3, <3>4
  <2> QED BY <1>1, <2>2, <2>3
<1>8. ExactBlocks(all)
  BY <1>1, <1>6, <1>7 DEF ExactBlocks
<1>9. /\ [f EXCEPT !.blocks = all] \in FrameSet
      /\ [f EXCEPT !.blocks = all].blocks = all
  BY <1>1, <1>6 DEF FrameSet
<1>10. Entered(f, n, bottom) = [f EXCEPT !.blocks = all]
  BY DEF Entered, all, more, new, b
<1> QED BY <1>8, <1>9, <1>10 DEF GoodFrame

\* A frame starts with one block outside any try (frame_new).
LEMMA FrameNewGood ==
    ASSUME NEW c \in DOMAIN code, NEW bottom \in Nat
    PROVE  GoodFrame(frame_new(c, bottom))
<1> DEFINE f == [code |-> c, esp |-> 0, bottom |-> bottom, blocks |-> <<>>, exception |-> NULL]
<1>1. GoodFrame(f)
  BY DEF GoodFrame, FrameSet, ExactBlocks
<1> QED BY <1>1, EnterExact DEF frame_new

\* An error inside a try finds the innermost one, and the frame is left with
\* blocks whose flags are exact (frame_recover_exception).
LEMMA RecoverGood ==
    ASSUME NEW f, GoodFrame(f), IsCatched(f.blocks)
    PROVE  /\ GoodFrame(frame_recover_exception(f))
           /\ InnermostTry(f) \in DOMAIN f.blocks
           /\ f.blocks[InnermostTry(f)].out > 0
           /\ \A j \in 1 .. InnermostTry(f) - 1 : f.blocks[j].out = 0
<1> DEFINE b == f.blocks
           T == {i \in DOMAIN b : b[i].out > 0}
           i == InnermostTry(f)
<1>1. /\ b \in Seq(BlockSet) /\ ExactBlocks(b)
      /\ b # <<>> /\ Head(b).catched
  BY DEF GoodFrame, FrameSet, IsCatched
<1>2. 1 \in DOMAIN b /\ b[1].catched
  BY <1>1
<1>3. T # {} /\ T \subseteq Nat /\ T \subseteq DOMAIN b
  BY <1>1, <1>2 DEF ExactBlocks
<1>4. PICK x \in T : \A y \in T : x <= y
  <2> HIDE DEF T
  <2> QED BY <1>3, Least
<1>5. ASSUME NEW j \in 1 .. x - 1 PROVE b[j].out = 0
  <2>1. j \in DOMAIN b /\ j \notin T
    BY <1>1, <1>3, <1>4
  <2>2. b[j].out \in Nat
    <3> HIDE DEF b
    <3> QED BY <1>1, <2>1, BlockTyped
  <2> QED BY <2>1, <2>2
<1>6. i \in DOMAIN b /\ b[i].out > 0 /\ \A j \in 1 .. i - 1 : b[j].out = 0
  BY <1>3, <1>4, <1>5 DEF InnermostTry
<1> DEFINE s == SubSeq(b, i + 1, Len(b))
<1>7. s \in Seq(BlockSet) /\ ExactBlocks(s)
  <2>1. i + 1 \in 1 .. Len(b) + 1
    BY <1>1, <1>6
  <2> HIDE DEF i, b
  <2> QED BY <1>1, <2>1, SuffixExact
<1>8. b[i].out + 1 \in Nat
  <2> HIDE DEF b, i
  <2>1. b[i].out \in Nat
    BY <1>1, <1>6, BlockTyped
  <2> QED BY <2>1
<1>9. frame_recover_exception(f) = [f EXCEPT !.esp = b[i].out + 1, !.blocks = s]
  BY DEF frame_recover_exception
<1>10. /\ [f EXCEPT !.esp = b[i].out + 1, !.blocks = s] \in FrameSet
       /\ [f EXCEPT !.esp = b[i].out + 1, !.blocks = s].blocks = s
  <2> HIDE DEF s, i
  <2> QED BY <1>7, <1>8 DEF GoodFrame, FrameSet
<1> QED BY <1>6, <1>7, <1>9, <1>10 DEF GoodFrame

\* The frame under the current one is not touched.
LEMMA HeadReplaced ==
    ASSUME NEW fs, GoodFrames(fs), fs # <<>>, NEW f, GoodFrame(f)
    PROVE  GoodFrames(<<f>> \o Tail(fs))
<1>1. /\ <<f>> \o Tail(fs) \in Seq(FrameSet)
      /\ Len(<<f>> \o Tail(fs)) = Len(fs)
      /\ (<<f>> \o Tail(fs))[1] = f
      /\ \A k \in 2 .. Len(fs) : (<<f>> \o Tail(fs))[k] = fs[k]
  BY DEF GoodFrames, GoodFrame
<1> QED BY <1>1 DEF GoodFrames, GoodFrame

LEMMA TailGood ==
    ASSUME NEW fs, GoodFrames(fs), fs # <<>>
    PROVE  GoodFrames(Tail(fs))
<1>1. /\ Tail(fs) \in Seq(FrameSet)
      /\ Len(Tail(fs)) = Len(fs) - 1
      /\ \A k \in 1 .. Len(fs) - 1 : Tail(fs)[k] = fs[k + 1]
  BY DEF GoodFrames
<1>2. \A k \in 1 .. Len(fs) - 1 : k + 1 \in DOMAIN fs
  BY DEF GoodFrames
<1> QED BY <1>1, <1>2 DEF GoodFrames

LEMMA HeadGood ==
    ASSUME NEW fs, GoodFrames(fs), fs # <<>>
    PROVE  GoodFrame(Head(fs)) /\ Head(fs) \in FrameSet
BY DEF GoodFrames, GoodFrame

-----------------------------------------------------------------------------
(***************************************************************************)
(* The operand stack.                                                      *)
(***************************************************************************)
LEMMA CutTyped ==
    ASSUME NEW s \in Seq(ValueSet), NEW n \in Nat
    PROVE  Cut(s, n) \in Seq(ValueSet)
BY SubSeqProperties DEF Cut

LEMMA DropTyped ==
    ASSUME NEW s \in Seq(ValueSet), NEW n \in Nat
    PROVE  Drop(s, n) \in Seq(ValueSet)
<1>1. CASE n >= Len(s)
  <2>1. SubSeq(s, 1, Len(s) - n) = <<>>
    BY <1>1, SubSeqEmpty
  <2> QED BY <2>1 DEF Drop
<1>2. CASE n < Len(s)
  <2>1. Len(s) - n \in 1 .. Len(s)
    BY <1>2
  <2> QED BY <2>1, SubSeqProperties DEF Drop
<1> QED BY <1>1, <1>2

LEMMA ValueTyped ==
    ASSUME NEW type \in {"obj", "vec", "func", "exception"}, NEW of \in STRING \cup {NULL}, NEW at \in Nat
    PROVE  Value(type, of, at) \in ValueSet
BY DEF Value, ValueSet

LEMMA KnownValues ==
    Obj \in ValueSet /\ Vec \in ValueSet /\ \A f \in STRING : Func(f) \in ValueSet
<1>1. ASSUME NEW f \in STRING PROVE Value("func", f, 0) \in ValueSet
  BY ValueTyped
<1>2. Value("obj", NULL, 0) \in ValueSet
  BY ValueTyped
<1>3. Value("vec", NULL, 0) \in ValueSet
  BY ValueTyped
<1> QED BY <1>1, <1>2, <1>3 DEF Obj, Vec, Func

-----------------------------------------------------------------------------
(***************************************************************************)
(* The inductive invariant.                                                *)
(***************************************************************************)
PlaysLive == status \in {"run", "failed"} => plays # <<>>

Inv == code \in Codes /\ TypeOK /\ CatchedExact /\ PlaysLive

\* A pair of frames and operand stack in order, for the program that runs.
Good(m) == GoodFrames(m.frames) /\ m.g_s \in Seq(ValueSet)

Running == Inv /\ status \in {"run", "failed"}

LEMMA InvGood ==
    ASSUME Inv
    PROVE  Good(Machine(frames, g_s))
BY DEF Inv, TypeOK, CatchedExact, CatchedIn, Good, GoodFrames, ExactBlocks, Machine

\* A step that keeps the program and leaves good frames and a good stack.
LEMMA GoodInv ==
    ASSUME code \in Codes, code' = code, GoodFrames(frames'), g_s' \in Seq(ValueSet),
           plays' \in Seq(DOMAIN code), status' \in Statuses,
           status' \in {"run", "failed"} => plays' # <<>>
    PROVE  Inv'
<1>1. FrameSet' = FrameSet /\ ValueSet' = ValueSet
  BY DEF FrameSet, ValueSet
<1>2. TypeOK'
  BY <1>1 DEF TypeOK, GoodFrames
<1>3. CatchedExact'
  BY DEF CatchedExact, CatchedIn, GoodFrames, ExactBlocks
<1>4. PlaysLive'
  BY DEF PlaysLive
<1> QED BY <1>2, <1>3, <1>4 DEF Inv

LEMMA CrashInv ==
    ASSUME Inv, Crash
    PROVE  Inv'
BY InvGood, GoodInv DEF Inv, TypeOK, Crash, Good, Machine, Statuses

LEMMA ContinueInv ==
    ASSUME Running, NEW m, Good(m), Continue(m)
    PROVE  Inv'
BY GoodInv DEF Running, Inv, TypeOK, PlaysLive, Good, Continue, Becomes, Statuses

LEMMA PlayReturnsInv ==
    ASSUME Running, NEW m, Good(m), NEW result, PlayReturns(m, result)
    PROVE  Inv'
<1>1. plays \in Seq(DOMAIN code) /\ plays # <<>>
  BY DEF Running, Inv, TypeOK, PlaysLive
<1>2. plays' = Tail(plays) /\ plays' \in Seq(DOMAIN code)
  BY <1>1 DEF PlayReturns
<1>3. status' \in Statuses /\ (status' \in {"run", "failed"} => plays' # <<>>)
  BY <1>2 DEF PlayReturns, Statuses
<1> QED BY <1>2, <1>3, GoodInv DEF Running, Inv, Good, PlayReturns, Becomes

\* Recovering leaves a good machine (interpreter_recover_exception).
LEMMA RecoverMachine ==
    ASSUME NEW m, Good(m), Recoverable(m)
    PROVE  Good(interpreter_recover_exception(m))
<1> DEFINE top == m.g_s[Len(m.g_s)]
           thrown == m.g_s # <<>> /\ top.type = "exception"
           f == IF thrown THEN frame_set_exception(Head(m.frames), top) ELSE Head(m.frames)
<1>1. /\ m.frames # <<>> /\ IsCatched(Head(m.frames).blocks)
      /\ GoodFrame(Head(m.frames)) /\ Head(m.frames) \in FrameSet
  BY HeadGood DEF Recoverable, Good
<1>2. GoodFrame(f) /\ f.blocks = Head(m.frames).blocks
  <2>1. CASE thrown
    <3>1. top \in ValueSet
      BY <2>1 DEF Good
    <3> HIDE DEF top
    <3>2. /\ [Head(m.frames) EXCEPT !.exception = top] \in FrameSet
          /\ [Head(m.frames) EXCEPT !.exception = top].blocks = Head(m.frames).blocks
      BY <1>1, <3>1 DEF FrameSet
    <3> QED BY <1>1, <2>1, <3>2 DEF GoodFrame, frame_set_exception
  <2>2. CASE ~thrown
    BY <1>1, <2>2
  <2> QED BY <2>1, <2>2
<1> HIDE DEF f
<1>3. GoodFrame(frame_recover_exception(f)) /\ InnermostTry(f) \in DOMAIN f.blocks
  BY <1>1, <1>2, RecoverGood
<1>4. f.blocks[InnermostTry(f)].bottom \in Nat
  <2>1. f.blocks \in Seq(BlockSet)
    BY <1>2 DEF GoodFrame, FrameSet
  <2> QED BY <1>3, <2>1, BlockTyped
<1>5. GoodFrames(<<frame_recover_exception(f)>> \o Tail(m.frames))
  BY <1>1, <1>3, HeadReplaced DEF Good
<1>6. Cut(m.g_s, f.blocks[InnermostTry(f)].bottom) \in Seq(ValueSet)
  BY <1>4, CutTyped DEF Good
<1> QED BY <1>5, <1>6 DEF Good, Machine, interpreter_recover_exception, f

\* Raising an error leaves a good machine (interpreter_set_exception).
LEMMA RaiseMachine ==
    ASSUME NEW m, Good(m), ~Dangling(m), NEW e \in ValueSet,
           m = Machine(m.frames, m.g_s)
    PROVE  /\ Good(interpreter_set_exception(m, e))
<1> DEFINE f == Head(m.frames)
           s == IF Len(m.g_s) <= f.bottom
                THEN Append(m.g_s, e)
                ELSE [m.g_s EXCEPT ![f.bottom + 1] = e]
<1>1. m.frames # <<>> /\ GoodFrame(f) /\ f \in FrameSet /\ f.bottom \in Nat
  BY HeadGood DEF Dangling, Good, FrameSet
<1>2. CASE TopBlock(f).catched
  <2>1. /\ [f EXCEPT !.exception = e] \in FrameSet
        /\ [f EXCEPT !.exception = e].blocks = f.blocks
    BY <1>1 DEF FrameSet
  <2>2. GoodFrame(frame_set_exception(f, e))
    BY <1>1, <2>1 DEF GoodFrame, frame_set_exception
  <2>3. GoodFrames(<<frame_set_exception(f, e)>> \o Tail(m.frames))
    BY <1>1, <2>2, HeadReplaced DEF Good
  <2>4. interpreter_set_exception(m, e) =
          Machine(<<frame_set_exception(f, e)>> \o Tail(m.frames), m.g_s)
    BY <1>2 DEF interpreter_set_exception, Machine
  <2> QED BY <2>3, <2>4 DEF Good, Machine
<1>3. CASE ~TopBlock(f).catched
  <2>1. s \in Seq(ValueSet)
    BY <1>1 DEF Good
  <2>2. interpreter_stack_rollback(s, f.bottom) \in Seq(ValueSet)
    <3> HIDE DEF s, f
    <3>1. f.bottom + 1 \in Nat
      BY <1>1
    <3> QED BY <2>1, <3>1, CutTyped DEF interpreter_stack_rollback
  <2>3. interpreter_set_exception(m, e) =
          Machine(Tail(m.frames), interpreter_stack_rollback(s, f.bottom))
    BY <1>3 DEF interpreter_set_exception
  <2> QED BY <1>1, <2>2, <2>3, TailGood DEF Good, Machine
<1> QED BY <1>2, <1>3

LEMMA HandleInv ==
    ASSUME Running, NEW m, Good(m), HANDLE_EXCEPTION(m)
    PROVE  Inv'
<1>1. CASE Recoverable(m) /\ Continue(interpreter_recover_exception(m))
  BY <1>1, RecoverMachine, ContinueInv
<1>2. CASE Crash
  BY <1>2, CrashInv DEF Running
<1>3. CASE PlayReturns(m, 0)
  BY <1>3, PlayReturnsInv
<1> QED BY <1>1, <1>2, <1>3 DEF HANDLE_EXCEPTION

\* What an opcode reads, and the machine it hands on.
LEMMA AtOpcodeGood ==
    ASSUME Inv, NEW op, AtOpcode(op)
    PROVE  /\ Running
           /\ frames # <<>> /\ GoodFrames(frames) /\ GoodFrame(Current)
           /\ Current \in FrameSet /\ Advanced \in FrameSet
           /\ GoodFrame(Advanced) /\ Advanced.blocks = Current.blocks
           /\ Opcode \in OpcodeSet /\ Opcode.para \in Nat /\ Opcode.name \in STRING
           /\ Here \in ValueSet
           /\ g_s \in Seq(ValueSet)
<1>1. /\ code \in Codes /\ GoodFrames(frames) /\ frames # <<>>
      /\ g_s \in Seq(ValueSet) /\ status = "run"
  BY InvGood DEF Inv, Good, Machine, AtOpcode
<1>2. GoodFrame(Current) /\ Current \in FrameSet
  BY <1>1, HeadGood DEF Current
<1>3. /\ Current.esp \in Nat /\ Current.code \in DOMAIN code
      /\ Current.esp + 1 \in Nat
  BY <1>2 DEF FrameSet
<1>4. /\ [Current EXCEPT !.esp = Current.esp + 1] \in FrameSet
      /\ [Current EXCEPT !.esp = Current.esp + 1].blocks = Current.blocks
  BY <1>2, <1>3 DEF FrameSet
<1>5. Advanced \in FrameSet /\ Advanced.blocks = Current.blocks
  BY <1>4 DEF Advanced
<1>6. Ops(Current) \in Seq(OpcodeSet) /\ Current.code \in STRING
  BY <1>1, <1>3, CodesAssumption DEF Ops
<1>7. Opcode \in OpcodeSet
  BY <1>3, <1>6 DEF Opcode, AtOpcode
<1>8. Opcode.para \in Nat /\ Opcode.name \in STRING
  BY <1>7 DEF OpcodeSet
<1>9. Here \in ValueSet
  BY <1>3, <1>6, ValueTyped DEF Here, Exception
<1> QED BY <1>1, <1>2, <1>5, <1>7, <1>8, <1>9 DEF GoodFrame, Running

LEMMA WithGood ==
    ASSUME GoodFrames(frames), frames # <<>>, NEW f, GoodFrame(f), NEW s \in Seq(ValueSet)
    PROVE  /\ Good(With(f, s))
           /\ With(f, s) = Machine(With(f, s).frames, With(f, s).g_s)
BY HeadReplaced DEF Good, With, Machine

LEMMA FailInv ==
    ASSUME Running, Here \in ValueSet, NEW m, Good(m), m = Machine(m.frames, m.g_s), Fail(m)
    PROVE  Inv'
<1>1. CASE Crash
  BY <1>1, CrashInv DEF Running
<1>2. CASE ~Dangling(m) /\ HANDLE_EXCEPTION(interpreter_set_exception(m, Here))
  <2>1. Good(interpreter_set_exception(m, Here))
    BY <1>2, RaiseMachine
  <2> QED BY <1>2, <2>1, HandleInv
<1> QED BY <1>1, <1>2 DEF Fail

-----------------------------------------------------------------------------
(***************************************************************************)
(* Every step keeps the invariant.                                         *)
(***************************************************************************)
LEMMA SimpleSteps ==
    ASSUME Inv, LoadConst \/ LoadVar \/ Add \/ MakeVec \/ PopStack \/ StoreLocal
    PROVE  Inv'
<1>1. /\ Running /\ frames # <<>> /\ GoodFrames(frames) /\ GoodFrame(Advanced)
      /\ Opcode.para \in Nat /\ Opcode.name \in STRING
      /\ Here \in ValueSet /\ g_s \in Seq(ValueSet)
  BY AtOpcodeGood DEF LoadConst, LoadVar, Add, MakeVec, PopStack, StoreLocal
<1>2. ASSUME NEW s \in Seq(ValueSet)
      PROVE  Good(Next1(s)) /\ Next1(s) = Machine(Next1(s).frames, Next1(s).g_s)
  BY <1>1, WithGood DEF Next1
<1>3. ASSUME NEW s \in Seq(ValueSet), Continue(Next1(s)) PROVE Inv'
  BY <1>1, <1>2, <1>3, ContinueInv
<1>4. ASSUME NEW s \in Seq(ValueSet), Fail(Next1(s)) PROVE Inv'
  BY <1>1, <1>2, <1>4, FailInv
<1>5. ASSUME NEW v \in ValueSet PROVE Append(g_s, v) \in Seq(ValueSet)
  BY <1>1
<1>6. Obj \in ValueSet /\ Vec \in ValueSet /\ Func(Opcode.name) \in ValueSet
  BY <1>1, KnownValues
<1>7. ASSUME NEW n \in Nat
      PROVE  /\ Drop(g_s, n) \in Seq(ValueSet)
             /\ \A v \in ValueSet : Append(Drop(g_s, n), v) \in Seq(ValueSet)
  <2>1. Drop(g_s, n) \in Seq(ValueSet)
    BY <1>1, DropTyped
  <2> QED BY <2>1
<1>8. CASE LoadConst
  <2>1. CASE Continue(Next1(Append(g_s, IF Opcode.name = "" THEN Obj ELSE Func(Opcode.name))))
    BY <1>3, <1>5, <1>6, <2>1
  <2>2. CASE HANDLE_EXCEPTION(Next1(g_s))
    BY <1>1, <1>2, <2>2, HandleInv
  <2> QED BY <1>8, <2>1, <2>2 DEF LoadConst
<1>9. CASE LoadVar
  <2>1. CASE Crash
    BY <2>1, CrashInv
  <2>2. CASE Fail(Next1(g_s))
    BY <1>1, <1>4, <2>2
  <2>3. CASE Continue(Next1(Append(g_s, Func(Opcode.name)))) \/ Continue(Next1(Append(g_s, Obj)))
    BY <1>3, <1>5, <1>6, <2>3
  <2> QED BY <1>9, <2>1, <2>2, <2>3 DEF LoadVar
<1>10. CASE Add
  <2>1. Drop(g_s, 2) \in Seq(ValueSet) /\ Append(Drop(g_s, 2), Obj) \in Seq(ValueSet)
    BY <1>6, <1>7
  <2> QED BY <1>3, <1>4, <1>10, <2>1 DEF Add
<1>11. CASE MakeVec
  <2>1. Append(Drop(g_s, Opcode.para), Vec) \in Seq(ValueSet)
    BY <1>1, <1>6, <1>7
  <2> QED BY <1>3, <1>11, <2>1 DEF MakeVec
<1>12. CASE PopStack
  <2>1. Drop(g_s, 1) \in Seq(ValueSet)
    BY <1>7
  <2> QED BY <1>3, <1>12, <2>1 DEF PopStack
<1>13. CASE StoreLocal
  <2>1. Drop(g_s, 1) \in Seq(ValueSet)
    BY <1>7
  <2>2. CASE Crash
    BY <2>2, CrashInv
  <2> QED BY <1>3, <1>4, <1>13, <2>1, <2>2 DEF StoreLocal
<1> QED BY <1>8, <1>9, <1>10, <1>11, <1>12, <1>13

LEMMA BlockSteps ==
    ASSUME Inv, EnterBlock \/ LeaveBlock \/ PushBlocks \/ PopBlocks \/ StoreException
    PROVE  Inv'
<1>1. /\ Running /\ frames # <<>> /\ GoodFrames(frames) /\ GoodFrame(Advanced)
      /\ Advanced \in FrameSet /\ Advanced.blocks = Current.blocks
      /\ Opcode.para \in Nat /\ g_s \in Seq(ValueSet)
  BY AtOpcodeGood DEF EnterBlock, LeaveBlock, PushBlocks, PopBlocks, StoreException
<1>2. ASSUME NEW f, GoodFrame(f), Continue(With(f, g_s)) PROVE Inv'
  BY <1>1, <1>2, WithGood, ContinueInv
<1>3. CASE EnterBlock
  <2>1. Len(g_s) \in Nat
    BY <1>1
  <2>2. GoodFrame(frame_enter_block(Advanced, Opcode.para, Len(g_s)))
    BY <1>1, <2>1, EnterExact
  <2> QED BY <1>2, <1>3, <2>2 DEF EnterBlock
<1> DEFINE b == Advanced.blocks
<1>4. b \in Seq(BlockSet) /\ ExactBlocks(b)
  BY <1>1 DEF GoodFrame, FrameSet
<1>5. ASSUME NEW s \in Seq(BlockSet), ExactBlocks(s)
      PROVE  GoodFrame([Advanced EXCEPT !.blocks = s])
  <2>1. /\ [Advanced EXCEPT !.blocks = s] \in FrameSet
        /\ [Advanced EXCEPT !.blocks = s].blocks = s
    BY <1>1 DEF FrameSet
  <2> QED BY <1>5, <2>1 DEF GoodFrame
<1>6. CASE LeaveBlock
  <2>1. CASE Crash
    BY <2>1, CrashInv
  <2>2. CASE Current.blocks # <<>> /\ Continue(With(frame_leave_block(Advanced), g_s))
    <3>1. Len(b) \in Nat \ {0} /\ 2 \in 1 .. Len(b) + 1
      BY <1>1, <1>4, <2>2
    <3>2. SubSeq(b, 2, Len(b)) \in Seq(BlockSet) /\ ExactBlocks(SubSeq(b, 2, Len(b)))
      <4> HIDE DEF b
      <4> QED BY <1>4, <3>1, SuffixExact
    <3>3. Tail(b) = SubSeq(b, 2, Len(b))
      <4>1. b # <<>>
        BY <1>1, <2>2
      <4> HIDE DEF b
      <4> QED BY <1>4, <4>1, TailIsSubSeq
    <3>4. GoodFrame(frame_leave_block(Advanced))
      BY <1>5, <3>2, <3>3 DEF frame_leave_block
    <3> QED BY <1>2, <2>2, <3>4
  <2> QED BY <1>6, <2>1, <2>2 DEF LeaveBlock
<1>7. CASE PopBlocks
  <2>1. CASE Crash
    BY <2>1, CrashInv
  <2>2. CASE /\ Opcode.para <= Len(Current.blocks)
             /\ Continue(With([Advanced EXCEPT
                                !.blocks = SubSeq(@, Opcode.para + 1, Len(@))], g_s))
    <3> DEFINE n == Opcode.para + 1
    <3>1. n \in 1 .. Len(b) + 1
      BY <1>1, <1>4, <2>2
    <3>2. SubSeq(b, n, Len(b)) \in Seq(BlockSet) /\ ExactBlocks(SubSeq(b, n, Len(b)))
      <4> HIDE DEF b, n
      <4> QED BY <1>4, <3>1, SuffixExact
    <3> QED BY <1>2, <1>5, <2>2, <3>2
  <2> QED BY <1>7, <2>1, <2>2 DEF PopBlocks
<1>8. CASE StoreException
  <2>1. CASE Crash
    BY <2>1, CrashInv
  <2>2. CASE Continue(Next1(g_s))
    BY <1>1, <1>2, <2>2 DEF Next1
  <2> QED BY <1>8, <2>1, <2>2 DEF StoreException
<1>9. CASE PushBlocks
  <2>1. Len(g_s) \in Nat
    BY <1>1
  <2>2. GoodFrame(Entered(Advanced, Opcode.para, Len(g_s)))
    BY <1>1, <2>1, EnteredGood
  <2> QED BY <1>2, <1>9, <2>2 DEF PushBlocks
<1> QED BY <1>3, <1>6, <1>7, <1>8, <1>9

LEMMA JumpSteps ==
    ASSUME Inv, Jump \/ JumpIf \/ JumpCase \/ JumpDefault
    PROVE  Inv'
<1>1. /\ Running /\ frames # <<>> /\ GoodFrames(frames) /\ GoodFrame(Advanced)
      /\ Advanced \in FrameSet /\ Opcode.para \in Nat /\ g_s \in Seq(ValueSet)
      /\ Here \in ValueSet
  BY AtOpcodeGood DEF Jump, JumpIf, JumpCase, JumpDefault
<1>2. GoodFrame(frame_jump(Advanced, Opcode.para))
  <2>1. /\ [Advanced EXCEPT !.esp = Opcode.para] \in FrameSet
        /\ [Advanced EXCEPT !.esp = Opcode.para].blocks = Advanced.blocks
    BY <1>1 DEF FrameSet
  <2> QED BY <1>1, <2>1 DEF GoodFrame, frame_jump
<1>3. Drop(g_s, 1) \in Seq(ValueSet) /\ Drop(g_s, 2) \in Seq(ValueSet)
  BY <1>1, DropTyped
<1>4. ASSUME NEW f, GoodFrame(f), NEW s \in Seq(ValueSet), Continue(With(f, s)) PROVE Inv'
  BY <1>1, <1>4, WithGood, ContinueInv
<1>5. CASE Jump
  BY <1>1, <1>2, <1>4, <1>5 DEF Jump
<1>6. CASE JumpIf
  BY <1>1, <1>2, <1>3, <1>4, <1>6 DEF JumpIf, Next1
<1>7. CASE JumpCase
  <2>1. CASE Continue(With(frame_jump(Advanced, Opcode.para), Drop(g_s, 1)))
    BY <1>2, <1>3, <1>4, <2>1
  <2>2. CASE Continue(Next1(Drop(g_s, 2)))
    BY <1>1, <1>3, <1>4, <2>2 DEF Next1
  <2>3. CASE Fail(Next1(Drop(g_s, 2)))
    BY <1>1, <1>3, <2>3, WithGood, FailInv DEF Next1
  <2> QED BY <1>7, <2>1, <2>2, <2>3 DEF JumpCase
<1>8. CASE JumpDefault
  BY <1>2, <1>3, <1>4, <1>8 DEF JumpDefault
<1> QED BY <1>5, <1>6, <1>7, <1>8

LEMMA ReturnSteps ==
    ASSUME Inv, Return \/ EndProgram \/ FallOff \/ NoFrame
    PROVE  Inv'
<1>1. CASE Return
  <2>1. /\ Running /\ frames # <<>> /\ GoodFrames(frames) /\ GoodFrame(Advanced)
        /\ Here \in ValueSet /\ g_s \in Seq(ValueSet)
    BY <1>1, AtOpcodeGood DEF Return
  <2>2. CASE PlayReturns(Machine(Tail(frames), g_s), 1)
    <3>1. Good(Machine(Tail(frames), g_s))
      BY <2>1, TailGood DEF Good, Machine
    <3> QED BY <2>1, <2>2, <3>1, PlayReturnsInv
  <2>3. CASE Fail(Next1(Drop(g_s, 1)))
    <3>1. Drop(g_s, 1) \in Seq(ValueSet)
      BY <2>1, DropTyped
    <3> QED BY <2>1, <2>3, <3>1, WithGood, FailInv DEF Next1
  <2> QED BY <1>1, <2>2, <2>3 DEF Return
<1>2. CASE EndProgram
  <2>1. Running /\ frames # <<>> /\ GoodFrames(frames) /\ g_s \in Seq(ValueSet)
    BY <1>2, AtOpcodeGood DEF EndProgram
  <2>2. Good(Machine(Tail(frames), g_s))
    BY <2>1, TailGood DEF Good, Machine
  <2> QED BY <1>2, <2>1, <2>2, PlayReturnsInv DEF EndProgram
<1>3. CASE FallOff
  BY <1>3, InvGood, PlayReturnsInv DEF FallOff, Running
<1>4. CASE NoFrame
  BY <1>4, CrashInv DEF NoFrame
<1> QED BY <1>1, <1>2, <1>3, <1>4

LEMMA BindArgsStep ==
    ASSUME Inv, BindArgs
    PROVE  Inv'
<1>1. /\ Running /\ frames # <<>> /\ GoodFrames(frames) /\ GoodFrame(Advanced)
      /\ Here \in ValueSet /\ g_s \in Seq(ValueSet)
  BY AtOpcodeGood DEF BindArgs
<1>2. Drop(g_s, 1) \in Seq(ValueSet)
  BY <1>1, DropTyped
<1>3. /\ Good(Next1(Drop(g_s, 1)))
      /\ Next1(Drop(g_s, 1)) = Machine(Next1(Drop(g_s, 1)).frames, Next1(Drop(g_s, 1)).g_s)
  BY <1>1, <1>2, WithGood DEF Next1
<1>4. CASE Crash
  BY <1>4, CrashInv
<1>5. CASE Fail(Next1(Drop(g_s, 1)))
  BY <1>1, <1>3, <1>5, FailInv
<1>6. CASE Continue(Next1(Drop(g_s, 1)))
  BY <1>1, <1>3, <1>6, ContinueInv
<1> QED BY <1>4, <1>5, <1>6 DEF BindArgs

LEMMA CallFuncStep ==
    ASSUME Inv, CallFunc
    PROVE  Inv'
<1>1. /\ Running /\ frames # <<>> /\ GoodFrames(frames) /\ GoodFrame(Advanced)
      /\ Here \in ValueSet /\ g_s \in Seq(ValueSet)
  BY AtOpcodeGood DEF CallFunc
<1>2. Drop(g_s, 1) \in Seq(ValueSet) /\ Drop(g_s, 2) \in Seq(ValueSet)
  BY <1>1, DropTyped
<1>3. Passed \in Seq(ValueSet)
  BY <1>2, KnownValues DEF Passed
<1>4. ASSUME NEW s \in Seq(ValueSet), Fail(Next1(s)) PROVE Inv'
  BY <1>1, <1>4, WithGood, FailInv DEF Next1
<1>5. CASE Fail(Next1(Drop(g_s, IF HasArgs THEN 2 ELSE 1)))
  BY <1>2, <1>4, <1>5
<1>6. CASE Fail(Next1(Passed))
  BY <1>3, <1>4, <1>6
<1>7. ASSUME NEW f \in DOMAIN code,
             frames' = <<frame_new(f, Len(Passed)), Advanced>> \o Tail(frames),
             g_s' = Passed, plays' = <<f>> \o plays, UNCHANGED <<code, status>>
      PROVE  Inv'
  <2>1. GoodFrame(frame_new(f, Len(Passed)))
    <3>1. Len(Passed) \in Nat
      BY <1>3
    <3> QED BY <3>1, FrameNewGood
  <2> DEFINE new == frame_new(f, Len(Passed))
  <2>2. GoodFrames(<<new, Advanced>> \o Tail(frames))
    <3>1. new \in FrameSet /\ Advanced \in FrameSet
      BY <1>1, <2>1 DEF GoodFrame
    <3> HIDE DEF new
    <3>2. /\ <<new, Advanced>> \o Tail(frames) \in Seq(FrameSet)
          /\ Len(<<new, Advanced>> \o Tail(frames)) = Len(frames) + 1
          /\ (<<new, Advanced>> \o Tail(frames))[1] = new
          /\ (<<new, Advanced>> \o Tail(frames))[2] = Advanced
          /\ \A k \in 3 .. Len(frames) + 1 :
                (<<new, Advanced>> \o Tail(frames))[k] = frames[k - 1]
      BY <1>1, <3>1 DEF GoodFrames
    <3>3. ASSUME NEW k \in 1 .. Len(frames) + 1
          PROVE  ExactBlocks((<<new, Advanced>> \o Tail(frames))[k].blocks)
      <4>1. CASE k = 1
        BY <2>1, <3>2, <4>1 DEF GoodFrame, new
      <4>2. CASE k = 2
        BY <1>1, <3>2, <4>2 DEF GoodFrame
      <4>3. CASE k \in 3 .. Len(frames) + 1
        <5>1. k - 1 \in DOMAIN frames
          BY <1>1, <4>3 DEF GoodFrames
        <5> QED BY <1>1, <3>2, <4>3, <5>1 DEF GoodFrames
      <4> QED BY <1>1, <4>1, <4>2, <4>3 DEF GoodFrames
    <3> QED BY <3>2, <3>3 DEF GoodFrames
  <2>3. plays' \in Seq(DOMAIN code) /\ plays' # <<>>
    BY <1>1, <1>7 DEF Running, Inv, TypeOK
  <2> QED BY <1>1, <1>3, <1>7, <2>2, <2>3, GoodInv DEF Running, Inv, TypeOK
<1> QED BY <1>5, <1>6, <1>7 DEF CallFunc

LEMMA PlayFailedStep ==
    ASSUME Inv, PlayFailed
    PROVE  Inv'
<1> DEFINE f == Current
           s == Drop(g_s, 1)
           moved == IF f.bottom < Len(s) THEN [s EXCEPT ![f.bottom + 1] = Top(g_s)] ELSE s
           kept == IF ~TopBlock(f).catched /\ Len(g_s) # f.bottom + 1
                   THEN interpreter_stack_rollback(moved, f.bottom)
                   ELSE g_s
<1>1. Running /\ GoodFrames(frames) /\ frames # <<>> /\ g_s \in Seq(ValueSet)
  BY InvGood DEF PlayFailed, Running, Good, Machine
<1>2. f.bottom \in Nat /\ f.bottom + 1 \in Nat
  BY <1>1, HeadGood DEF Current, FrameSet
<1>3. s \in Seq(ValueSet)
  BY <1>1, DropTyped
<1>4. g_s # <<>> => Top(g_s) \in ValueSet
  BY <1>1 DEF Top
<1>5. g_s = <<>> => s = <<>>
  BY SubSeqEmpty DEF Drop
<1> HIDE DEF s, f
<1>6. moved \in Seq(ValueSet)
  <2>1. CASE f.bottom < Len(s)
    <3>1. g_s # <<>>
      BY <1>2, <1>5, <2>1
    <3> QED BY <1>2, <1>3, <1>4, <2>1, <3>1, ExceptSeq
  <2>2. CASE ~(f.bottom < Len(s))
    BY <1>3, <2>2
  <2> QED BY <2>1, <2>2
<1>7. kept \in Seq(ValueSet)
  <2> HIDE DEF moved
  <2>1. interpreter_stack_rollback(moved, f.bottom) \in Seq(ValueSet)
    BY <1>2, <1>6, CutTyped DEF interpreter_stack_rollback
  <2> QED BY <1>1, <2>1
<1>8. HANDLE_EXCEPTION(Machine(frames, kept))
  BY DEF PlayFailed, s, f
<1> HIDE DEF kept
<1> QED BY <1>1, <1>7, <1>8, HandleInv DEF Good, Machine

-----------------------------------------------------------------------------
\* The invariant holds of every behaviour of every program.
THEOREM Invariant == Spec => []Inv
<1>1. Init => Inv
  <2> SUFFICES ASSUME Init PROVE Inv
    OBVIOUS
  <2>1. code \in Codes /\ Global \in DOMAIN code
    BY CodesAssumption DEF Init
  <2>2. GoodFrame(frame_new(Global, 0))
    BY <2>1, FrameNewGood
  <2>3. TypeOK
    BY <2>1, <2>2 DEF Init, TypeOK, GoodFrame, Statuses
  <2>4. CatchedExact
    BY <2>2 DEF Init, CatchedExact, CatchedIn, GoodFrame, ExactBlocks
  <2> QED BY <2>1, <2>3, <2>4 DEF Inv, Init, PlaysLive
<1>2. Inv /\ [Next]_vars => Inv'
  <2> SUFFICES ASSUME Inv, [Next]_vars PROVE Inv'
    OBVIOUS
  <2>1. CASE LoadConst \/ LoadVar \/ Add \/ MakeVec \/ PopStack \/ StoreLocal
    BY <2>1, SimpleSteps
  <2>2. CASE CallFunc
    BY <2>2, CallFuncStep
  <2>3. CASE PlayFailed
    BY <2>3, PlayFailedStep
  <2>4. CASE BindArgs
    BY <2>4, BindArgsStep
  <2>5. CASE EnterBlock \/ LeaveBlock \/ PushBlocks \/ PopBlocks \/ StoreException
    BY <2>5, BlockSteps
  <2>6. CASE Jump \/ JumpIf \/ JumpCase \/ JumpDefault
    BY <2>6, JumpSteps
  <2>7. CASE Return \/ EndProgram \/ FallOff \/ NoFrame
    BY <2>7, ReturnSteps
  <2>8. CASE UNCHANGED vars
    BY <2>8, InvGood, GoodInv DEF vars, Inv, TypeOK, PlaysLive, Good, Machine
  <2> QED BY <2>1, <2>2, <2>3, <2>4, <2>5, <2>6, <2>7, <2>8 DEF Next
<1> QED BY <1>1, <1>2, PTL DEF Spec

\* The machine keeps its types, whatever the program (TypeOK of every run).
THEOREM TypeCorrect == Spec => []TypeOK
<1>1. Inv => TypeOK
  BY DEF Inv
<1> QED BY <1>1, Invariant, PTL

\* The flag catched is exact for every program, however deep its blocks,
\* tries and calls are nested and whatever jumps it makes.
THEOREM CatchedIsExact == Spec => []CatchedExact
<1>1. Inv => CatchedExact
  BY DEF Inv
<1> QED BY <1>1, Invariant, PTL

-----------------------------------------------------------------------------
(***************************************************************************)
(* The inductive invariant.                                                *)
(***************************************************************************)
N(f) == Note(code[f.code])

\* A frame has the blocks of its position; a try knows the operands it began with.
LaidAt(f, p) ==
    LET n == N(f)
    IN  /\ p \in n.at
        /\ Len(f.blocks) = Len(n.nest[p])
        /\ \A i \in DOMAIN f.blocks :
              /\ f.blocks[i].out = n.nest[p][i]
              /\ f.blocks[i].out > 0 => f.blocks[i].bottom = f.bottom + n.height[f.blocks[i].out + 1]
Laid(f) == LaidAt(f, f.esp)

\* The operand stack at a frame's position, and below the result it waits for.
Height(f) == f.bottom + N(f).height[f.esp]
Below(f) == Height(f) - 1
Called(f) == f.esp > 0 /\ f.esp - 1 \in N(f).at /\ Ops(f)[f.esp].op = "CALL_FUNC"
Arg(f) == IF code[f.code].args THEN 1 ELSE 0

Binding(f) == f.esp = 0 /\ code[f.code].args
AtCall(f) == f.esp < Len(Ops(f)) /\ Ops(f)[f.esp + 1].op = "CALL_FUNC"
Passing(f) == AtCall(f) /\ Given(Ops(f), f.esp)

\* A function that would bind what is not its argument: it was called without any,
\* or has jumped to its beginning.  It fails at once.
VecOnTop(s) == s # <<>> /\ Top(s).type = "vec"
Stray(f, s) == Binding(f) /\ ~VecOnTop(s)

\* An argument vec is only where it is bound.  An exception stays on the stack only
\* where a stray function has left it.
Odd == IF CallsBind(code) THEN {"vec", "exception"} ELSE {"vec"}
Values(f, s) ==
    /\ \A j \in DOMAIN s : s[j].type \in Odd =>
          j = Len(s) /\ s[j].type = "vec" /\ (Binding(f) \/ Passing(f))
    /\ Passing(f) => VecOnTop(s)
    /\ CallsBind(code) /\ AtCall(f) /\ ~Passing(f) =>
          s # <<>> /\ Top(s) \in {Obj, Func(Ops(f)[f.esp].name)}

\* The frames that wait for a call, innermost first, and the one that runs.
Under(ts) ==
    /\ \A k \in DOMAIN ts : Laid(ts[k]) /\ Called(ts[k]) /\ ts[k].bottom >= Arg(ts[k])
    /\ \A k \in 2 .. Len(ts) : ts[k - 1].bottom = Below(ts[k]) + Arg(ts[k - 1])

OnTop(f, ts, s) ==
    IF Stray(f, s)
    THEN /\ ~CallsBind(code)
         /\ ts # <<>> => Len(s) = Below(Head(ts)) /\ f.bottom >= Below(Head(ts))
    ELSE /\ Len(s) = Height(f) /\ f.bottom >= Arg(f)
         /\ ts # <<>> => f.bottom = Below(Head(ts)) + Arg(f)

Over(f, ts, s) == Laid(f) /\ Values(f, s) /\ OnTop(f, ts, s)

Order(fs, s) == fs # <<>> => Under(Tail(fs)) /\ Over(Head(fs), Tail(fs), s)

\* Who has failed is in no try: it never goes on.
Uncaught(fs) == fs = <<>> \/ ~IsCatched(Head(fs).blocks)

Keeps == /\ status = "run" => Order(frames, g_s)
         /\ status = "failed" => Uncaught(frames)

-----------------------------------------------------------------------------
(***************************************************************************)
(* Codes and frames.                                                       *)
(***************************************************************************)
LEMMA CodeFits ==
    ASSUME code \in Codes, NEW f \in FrameSet
    PROVE  /\ Fits(code[f.code], N(f)) /\ ReadsAs(code[f.code], N(f))
           /\ Ops(f) = code[f.code].ops /\ Ops(f) \in Seq(OpcodeSet)
           /\ code[f.code].args \in BOOLEAN
           /\ f.esp \in Nat /\ f.bottom \in Nat /\ f.blocks \in Seq(BlockSet) /\ f.code \in DOMAIN code
           /\ N(f).at \subseteq 0 .. Len(Ops(f))
           /\ N(f).nest \in [N(f).at -> Seq(Nat)]
           /\ N(f).height \in [N(f).at -> Int]
<1>1. f.esp \in Nat /\ f.bottom \in Nat /\ f.blocks \in Seq(BlockSet) /\ f.code \in DOMAIN code
  BY DEF FrameSet
<1>2. code[f.code].ops \in Seq(OpcodeSet) /\ code[f.code].args \in BOOLEAN
  BY <1>1, CodesAssumption
<1>3. Fits(code[f.code], N(f)) /\ ReadsAs(code[f.code], N(f))
  BY <1>1, LayoutAssumption DEF N
<1>4. /\ N(f).at \subseteq 0 .. Len(Ops(f))
      /\ N(f).nest \in [N(f).at -> Seq(Nat)]
      /\ N(f).height \in [N(f).at -> Int]
  BY <1>3 DEF Fits, Ops
<1> QED BY <1>1, <1>2, <1>3, <1>4 DEF Ops

LEMMA DropProperties ==
    ASSUME NEW s \in Seq(ValueSet), NEW n \in 0 .. Len(s)
    PROVE  /\ Drop(s, n) \in Seq(ValueSet) /\ Len(Drop(s, n)) = Len(s) - n
           /\ \A j \in 1 .. Len(s) - n : Drop(s, n)[j] = s[j]
<1>1. CASE n = Len(s)
  <2>1. SubSeq(s, 1, Len(s) - n) = <<>>
    BY <1>1, SubSeqEmpty
  <2> QED BY <1>1, <2>1 DEF Drop
<1>2. CASE n < Len(s)
  <2>1. Len(s) - n \in 1 .. Len(s)
    BY <1>2
  <2> QED BY <2>1, SubSeqProperties DEF Drop
<1> QED BY <1>1, <1>2

LEMMA CutProperties ==
    ASSUME NEW s \in Seq(ValueSet), NEW n \in 0 .. Len(s)
    PROVE  /\ Cut(s, n) \in Seq(ValueSet) /\ Len(Cut(s, n)) = n
           /\ \A j \in 1 .. n : Cut(s, n)[j] = s[j]
<1>1. CASE n = Len(s)
  BY <1>1 DEF Cut
<1>2. CASE n < Len(s)
  <2>1. CASE n = 0
    <3>1. SubSeq(s, 1, 0) = <<>>
      BY SubSeqEmpty
    <3> QED BY <1>2, <2>1, <3>1 DEF Cut
  <2>2. CASE n # 0
    <3>1. n \in 1 .. Len(s)
      BY <1>2, <2>2
    <3> QED BY <1>2, <3>1, SubSeqProperties DEF Cut
  <2> QED BY <2>1, <2>2
<1> QED BY <1>1, <1>2

-----------------------------------------------------------------------------
(***************************************************************************)
(* What holds at an opcode.                                                *)
(***************************************************************************)
C == code[Current.code]
NoOdd(s) == \A j \in DOMAIN s : s[j].type \notin Odd

LEMMA AtPosition ==
    ASSUME Inv, Order(frames, g_s), NEW op, AtOpcode(op)
    PROVE  /\ Current \in FrameSet /\ frames \in Seq(FrameSet) /\ frames # <<>>
           /\ Current.esp \in N(Current).at /\ Current.esp \in Nat /\ Current.esp < Len(C.ops)
           /\ C.ops \in Seq(OpcodeSet) /\ C.args \in BOOLEAN /\ Ops(Current) = C.ops
           /\ Opcode = C.ops[Current.esp + 1] /\ Opcode.op = op /\ Opcode.para \in Nat
           /\ Flows(C, N(Current), Current.esp)
           /\ Catches(C, N(Current), Current.esp)
           /\ Operands(C, N(Current), Current.esp)
           /\ N(Current).nest[Current.esp] \in Seq(Nat) /\ N(Current).height[Current.esp] \in Int
           /\ Current.bottom \in Nat /\ Current.blocks \in Seq(BlockSet)
           /\ Under(Tail(frames)) /\ Over(Current, Tail(frames), g_s)
           /\ g_s \in Seq(ValueSet)
           /\ status = "run" /\ code \in Codes
<1>1. /\ frames # <<>> /\ Current \in FrameSet /\ Opcode \in OpcodeSet /\ g_s \in Seq(ValueSet)
      /\ Opcode.para \in Nat /\ status = "run" /\ code \in Codes /\ frames \in Seq(FrameSet)
  BY AtOpcodeGood DEF Inv, AtOpcode, GoodFrames
<1>2. /\ Fits(C, N(Current)) /\ Ops(Current) = C.ops /\ C.ops \in Seq(OpcodeSet)
      /\ C.args \in BOOLEAN /\ Current.esp \in Nat /\ Current.bottom \in Nat
      /\ Current.blocks \in Seq(BlockSet)
      /\ N(Current).nest \in [N(Current).at -> Seq(Nat)]
      /\ N(Current).height \in [N(Current).at -> Int]
  BY <1>1, CodeFits DEF C
<1>3. Current.esp < Len(C.ops) /\ Opcode = C.ops[Current.esp + 1] /\ Opcode.op = op
  BY <1>2 DEF AtOpcode, Opcode
<1>4. Under(Tail(frames)) /\ Over(Current, Tail(frames), g_s)
  BY <1>1 DEF Order, Current
<1>5. Current.esp \in N(Current).at
  BY <1>4 DEF Over, Laid, LaidAt
<1>6. Current.esp \in N(Current).at \ {Len(C.ops)}
  BY <1>2, <1>3, <1>5
<1>7. /\ Flows(C, N(Current), Current.esp)
      /\ Catches(C, N(Current), Current.esp)
      /\ Operands(C, N(Current), Current.esp)
  BY <1>2, <1>6 DEF Fits
<1>8. N(Current).nest[Current.esp] \in Seq(Nat) /\ N(Current).height[Current.esp] \in Int
  BY <1>2, <1>5
<1> QED BY <1>1, <1>2, <1>3, <1>4, <1>5, <1>7, <1>8

LEMMA TakesTyped ==
    ASSUME NEW ops \in Seq(OpcodeSet), NEW p \in Nat, p < Len(ops)
    PROVE  Takes(ops, p) \in Nat
<1>1. ops[p + 1] \in OpcodeSet
  OBVIOUS
<1>2. ops[p + 1].para \in Nat
  BY <1>1 DEF OpcodeSet
<1> QED BY <1>2 DEF Takes

\* At most opcodes the operands are the frame's own and no vec is among them.
LEMMA Ordinary ==
    ASSUME Inv, Order(frames, g_s), NEW op, AtOpcode(op), op \notin {"BIND_ARGS", "CALL_FUNC"}
    PROVE  /\ NoOdd(g_s) /\ Len(g_s) = Height(Current) /\ Current.bottom >= Arg(Current)
           /\ Tail(frames) # <<>> => Current.bottom = Below(Head(Tail(frames))) + Arg(Current)
<1>1. ~Binding(Current)
  BY AtPosition DEF Operands, Binding, C
<1>2. ~Passing(Current)
  BY AtPosition DEF Passing, AtCall
<1>3. ~Stray(Current, g_s)
  BY <1>1 DEF Stray
<1>4. Values(Current, g_s) /\ OnTop(Current, Tail(frames), g_s)
  BY AtPosition DEF Over
<1> QED BY <1>1, <1>2, <1>3, <1>4 DEF Values, OnTop, NoOdd

\* A frame that goes on where its code has a layout, with the operands of that place.
LEMMA GoesOn ==
    ASSUME frames \in Seq(FrameSet), frames # <<>>, Under(Tail(frames)),
           Current.bottom >= Arg(Current),
           Tail(frames) # <<>> => Current.bottom = Below(Head(Tail(frames))) + Arg(Current),
           NEW f \in FrameSet, f.code = Current.code, f.bottom = Current.bottom, Laid(f), ~Binding(f),
           NEW s, Len(s) = Height(f), Values(f, s)
    PROVE  Order(With(f, s).frames, With(f, s).g_s)
<1>1. With(f, s).frames = <<f>> \o Tail(frames) /\ With(f, s).g_s = s
  BY DEF With, Machine
<1>2. Head(<<f>> \o Tail(frames)) = f /\ Tail(<<f>> \o Tail(frames)) = Tail(frames)
  OBVIOUS
<1>3. ~Stray(f, s) /\ Arg(f) = Arg(Current)
  BY DEF Stray, Arg
<1>4. OnTop(f, Tail(frames), s)
  BY <1>3 DEF OnTop
<1> QED BY <1>1, <1>2, <1>4 DEF Order, Over

\* Behind an opcode that leaves the blocks alone.
LEMMA PlainNext ==
    ASSUME Inv, Order(frames, g_s), NEW op \in Plain, AtOpcode(op),
           Current.bottom >= Arg(Current),
           Tail(frames) # <<>> => Current.bottom = Below(Head(Tail(frames))) + Arg(Current),
           NEW s, Values(Advanced, s),
           Len(s) = Height(Current) - Takes(C.ops, Current.esp) + Leaves(Opcode)
    PROVE  Order(Next1(s).frames, Next1(s).g_s)
<1> DEFINE n == N(Current)
           p == Current.esp
<1>1. /\ Advanced \in FrameSet /\ Advanced.blocks = Current.blocks
      /\ Advanced.esp = p + 1 /\ Advanced.code = Current.code /\ Advanced.bottom = Current.bottom
  BY AtOpcodeGood DEF Advanced, FrameSet
<1>2. Arrives(n, p + 1, n.nest[p], n.height[p] - Takes(C.ops, p) + Leaves(Opcode))
  BY AtPosition DEF Flows
<1>3. Laid(Current)
  BY AtPosition DEF Over
<1>4. N(Advanced) = n
  BY <1>1 DEF N
<1>5. Laid(Advanced)
  BY <1>1, <1>2, <1>3, <1>4 DEF Laid, LaidAt, Arrives
<1>6. Takes(C.ops, p) \in Nat /\ Leaves(Opcode) \in Nat
  BY AtPosition, TakesTyped DEF Leaves
<1>7. Len(s) = Height(Advanced)
  BY <1>1, <1>2, <1>4, <1>6, AtPosition DEF Height, Arrives
<1>8. ~Binding(Advanced)
  BY <1>1, AtPosition DEF Binding
<1> QED BY <1>1, <1>5, <1>7, <1>8, AtPosition, GoesOn DEF Next1

\* The operands of an opcode are there, and those below them are not its frame's last.
LEMMA Enough ==
    ASSUME Inv, Order(frames, g_s), NEW op, AtOpcode(op), ~Stray(Current, g_s)
    PROVE  /\ Takes(C.ops, Current.esp) \in Nat
           /\ Len(g_s) = Height(Current) /\ Height(Current) \in Int
           /\ Len(g_s) - Takes(C.ops, Current.esp) >= Current.bottom - Arg(Current)
           /\ Current.bottom >= Arg(Current) /\ Arg(Current) \in {0, 1}
           /\ Tail(frames) # <<>> => Current.bottom = Below(Head(Tail(frames))) + Arg(Current)
<1>1. Len(g_s) = Height(Current) /\ Current.bottom >= Arg(Current)
      /\ (Tail(frames) # <<>> => Current.bottom = Below(Head(Tail(frames))) + Arg(Current))
  BY AtPosition DEF Over, OnTop
<1>2. Takes(C.ops, Current.esp) \in Nat
  BY AtPosition, TakesTyped
<1>3. Height(Current) = Current.bottom + N(Current).height[Current.esp]
  BY DEF Height
<1>4. N(Current).height[Current.esp] - Takes(C.ops, Current.esp) >= Ground(C)
  BY AtPosition DEF Operands
<1>5. Ground(C) = 0 - Arg(Current) /\ Arg(Current) \in {0, 1}
  BY AtPosition DEF Ground, Arg, C
<1> QED BY <1>1, <1>2, <1>3, <1>4, <1>5, AtPosition

\* What a call without arguments finds on top was loaded right before it.
LEMMA CalledByName ==
    ASSUME code \in Codes, CallsBind(code), NEW f \in FrameSet, f.esp \in N(f).at,
           AtCall(f), ~Passing(f)
    PROVE  /\ f.esp > 0 /\ Ops(f)[f.esp].op \in {"LOAD_VAR", "LOAD_CONST"}
           /\ Ops(f)[f.esp].name \in DOMAIN code => ~code[Ops(f)[f.esp].name].args
<1>1. f.code \in DOMAIN code /\ Ops(f) = code[f.code].ops
  BY CodeFits
<1>2. f.esp \in Note(code[f.code]).at \ {Len(code[f.code].ops)}
  BY <1>1, CodeFits DEF N, AtCall
<1>3. ~Given(code[f.code].ops, f.esp) /\ code[f.code].ops[f.esp + 1].op = "CALL_FUNC"
  BY <1>1 DEF Passing, AtCall
<1> QED BY <1>1, <1>2, <1>3 DEF CallsBind

\* Where nobody calls, no operand is told apart.
LEMMA ValuesAway ==
    ASSUME NEW f, ~AtCall(f), NEW s, NoOdd(s)
    PROVE  Values(f, s)
BY DEF Values, Passing, NoOdd

\* Behind an opcode that is not MAKE_VEC a call has no argument vec.
LEMMA ValuesNext ==
    ASSUME Inv, Order(frames, g_s), NEW op, AtOpcode(op), op # "MAKE_VEC",
           NEW f \in FrameSet, f.code = Current.code, f.esp = Current.esp + 1, f.esp \in N(f).at,
           NEW s, NoOdd(s),
           op \in {"LOAD_CONST", "LOAD_VAR"} => s # <<>> /\ Top(s) \in {Obj, Func(Opcode.name)}
    PROVE  Values(f, s)
<1>1. Ops(f) = C.ops /\ Ops(f)[f.esp] = Opcode /\ Opcode.op = op /\ code \in Codes
  BY AtPosition DEF Ops, C
<1>2. ~Passing(f)
  BY <1>1 DEF Passing, Given
<1>3. ASSUME CallsBind(code), AtCall(f)
      PROVE  s # <<>> /\ Top(s) \in {Obj, Func(Ops(f)[f.esp].name)}
  <2>1. op \in {"LOAD_CONST", "LOAD_VAR"}
    BY <1>1, <1>2, <1>3, CalledByName
  <2> QED BY <1>1, <2>1
<1> QED BY <1>2, <1>3 DEF Values, NoOdd

-----------------------------------------------------------------------------
(***************************************************************************)
(* Ways a step may end.                                                    *)
(***************************************************************************)
\* The order of frames and stack depends on nothing else that a step changes.
LEMMA Carried ==
    ASSUME code' = code, Order(frames', g_s')
    PROVE  Order(frames, g_s)'
BY DEF Order, Under, Over, OnTop, Stray, VecOnTop, Values, Odd, Laid, LaidAt, Called, Arg, Binding,
       AtCall, Passing, Height, Below, N, Ops, Top

LEMMA ContinueKeeps ==
    ASSUME NEW m, Continue(m), Order(m.frames, m.g_s)
    PROVE  Keeps'
<1>1. frames' = m.frames /\ g_s' = m.g_s /\ code' = code /\ status' = "run"
  BY DEF Continue, Becomes
<1>2. Order(frames, g_s)'
  BY <1>1, Carried
<1> QED BY <1>1, <1>2 DEF Keeps

LEMMA CrashKeeps ==
    ASSUME Crash
    PROVE  Keeps'
BY DEF Crash, Keeps

LEMMA ReturnKeeps ==
    ASSUME NEW m, PlayReturns(m, 1), Order(m.frames, m.g_s)
    PROVE  Keeps'
<1>1. frames' = m.frames /\ g_s' = m.g_s /\ code' = code /\ status' \in {"run", "ended"}
  BY DEF PlayReturns, Becomes
<1>2. Order(frames, g_s)'
  BY <1>1, Carried
<1> QED BY <1>1, <1>2 DEF Keeps

LEMMA HandleKeeps ==
    ASSUME NEW m, HANDLE_EXCEPTION(m),
           Recoverable(m) => Order(interpreter_recover_exception(m).frames,
                                   interpreter_recover_exception(m).g_s)
    PROVE  Keeps'
<1>1. CASE Recoverable(m) /\ Continue(interpreter_recover_exception(m))
  BY <1>1, ContinueKeeps
<1>2. CASE Crash
  BY <1>2, CrashKeeps
<1>3. CASE ~Recoverable(m) /\ PlayReturns(m, 0)
  <2>1. frames' = m.frames /\ status' \in {"failed", "ended"}
    BY <1>3 DEF PlayReturns, Becomes
  <2>2. Uncaught(frames)'
    BY <1>3, <2>1 DEF Uncaught, Recoverable, IsCatched
  <2> QED BY <2>1, <2>2 DEF Keeps
<1> QED BY <1>1, <1>2, <1>3 DEF HANDLE_EXCEPTION

-----------------------------------------------------------------------------
(***************************************************************************)
(* Errors.                                                                 *)
(***************************************************************************)
\* A frame over those that wait, as the frames are of a stack in order.
Seated(f, ts) ==
    /\ Under(ts) /\ f.bottom >= Arg(f)
    /\ ts # <<>> => f.bottom = Below(Head(ts)) + Arg(f)

\* What the opcode at p leaves of the stack when it fails: what was below its operands.
Floor(f, p) == f.bottom + N(f).height[p] - Takes(Ops(f), p)
Spares(s, n) == Len(s) >= n /\ \A j \in DOMAIN s : j <= n => s[j].type \notin Odd

LEMMA InOrder ==
    ASSUME NEW ts \in Seq(FrameSet), NEW f, Seated(f, ts), Laid(f), ~Binding(f), NEW s, Len(s) = Height(f), Values(f, s)
    PROVE  Order(<<f>> \o ts, s)
<1>1. ~Stray(f, s) /\ Head(<<f>> \o ts) = f /\ Tail(<<f>> \o ts) = ts
  BY DEF Stray
<1>2. OnTop(f, ts, s)
  BY <1>1 DEF OnTop, Seated
<1> QED BY <1>1, <1>2 DEF Order, Over, Seated

\* The innermost try's handler is where the code has it, with the blocks around the try
\* and the operands the try began with (frame_recover_exception against block_t's bottom).
LEMMA Handler ==
    ASSUME code \in Codes, NEW f, GoodFrame(f), IsCatched(f.blocks),
           NEW p \in N(f).at, p < Len(Ops(f)), LaidAt(f, p)
    PROVE  LET h == frame_recover_exception(f)
               i == InnermostTry(f)
           IN  /\ GoodFrame(h) /\ h.code = f.code /\ h.bottom = f.bottom
               /\ i \in DOMAIN f.blocks /\ f.blocks[i] \in BlockSet
               /\ h.esp = f.blocks[i].out + 1 /\ h.esp > 0
               /\ Laid(h) /\ ~AtCall(h)
               /\ f.blocks[i].bottom = Height(h)
               /\ Height(h) <= Floor(f, p)
<1> DEFINE h == frame_recover_exception(f)
           i == InnermostTry(f)
           b == f.blocks
           n == N(f)
           q == n.nest[p]
<1>1. f \in FrameSet /\ b \in Seq(BlockSet)
  BY DEF GoodFrame, FrameSet
<1>2. GoodFrame(h) /\ i \in DOMAIN b /\ b[i].out > 0
  BY RecoverGood
<1>3. b[i] \in BlockSet /\ b[i].out \in Nat /\ b[i].bottom \in Nat
  BY <1>1, <1>2, BlockTyped
<1>4. /\ h.code = f.code /\ h.bottom = f.bottom /\ h.esp = b[i].out + 1
      /\ h.blocks = SubSeq(b, i + 1, Len(b))
  BY <1>1 DEF frame_recover_exception, FrameSet
<1>5. Catches(code[f.code], n, p) /\ Ops(f) = code[f.code].ops /\ q \in Seq(Nat)
  BY <1>1, CodeFits DEF Fits
<1>6. Len(b) = Len(q) /\ b[i].out = q[i] /\ b[i].bottom = f.bottom + n.height[b[i].out + 1]
      /\ i \in DOMAIN q
  BY <1>1, <1>2, <1>5 DEF LaidAt
<1>7. /\ q[i] + 1 \in n.at
      /\ n.nest[q[i] + 1] = SubSeq(q, i + 1, Len(q))
      /\ n.height[q[i] + 1] <= n.height[p] - Takes(Ops(f), p)
      /\ q[i] + 1 < Len(Ops(f)) => Ops(f)[q[i] + 2].op # "CALL_FUNC"
  BY <1>2, <1>5, <1>6 DEF Catches
<1>8. N(h) = n /\ Ops(h) = Ops(f)
  BY <1>4 DEF N, Ops
<1>9. /\ Len(h.blocks) = Len(b) - i
      /\ \A j \in 1 .. Len(b) - i : h.blocks[j] = b[i + j]
  <2> HIDE DEF i, b
  <2> QED BY <1>1, <1>2, <1>4
<1>10. /\ Len(SubSeq(q, i + 1, Len(q))) = Len(b) - i
       /\ \A j \in 1 .. Len(b) - i : SubSeq(q, i + 1, Len(q))[j] = q[i + j]
  <2>1. i + 1 \in 1 .. Len(q) + 1 /\ q \in Seq(Nat) /\ Len(b) = Len(q) /\ i \in 1 .. Len(q)
    BY <1>5, <1>6
  <2> HIDE DEF i, b, q
  <2>2. \A j \in i + 1 .. Len(q) : q[j] \in Nat
    BY <2>1
  <2>3. /\ Len(SubSeq(q, i + 1, Len(q))) = IF i + 1 <= Len(q) THEN Len(q) - (i + 1) + 1 ELSE 0
        /\ \A j \in 1 .. Len(q) - (i + 1) + 1 : SubSeq(q, i + 1, Len(q))[j] = q[(i + 1) + j - 1]
    <3>1. i + 1 \in Int /\ Len(q) \in Int
      BY <2>1
    <3> QED BY <3>1, <2>2, SubSeqProperties
  <2>4. \A j \in 1 .. Len(b) - i : (i + 1) + j - 1 = i + j
    BY <2>1
  <2> QED BY <2>1, <2>3, <2>4
<1>11. h.blocks \in Seq(BlockSet)
  BY <1>2 DEF GoodFrame, FrameSet
<1>12. Laid(h)
  <2>1. h.esp \in N(h).at /\ N(h).nest[h.esp] = SubSeq(q, i + 1, Len(q))
    BY <1>4, <1>6, <1>7, <1>8
  <2>2. ASSUME NEW j \in DOMAIN h.blocks
        PROVE  /\ h.blocks[j].out = N(h).nest[h.esp][j]
               /\ h.blocks[j].out > 0 => h.blocks[j].bottom = h.bottom + N(h).height[h.blocks[j].out + 1]
    <3>1. j \in 1 .. Len(b) - i /\ i + j \in DOMAIN b
      BY <1>1, <1>2, <1>9, <1>11
    <3>2. b[i + j].out = q[i + j]
          /\ (b[i + j].out > 0 => b[i + j].bottom = f.bottom + n.height[b[i + j].out + 1])
      BY <3>1 DEF LaidAt
    <3> HIDE DEF h, i, b, q, n
    <3> QED BY <1>4, <1>8, <1>9, <1>10, <2>1, <3>1, <3>2
  <2> HIDE DEF h, i, b, q, n
  <2> QED BY <1>9, <1>10, <2>1, <2>2 DEF Laid, LaidAt
<1>13. ~AtCall(h)
  <2> HIDE DEF h
  <2> QED BY <1>3, <1>4, <1>6, <1>7, <1>8 DEF AtCall
<1>14. b[i].bottom = Height(h) /\ Height(h) <= Floor(f, p)
  <2>1. /\ n.height[p] \in Int /\ n.height[q[i] + 1] \in Int /\ f.bottom \in Int
        /\ Takes(Ops(f), p) \in Nat
    <3>1. p \in Nat
      BY <1>1, CodeFits
    <3> QED BY <1>1, <1>7, <3>1, CodeFits, TakesTyped
  <2>2. Height(h) = f.bottom + n.height[q[i] + 1]
    <3> HIDE DEF h, n, q
    <3> QED BY <1>4, <1>6, <1>8 DEF Height
  <2>3. Floor(f, p) = f.bottom + n.height[p] - Takes(Ops(f), p)
    BY DEF Floor
  <2> HIDE DEF h, i, b, q, n
  <2> QED BY <1>6, <1>7, <2>1, <2>2, <2>3
<1> QED BY <1>2, <1>3, <1>4, <1>12, <1>13, <1>14

\* A frame that recovers is in order again.
LEMMA RecoverKeeps ==
    ASSUME code \in Codes, NEW f, GoodFrame(f), NEW ts \in Seq(FrameSet), IsCatched(f.blocks),
           NEW p \in N(f).at, p < Len(Ops(f)), LaidAt(f, p), Seated(f, ts),
           NEW s \in Seq(ValueSet), Spares(s, Floor(f, p))
    PROVE  Order(interpreter_recover_exception(Machine(<<f>> \o ts, s)).frames,
                 interpreter_recover_exception(Machine(<<f>> \o ts, s)).g_s)
<1> DEFINE top == s[Len(s)]
           g == IF s # <<>> /\ top.type = "exception" THEN frame_set_exception(f, top) ELSE f
           h == frame_recover_exception(g)
           i == InnermostTry(g)
           r == Cut(s, g.blocks[i].bottom)
<1>1. /\ GoodFrame(g) /\ g.blocks = f.blocks /\ g.code = f.code /\ g.bottom = f.bottom
      /\ g \in FrameSet
  <2>1. CASE s # <<>> /\ top.type = "exception"
    <3>1. top \in ValueSet
      BY <2>1
    <3> HIDE DEF top
    <3> QED BY <2>1, <3>1 DEF frame_set_exception, GoodFrame, FrameSet
  <2>2. CASE ~(s # <<>> /\ top.type = "exception")
    BY <2>2 DEF GoodFrame
  <2> QED BY <2>1, <2>2
<1>2. interpreter_recover_exception(Machine(<<f>> \o ts, s)) = Machine(<<h>> \o ts, r)
  <2>1. Machine(<<f>> \o ts, s).g_s = s /\ Machine(<<f>> \o ts, s).frames = <<f>> \o ts
    BY DEF Machine
  <2>2. Head(<<f>> \o ts) = f /\ Tail(<<f>> \o ts) = ts
    OBVIOUS
  <2> QED BY <2>1, <2>2 DEF interpreter_recover_exception
<1> HIDE DEF g
<1>3. N(g) = N(f) /\ Ops(g) = Ops(f) /\ Arg(g) = Arg(f)
  BY <1>1 DEF N, Ops, Arg
<1>4. LaidAt(g, p) /\ Floor(g, p) = Floor(f, p)
  BY <1>1, <1>3 DEF LaidAt, Floor
<1>5. /\ GoodFrame(h) /\ h.code = f.code /\ h.bottom = f.bottom /\ h.esp > 0
      /\ g.blocks[i].bottom \in Nat
      /\ Laid(h) /\ ~AtCall(h)
      /\ g.blocks[i].bottom = Height(h)
      /\ Height(h) <= Floor(f, p)
  BY <1>1, <1>3, <1>4, Handler DEF BlockSet
<1> HIDE DEF h, i
<1>6. Floor(f, p) \in Int
  <2>1. p \in Nat /\ f \in FrameSet
    BY CodeFits DEF GoodFrame
  <2> QED BY <2>1, CodeFits, TakesTyped DEF Floor
<1>7. /\ r \in Seq(ValueSet) /\ Len(r) = Height(h)
      /\ \A j \in 1 .. Height(h) : r[j] = s[j]
  <2>1. g.blocks[i].bottom \in 0 .. Len(s)
    BY <1>5, <1>6 DEF Spares
  <2> QED BY <1>5, <2>1, CutProperties
<1>8. NoOdd(r)
  <2>1. ASSUME NEW j \in DOMAIN r PROVE r[j].type \notin Odd
    <3>1. j \in 1 .. Height(h) /\ j \in DOMAIN s /\ j <= Floor(f, p)
      BY <1>5, <1>6, <1>7 DEF Spares
    <3> QED BY <1>7, <3>1 DEF Spares
  <2> QED BY <2>1 DEF NoOdd
<1> HIDE DEF r
<1>9. Values(h, r) /\ ~Binding(h)
  BY <1>5, <1>8, ValuesAway DEF Binding
<1>10. Seated(h, ts)
  BY <1>5 DEF Seated, Arg
<1>11. Order(<<h>> \o ts, r)
  BY <1>5, <1>7, <1>9, <1>10, InOrder
<1>12. Machine(<<h>> \o ts, r).frames = <<h>> \o ts /\ Machine(<<h>> \o ts, r).g_s = r
  BY DEF Machine
<1> QED BY <1>2, <1>11, <1>12

\* A frame that waits for a call fails as its call.
LEMMA Waiting ==
    ASSUME code \in Codes, NEW ts \in Seq(FrameSet), ts # <<>>, Under(ts)
    PROVE  LET g == Head(ts)
               p == g.esp - 1
           IN  /\ g \in FrameSet /\ Seated(g, Tail(ts)) /\ Tail(ts) \in Seq(FrameSet)
               /\ p \in N(g).at /\ p \in Nat /\ p < Len(Ops(g)) /\ Ops(g)[p + 1].op = "CALL_FUNC"
               /\ Laid(g) /\ LaidAt(g, p)
               /\ Floor(g, p) = Below(g) /\ Below(g) \in Int
<1> DEFINE g == Head(ts)
           p == g.esp - 1
           n == N(g)
<1>1. g = ts[1] /\ 1 \in DOMAIN ts /\ g \in FrameSet /\ Len(ts) \in Nat
  OBVIOUS
<1>2. Laid(g) /\ Called(g) /\ g.bottom >= Arg(g)
  BY <1>1 DEF Under
<1>3. /\ Tail(ts) \in Seq(FrameSet) /\ Len(Tail(ts)) = Len(ts) - 1
      /\ \A k \in 1 .. Len(ts) - 1 : Tail(ts)[k] = ts[k + 1]
  OBVIOUS
<1>4. Under(Tail(ts))
  <2>1. ASSUME NEW k \in DOMAIN Tail(ts)
        PROVE  Laid(Tail(ts)[k]) /\ Called(Tail(ts)[k]) /\ Tail(ts)[k].bottom >= Arg(Tail(ts)[k])
    <3>1. k \in 1 .. Len(ts) - 1 /\ k + 1 \in DOMAIN ts
      BY <1>3
    <3> QED BY <1>3, <3>1 DEF Under
  <2>2. ASSUME NEW k \in 2 .. Len(Tail(ts))
        PROVE  Tail(ts)[k - 1].bottom = Below(Tail(ts)[k]) + Arg(Tail(ts)[k - 1])
    <3>1. k + 1 \in 2 .. Len(ts) /\ Tail(ts)[k] = ts[k + 1] /\ Tail(ts)[k - 1] = ts[k] /\ k + 1 - 1 = k
      BY <1>1, <1>3
    <3>2. ts[k + 1 - 1].bottom = Below(ts[k + 1]) + Arg(ts[k + 1 - 1])
      BY <3>1 DEF Under
    <3> QED BY <3>1, <3>2
  <2> QED BY <2>1, <2>2 DEF Under
<1>5. ASSUME Tail(ts) # <<>> PROVE g.bottom = Below(Head(Tail(ts))) + Arg(g)
  <2>1. 2 \in 2 .. Len(ts) /\ Head(Tail(ts)) = ts[2] /\ 2 - 1 = 1
    BY <1>1, <1>3, <1>5
  <2>2. ts[2 - 1].bottom = Below(ts[2]) + Arg(ts[2 - 1])
    BY <2>1 DEF Under
  <2> QED BY <1>1, <2>1, <2>2
<1>6. Seated(g, Tail(ts))
  BY <1>2, <1>4, <1>5 DEF Seated
<1>7. /\ p \in n.at /\ Ops(g)[p + 1].op = "CALL_FUNC" /\ g.esp \in n.at /\ g.esp > 0
      /\ g.esp \in Nat /\ n.at \subseteq 0 .. Len(Ops(g))
  <2>1. g.esp \in Nat /\ n.at \subseteq 0 .. Len(Ops(g))
    BY <1>1, CodeFits
  <2> QED BY <1>2, <2>1 DEF Called, Laid, LaidAt
<1>8. p \in Nat /\ p < Len(Ops(g)) /\ p + 1 = g.esp /\ p \in n.at \ {Len(Ops(g))}
  <2>1. Len(Ops(g)) \in Nat
    BY <1>1, CodeFits
  <2> QED BY <1>7, <2>1
<1>9. Flows(code[g.code], n, p) /\ Ops(g) = code[g.code].ops
  BY <1>1, <1>8, CodeFits DEF Fits
<1>10. Arrives(n, g.esp, n.nest[p], n.height[p] - Takes(Ops(g), p) + 1)
  BY <1>7, <1>8, <1>9 DEF Flows, Plain, Leaves
<1>11. LaidAt(g, p)
  BY <1>2, <1>7, <1>10 DEF Laid, LaidAt, Arrives
<1>12. Floor(g, p) = Below(g) /\ Below(g) \in Int
  <2>1. n.height[p] \in Int /\ n.height[g.esp] \in Int /\ g.bottom \in Int /\ Takes(Ops(g), p) \in Int
    BY <1>1, <1>7, <1>8, CodeFits, TakesTyped
  <2> QED BY <1>10, <2>1 DEF Floor, Below, Height, Arrives
<1> QED BY <1>1, <1>2, <1>3, <1>6, <1>7, <1>8, <1>11, <1>12

\* A frame that is left by an error leaves its caller what is below the call.
Yields(f, ts, s) ==
    ts # <<>> =>
        /\ f.bottom >= Below(Head(ts))
        /\ Len(s) >= Below(Head(ts)) - (IF CallsBind(code) THEN 0 ELSE 1)
        /\ \A j \in DOMAIN s : j <= Below(Head(ts)) => s[j].type \notin Odd

\* What the stack is when a frame is left by an error: the exception is its top.
LEMMA Rolled ==
    ASSUME code \in Codes, NEW f \in FrameSet, NEW ts \in Seq(FrameSet), ts # <<>>, Under(ts),
           NEW s \in Seq(ValueSet), Yields(f, ts, s), NEW e \in ValueSet, e.type = "exception"
    PROVE  LET r == interpreter_stack_rollback(
                       IF Len(s) <= f.bottom THEN Append(s, e)
                       ELSE [s EXCEPT ![f.bottom + 1] = e], f.bottom)
           IN  /\ r \in Seq(ValueSet) /\ r # <<>> /\ Top(r) = e
               /\ Spares(r, Below(Head(ts)))
<1> DEFINE b == Below(Head(ts))
           t == IF Len(s) <= f.bottom THEN Append(s, e) ELSE [s EXCEPT ![f.bottom + 1] = e]
           r == interpreter_stack_rollback(t, f.bottom)
           m == IF Len(s) <= f.bottom THEN Len(s) + 1 ELSE f.bottom + 1
<1>1. b \in Int /\ f.bottom \in Nat /\ Len(s) \in Nat
  <2>1. b \in Int
    BY Waiting
  <2> QED BY <2>1 DEF FrameSet
<1>2. /\ t \in Seq(ValueSet) /\ m \in 1 .. Len(t) /\ t[m] = e
      /\ \A j \in 1 .. m - 1 : t[j] = s[j] /\ j \in DOMAIN s
      /\ Len(t) > f.bottom + 1 => m = f.bottom + 1
      /\ Len(t) <= f.bottom + 1 => m = Len(t)
  BY <1>1
<1> HIDE DEF t
<1>3. r \in Seq(ValueSet) /\ Len(r) = m /\ \A j \in 1 .. m : r[j] = t[j]
  <2>1. CASE Len(t) > f.bottom + 1
    <3>1. f.bottom + 1 \in 0 .. Len(t) /\ m = f.bottom + 1
      BY <1>1, <1>2, <2>1
    <3> HIDE DEF m
    <3> QED BY <1>2, <2>1, <3>1, CutProperties DEF interpreter_stack_rollback
  <2>2. CASE Len(t) <= f.bottom + 1
    <3>1. Cut(t, f.bottom + 1) = t
      BY <1>1, <1>2, <2>2 DEF Cut
    <3> HIDE DEF m
    <3> QED BY <1>2, <2>2, <3>1 DEF interpreter_stack_rollback
  <2> QED BY <1>1, <1>2, <2>1, <2>2
<1> HIDE DEF r
<1>4. r # <<>> /\ Top(r) = e
  <2>1. m \in 1 .. m /\ m \in Nat /\ m > 0
    BY <1>1
  <2> HIDE DEF m
  <2> QED BY <1>2, <1>3, <2>1 DEF Top
<1>5. m >= b /\ (CallsBind(code) => m > b)
  BY <1>1 DEF Yields
<1>6. ASSUME NEW j \in DOMAIN r, j <= b PROVE r[j].type \notin Odd
  <2>1. j \in 1 .. m
    BY <1>3
  <2>2. CASE j = m
    <3>1. ~CallsBind(code) /\ r[j] = e
      BY <1>1, <1>2, <1>3, <1>5, <1>6, <2>2
    <3> QED BY <3>1 DEF Odd
  <2>3. CASE j # m
    <3>1. j \in 1 .. m - 1
      BY <1>1, <2>1, <2>3
    <3>2. r[j] = s[j] /\ j \in DOMAIN s
      BY <1>2, <1>3, <3>1
    <3> QED BY <1>6, <3>2 DEF Yields
  <2> QED BY <2>2, <2>3
<1>7. Spares(r, b)
  BY <1>3, <1>5, <1>6 DEF Spares
<1> QED BY <1>3, <1>4, <1>7 DEF r, t

\* What interpreter_set_exception does to a frame in a try, and to any other.
LEMMA Raised ==
    ASSUME NEW f \in FrameSet, NEW ts \in Seq(FrameSet), NEW s \in Seq(ValueSet), NEW e \in ValueSet,
           ~Dangling(Machine(<<f>> \o ts, s))
    PROVE  /\ IsCatched(f.blocks) =>
                 interpreter_set_exception(Machine(<<f>> \o ts, s), e) =
                    Machine(<<frame_set_exception(f, e)>> \o ts, s)
           /\ ~IsCatched(f.blocks) =>
                 interpreter_set_exception(Machine(<<f>> \o ts, s), e) =
                    Machine(ts, interpreter_stack_rollback(
                                   IF Len(s) <= f.bottom THEN Append(s, e)
                                   ELSE [s EXCEPT ![f.bottom + 1] = e], f.bottom))
<1> DEFINE m == Machine(<<f>> \o ts, s)
<1>1. m.frames = <<f>> \o ts /\ m.g_s = s /\ Head(<<f>> \o ts) = f /\ Tail(<<f>> \o ts) = ts
  BY DEF Machine
<1>2. f.blocks # <<>>
  BY <1>1 DEF Dangling
<1>3. IsCatched(f.blocks) <=> TopBlock(f).catched
  BY <1>2 DEF IsCatched, TopBlock
<1>4. \A fs : [m EXCEPT !.frames = fs] = Machine(fs, s)
  BY DEF Machine
<1> HIDE DEF m
<1> QED BY <1>1, <1>3, <1>4 DEF interpreter_set_exception, m

LEMMA HereIs == Here.type = "exception"
BY DEF Here, Exception, Value

LEMMA SetGood ==
    ASSUME NEW f, GoodFrame(f), NEW e \in ValueSet
    PROVE  LET g == frame_set_exception(f, e)
           IN  /\ GoodFrame(g) /\ g.blocks = f.blocks /\ g.code = f.code /\ g.bottom = f.bottom
               /\ g.esp = f.esp /\ g.exception = e
BY DEF frame_set_exception, GoodFrame, FrameSet

LEMMA RaiseKeeps ==
    ASSUME code \in Codes, Here \in ValueSet, NEW f, GoodFrame(f),
           NEW ts, GoodFrames(ts), Under(ts), NEW s \in Seq(ValueSet),
           Fail(Machine(<<f>> \o ts, s)), Yields(f, ts, s),
           NEW p \in N(f).at, p < Len(Ops(f)), LaidAt(f, p),
           IsCatched(f.blocks) => Seated(f, ts) /\ Spares(s, Floor(f, p))
    PROVE  Keeps'
<1> DEFINE m == Machine(<<f>> \o ts, s)
           r == interpreter_stack_rollback(IF Len(s) <= f.bottom THEN Append(s, Here)
                                           ELSE [s EXCEPT ![f.bottom + 1] = Here], f.bottom)
<1>1. ts \in Seq(FrameSet) /\ f \in FrameSet
  BY DEF GoodFrames, GoodFrame
<1>2. CASE Crash
  BY <1>2, CrashKeeps
<1>3. CASE ~Dangling(m) /\ HANDLE_EXCEPTION(interpreter_set_exception(m, Here))
  <2>1. CASE IsCatched(f.blocks)
    <3> DEFINE g == frame_set_exception(f, Here)
    <3>1. /\ GoodFrame(g) /\ g.blocks = f.blocks /\ g.code = f.code /\ g.bottom = f.bottom
      BY SetGood
    <3> HIDE DEF g
    <3>2. N(g) = N(f) /\ Ops(g) = Ops(f) /\ Arg(g) = Arg(f)
      BY <3>1 DEF N, Ops, Arg
    <3>3. LaidAt(g, p) /\ Floor(g, p) = Floor(f, p) /\ Seated(g, ts)
      BY <2>1, <3>1, <3>2 DEF LaidAt, Floor, Seated
    <3>4. Order(interpreter_recover_exception(Machine(<<g>> \o ts, s)).frames,
                interpreter_recover_exception(Machine(<<g>> \o ts, s)).g_s)
      BY <1>1, <2>1, <3>1, <3>2, <3>3, RecoverKeeps
    <3>5. HANDLE_EXCEPTION(Machine(<<g>> \o ts, s))
      <4>1. interpreter_set_exception(m, Here) = Machine(<<g>> \o ts, s)
        BY <1>1, <1>3, <2>1, Raised DEF g
      <4> QED BY <1>3, <4>1
    <3> QED BY <3>4, <3>5, HandleKeeps
  <2>2. CASE ~IsCatched(f.blocks)
    <3>1. HANDLE_EXCEPTION(Machine(ts, r))
      <4>1. interpreter_set_exception(m, Here) = Machine(ts, r)
        BY <1>1, <1>3, <2>2, Raised
      <4> QED BY <1>3, <4>1
    <3>2. Machine(ts, r).frames = ts
      BY DEF Machine
    <3>3. ASSUME Recoverable(Machine(ts, r))
          PROVE  Order(interpreter_recover_exception(Machine(ts, r)).frames,
                       interpreter_recover_exception(Machine(ts, r)).g_s)
      <4> DEFINE g == Head(ts)
      <4>1. ts # <<>> /\ IsCatched(g.blocks)
        BY <3>2, <3>3 DEF Recoverable
      <4>2. r \in Seq(ValueSet) /\ Spares(r, Below(g))
        BY <1>1, <4>1, HereIs, Rolled
      <4>3. GoodFrame(g)
        BY <4>1, HeadGood
      <4>4. ts = <<g>> \o Tail(ts)
        BY <1>1, <4>1
      <4>5. /\ Seated(g, Tail(ts)) /\ Tail(ts) \in Seq(FrameSet)
            /\ g.esp - 1 \in N(g).at /\ g.esp - 1 < Len(Ops(g)) /\ LaidAt(g, g.esp - 1)
            /\ Floor(g, g.esp - 1) = Below(g)
        BY <1>1, <4>1, Waiting
      <4> HIDE DEF r, g
      <4>6. Order(interpreter_recover_exception(Machine(<<g>> \o Tail(ts), r)).frames,
                  interpreter_recover_exception(Machine(<<g>> \o Tail(ts), r)).g_s)
        BY <4>1, <4>2, <4>3, <4>5, RecoverKeeps
      <4> QED BY <4>4, <4>6
    <3> HIDE DEF r
    <3> QED BY <3>1, <3>3, HandleKeeps
  <2> QED BY <2>1, <2>2
<1> QED BY <1>2, <1>3 DEF Fail

-----------------------------------------------------------------------------
(***************************************************************************)
(* Opcodes.                                                                *)
(***************************************************************************)
LEMMA AdvancedIs ==
    ASSUME Inv, Order(frames, g_s), NEW op, AtOpcode(op)
    PROVE  LET ts == Tail(frames)
               p == Current.esp
           IN  /\ GoodFrame(Advanced) /\ Advanced.code = Current.code
               /\ Advanced.bottom = Current.bottom /\ Advanced.blocks = Current.blocks
               /\ Advanced.esp = p + 1
               /\ N(Advanced) = N(Current) /\ Ops(Advanced) = Ops(Current) /\ Arg(Advanced) = Arg(Current)
               /\ LaidAt(Advanced, p) /\ p \in N(Advanced).at /\ p < Len(Ops(Advanced))
               /\ ts \in Seq(FrameSet) /\ GoodFrames(ts) /\ Under(ts)
               /\ \A s : Next1(s) = Machine(<<Advanced>> \o ts, s)
<1>1. /\ GoodFrame(Advanced) /\ Advanced.code = Current.code
      /\ Advanced.bottom = Current.bottom /\ Advanced.blocks = Current.blocks
      /\ Advanced.esp = Current.esp + 1
  <2>1. Current \in FrameSet /\ GoodFrame(Advanced)
    BY AtOpcodeGood
  <2> QED BY <2>1 DEF Advanced, FrameSet
<1>2. N(Advanced) = N(Current) /\ Ops(Advanced) = Ops(Current) /\ Arg(Advanced) = Arg(Current)
  BY <1>1 DEF N, Ops, Arg
<1>3. Laid(Current) /\ Current.esp < Len(Ops(Current)) /\ Under(Tail(frames))
  BY AtPosition DEF Over
<1>4. LaidAt(Advanced, Current.esp) /\ Current.esp \in N(Advanced).at
  BY <1>1, <1>2, <1>3 DEF Laid, LaidAt
<1>5. Tail(frames) \in Seq(FrameSet) /\ GoodFrames(Tail(frames))
  BY AtOpcodeGood, TailGood DEF GoodFrames
<1>6. \A s : Next1(s) = Machine(<<Advanced>> \o Tail(frames), s)
  BY DEF Next1, With
<1> QED BY <1>1, <1>2, <1>3, <1>4, <1>5, <1>6

\* Where an opcode fails, the frame and those under it are as the handlers expect them.
LEMMA FailPlace ==
    ASSUME Inv, Order(frames, g_s), NEW op, AtOpcode(op), ~Stray(Current, g_s)
    PROVE  LET p == Current.esp
           IN  /\ Seated(Advanced, Tail(frames))
               /\ Floor(Advanced, p) = Len(g_s) - Takes(C.ops, p)
               /\ \A s \in Seq(ValueSet) : Spares(s, Floor(Advanced, p)) => Yields(Advanced, Tail(frames), s)
<1> DEFINE p == Current.esp
           ts == Tail(frames)
<1>1. Seated(Advanced, ts)
  BY Enough, AdvancedIs DEF Seated
<1>2. Floor(Advanced, p) = Len(g_s) - Takes(C.ops, p)
  <2>1. Ops(Advanced) = C.ops /\ N(Advanced) = N(Current) /\ Advanced.bottom = Current.bottom
    BY AdvancedIs, AtPosition
  <2>2. Len(g_s) = Current.bottom + N(Current).height[p]
    BY Enough DEF Height
  <2>3. /\ N(Current).height[p] \in Int /\ Current.bottom \in Nat /\ Len(g_s) \in Nat
        /\ Takes(C.ops, p) \in Nat
    BY Enough, AtPosition
  <2> HIDE DEF p
  <2> QED BY <2>1, <2>2, <2>3 DEF Floor
<1>3. ASSUME NEW s \in Seq(ValueSet), Spares(s, Floor(Advanced, p))
      PROVE  Yields(Advanced, ts, s)
  <2>1. CASE ts = <<>>
    BY <2>1 DEF Yields
  <2>2. CASE ts # <<>>
    <3> DEFINE b == Below(Head(ts))
    <3>1. b \in Int
      BY <2>2, AtPosition, AdvancedIs, Waiting
    <3>2. Advanced.bottom = b + Arg(Current) /\ Arg(Current) \in {0, 1}
      BY <2>2, Enough, AdvancedIs
    <3>3. Floor(Advanced, p) >= b /\ Floor(Advanced, p) \in Int
      <4>1. /\ Len(g_s) - Takes(C.ops, p) >= Current.bottom - Arg(Current)
            /\ Takes(C.ops, p) \in Nat /\ Advanced.bottom = Current.bottom
        BY Enough, AdvancedIs
      <4>2. Len(g_s) \in Nat /\ Current.bottom \in Nat
        BY AtPosition
      <4> HIDE DEF b
      <4> QED BY <1>2, <3>1, <3>2, <4>1, <4>2
    <3> HIDE DEF b
    <3>4. Advanced.bottom >= b
      BY <3>1, <3>2
    <3>5. Len(s) >= b - (IF CallsBind(code) THEN 0 ELSE 1)
      BY <1>3, <3>1, <3>3 DEF Spares
    <3>6. ASSUME NEW j \in DOMAIN s, j <= b PROVE s[j].type \notin Odd
      BY <1>3, <3>1, <3>3, <3>6 DEF Spares
    <3> QED BY <3>4, <3>5, <3>6 DEF Yields, b
  <2> QED BY <2>1, <2>2
<1> QED BY <1>1, <1>2, <1>3

LEMMA FailKeeps ==
    ASSUME Inv, Order(frames, g_s), NEW op, AtOpcode(op), ~Stray(Current, g_s),
           NEW s \in Seq(ValueSet), Spares(s, Len(g_s) - Takes(C.ops, Current.esp)),
           Fail(Next1(s))
    PROVE  Keeps'
<1>1. Spares(s, Floor(Advanced, Current.esp)) /\ Yields(Advanced, Tail(frames), s)
      /\ Seated(Advanced, Tail(frames))
  BY FailPlace
<1>2. Fail(Machine(<<Advanced>> \o Tail(frames), s))
  BY AdvancedIs
<1>3. code \in Codes /\ Here \in ValueSet
  BY AtOpcodeGood DEF Inv
<1> QED BY <1>1, <1>2, <1>3, AdvancedIs, RaiseKeeps

\* Operands of an ordinary opcode, some of them taken off.
LEMMA Operate ==
    ASSUME Inv, Order(frames, g_s), NEW op, AtOpcode(op), op \notin {"BIND_ARGS", "CALL_FUNC"}
    PROVE  /\ ~Stray(Current, g_s) /\ NoOdd(g_s)
           /\ Takes(C.ops, Current.esp) \in 0 .. Len(g_s)
           /\ \A k \in 0 .. Takes(C.ops, Current.esp) :
                 /\ Drop(g_s, k) \in Seq(ValueSet) /\ Len(Drop(g_s, k)) = Len(g_s) - k
                 /\ NoOdd(Drop(g_s, k))
                 /\ Spares(Drop(g_s, k), Len(g_s) - Takes(C.ops, Current.esp))
<1>1. ~Binding(Current)
  BY AtPosition DEF Operands, Binding, C
<1>2. ~Stray(Current, g_s) /\ NoOdd(g_s)
  BY <1>1, Ordinary DEF Stray
<1>3. Takes(C.ops, Current.esp) \in 0 .. Len(g_s)
  <2>1. /\ Takes(C.ops, Current.esp) \in Nat
        /\ Len(g_s) - Takes(C.ops, Current.esp) >= Current.bottom - Arg(Current)
        /\ Current.bottom >= Arg(Current) /\ Arg(Current) \in {0, 1}
    BY <1>2, Enough
  <2>2. Len(g_s) \in Nat /\ Current.bottom \in Nat
    BY AtPosition
  <2> QED BY <2>1, <2>2
<1>4. g_s \in Seq(ValueSet)
  BY AtPosition
<1>5. ASSUME NEW k \in 0 .. Takes(C.ops, Current.esp)
      PROVE  /\ Drop(g_s, k) \in Seq(ValueSet) /\ Len(Drop(g_s, k)) = Len(g_s) - k
             /\ NoOdd(Drop(g_s, k))
             /\ Spares(Drop(g_s, k), Len(g_s) - Takes(C.ops, Current.esp))
  <2>1. k \in 0 .. Len(g_s)
    BY <1>3, <1>4
  <2>2. /\ Drop(g_s, k) \in Seq(ValueSet) /\ Len(Drop(g_s, k)) = Len(g_s) - k
        /\ \A j \in 1 .. Len(g_s) - k : Drop(g_s, k)[j] = g_s[j]
    BY <1>4, <2>1, DropProperties
  <2>3. \A j \in DOMAIN Drop(g_s, k) : j \in 1 .. Len(g_s) - k /\ j \in DOMAIN g_s
    BY <1>4, <2>1, <2>2
  <2>4. NoOdd(Drop(g_s, k))
    BY <1>2, <2>2, <2>3 DEF NoOdd
  <2>5. Spares(Drop(g_s, k), Len(g_s) - Takes(C.ops, Current.esp))
    BY <1>3, <1>4, <2>2, <2>4 DEF Spares, NoOdd
  <2> QED BY <2>2, <2>4, <2>5
<1> QED BY <1>2, <1>3, <1>5

\* An ordinary opcode's result: its value is never told apart.
LEMMA Pushed ==
    ASSUME NEW s \in Seq(ValueSet), NoOdd(s), NEW v \in ValueSet, v.type \in {"obj", "func"}
    PROVE  /\ Append(s, v) \in Seq(ValueSet) /\ Len(Append(s, v)) = Len(s) + 1
           /\ NoOdd(Append(s, v)) /\ Append(s, v) # <<>> /\ Top(Append(s, v)) = v
<1>1. /\ Append(s, v) \in Seq(ValueSet) /\ Len(Append(s, v)) = Len(s) + 1
      /\ Append(s, v)[Len(s) + 1] = v
      /\ \A j \in 1 .. Len(s) : Append(s, v)[j] = s[j] /\ j \in DOMAIN s
      /\ \A j \in DOMAIN Append(s, v) : j \in 1 .. Len(s) \/ j = Len(s) + 1
  OBVIOUS
<1>2. v.type \notin Odd
  BY DEF Odd
<1>3. NoOdd(Append(s, v))
  BY <1>1, <1>2 DEF NoOdd
<1> QED BY <1>1, <1>3 DEF Top

LEMMA OrdinaryNext ==
    ASSUME Inv, Order(frames, g_s), NEW op, AtOpcode(op),
           op \in Plain \ {"BIND_ARGS", "CALL_FUNC", "MAKE_VEC"},
           NEW s \in Seq(ValueSet), NoOdd(s), Continue(Next1(s)),
           Len(s) = Len(g_s) - Takes(C.ops, Current.esp) + Leaves(Opcode),
           op \in {"LOAD_CONST", "LOAD_VAR"} => s # <<>> /\ Top(s) \in {Obj, Func(Opcode.name)}
    PROVE  Keeps'
<1>1. Arrives(N(Current), Current.esp + 1, N(Current).nest[Current.esp],
              N(Current).height[Current.esp] - Takes(C.ops, Current.esp) + Leaves(Opcode))
  BY AtPosition DEF Flows
<1>2. Advanced.esp \in N(Advanced).at /\ Advanced \in FrameSet
  BY <1>1, AdvancedIs DEF Arrives, GoodFrame
<1>3. Values(Advanced, s)
  BY <1>2, AdvancedIs, ValuesNext
<1>4. /\ Len(s) = Height(Current) - Takes(C.ops, Current.esp) + Leaves(Opcode)
      /\ Current.bottom >= Arg(Current)
      /\ Tail(frames) # <<>> => Current.bottom = Below(Head(Tail(frames))) + Arg(Current)
  BY Ordinary
<1>5. Order(Next1(s).frames, Next1(s).g_s)
  BY <1>3, <1>4, PlainNext
<1> QED BY <1>5, ContinueKeeps

LEMMA LoadKeeps ==
    ASSUME Inv, Order(frames, g_s), NEW op \in {"LOAD_CONST", "LOAD_VAR"}, AtOpcode(op),
           NEW v, v \in {Obj, Func(Opcode.name)}, Continue(Next1(Append(g_s, v)))
    PROVE  Keeps'
<1>1. /\ Opcode.op = op /\ Takes(C.ops, Current.esp) = 0 /\ Leaves(Opcode) = 1
      /\ g_s \in Seq(ValueSet)
  BY AtPosition DEF Takes, Leaves
<1>2. NoOdd(g_s)
  BY Operate
<1>3. v \in ValueSet
  <2>1. Opcode.name \in STRING
    BY AtOpcodeGood
  <2> QED BY <2>1, KnownValues
<1>4. v.type \in {"obj", "func"}
  BY DEF Obj, Func, Value
<1> DEFINE s == Append(g_s, v)
<1>5. /\ s \in Seq(ValueSet) /\ Len(s) = Len(g_s) + 1
      /\ NoOdd(s) /\ s # <<>> /\ Top(s) = v
  BY <1>1, <1>2, <1>3, <1>4, Pushed
<1>6. Continue(Next1(s))
  OBVIOUS
<1> HIDE DEF s
<1>7. Len(s) = Len(g_s) - Takes(C.ops, Current.esp) + Leaves(Opcode)
  BY <1>1, <1>5
<1>8. Top(s) \in {Obj, Func(Opcode.name)}
  BY <1>5
<1> QED BY <1>5, <1>6, <1>7, <1>8, OrdinaryNext DEF Plain

\* Opcodes that only work on the operand stack.
LEMMA SimpleKeeps ==
    ASSUME Inv, Order(frames, g_s),
           LoadConst \/ LoadVar \/ Add \/ PopStack \/ StoreLocal \/ StoreException
    PROVE  Keeps'
<1> DEFINE t == Takes(C.ops, Current.esp)
<1>1. CASE LoadConst
  <2>1. AtOpcode("LOAD_CONST")
    BY <1>1 DEF LoadConst
  <2>2. Opcode.op = "LOAD_CONST" /\ t = 0 /\ Leaves(Opcode) = 1 /\ g_s \in Seq(ValueSet)
    BY <2>1, AtPosition DEF Takes, Leaves
  <2>3. NoOdd(g_s) /\ ~Stray(Current, g_s)
    BY <2>1, Operate
  <2>4. ASSUME NEW v \in {Obj, Func(Opcode.name)}, Continue(Next1(Append(g_s, v)))
        PROVE  Keeps'
    BY <2>1, <2>4, LoadKeeps
  <2>5. CASE HANDLE_EXCEPTION(Next1(g_s))
    <3>1. HANDLE_EXCEPTION(Machine(<<Advanced>> \o Tail(frames), g_s))
      BY <2>1, <2>5, AdvancedIs
    <3>2. Seated(Advanced, Tail(frames)) /\ Floor(Advanced, Current.esp) = Len(g_s) - t
      BY <2>1, <2>3, FailPlace
    <3>3. Spares(g_s, Floor(Advanced, Current.esp))
      BY <2>2, <2>3, <3>2 DEF Spares, NoOdd
    <3>4. Head(<<Advanced>> \o Tail(frames)) = Advanced
      BY <2>1, AdvancedIs
    <3>5. Recoverable(Machine(<<Advanced>> \o Tail(frames), g_s)) => IsCatched(Advanced.blocks)
      BY <3>4 DEF Recoverable, Machine
    <3>6. Recoverable(Machine(<<Advanced>> \o Tail(frames), g_s)) =>
            Order(interpreter_recover_exception(Machine(<<Advanced>> \o Tail(frames), g_s)).frames,
                  interpreter_recover_exception(Machine(<<Advanced>> \o Tail(frames), g_s)).g_s)
      BY <2>1, <2>2, <3>2, <3>3, <3>5, AdvancedIs, RecoverKeeps DEF Inv
    <3> QED BY <3>1, <3>6, HandleKeeps
  <2> QED BY <1>1, <2>4, <2>5 DEF LoadConst
<1>2. CASE LoadVar
  <2>1. AtOpcode("LOAD_VAR")
    BY <1>2 DEF LoadVar
  <2>2. Opcode.op = "LOAD_VAR" /\ t = 0 /\ Leaves(Opcode) = 1 /\ g_s \in Seq(ValueSet)
    BY <2>1, AtPosition DEF Takes, Leaves
  <2>3. NoOdd(g_s) /\ ~Stray(Current, g_s)
    BY <2>1, Operate
  <2>4. ASSUME NEW v \in {Obj, Func(Opcode.name)}, Continue(Next1(Append(g_s, v)))
        PROVE  Keeps'
    BY <2>1, <2>4, LoadKeeps
  <2>5. CASE Fail(Next1(g_s))
    <3>1. Spares(g_s, Len(g_s) - t)
      BY <2>2, <2>3 DEF Spares, NoOdd
    <3> QED BY <2>1, <2>2, <2>3, <2>5, <3>1, FailKeeps
  <2> QED BY <1>2, <2>4, <2>5, CrashKeeps DEF LoadVar
<1>3. CASE Add
  <2>1. AtOpcode("ADD")
    BY <1>3 DEF Add
  <2>2. Opcode.op = "ADD" /\ t = 2 /\ Leaves(Opcode) = 1 /\ g_s \in Seq(ValueSet)
    BY <2>1, AtPosition DEF Takes, Leaves
  <2>3. /\ ~Stray(Current, g_s) /\ Drop(g_s, 2) \in Seq(ValueSet)
        /\ Len(Drop(g_s, 2)) = Len(g_s) - 2
        /\ NoOdd(Drop(g_s, 2)) /\ Spares(Drop(g_s, 2), Len(g_s) - t)
    BY <2>1, <2>2, Operate
  <2>4. CASE Continue(Next1(Append(Drop(g_s, 2), Obj)))
    <3>1. Obj \in ValueSet /\ Obj.type \in {"obj", "func"}
      BY KnownValues DEF Obj, Value
    <3>2. /\ Append(Drop(g_s, 2), Obj) \in Seq(ValueSet)
          /\ Len(Append(Drop(g_s, 2), Obj)) = Len(g_s) - 2 + 1
          /\ NoOdd(Append(Drop(g_s, 2), Obj))
      BY <2>3, <3>1, Pushed
    <3> QED BY <2>1, <2>2, <2>4, <3>2, OrdinaryNext DEF Plain
  <2>5. CASE Fail(Next1(Drop(g_s, 2)))
    BY <2>1, <2>3, <2>5, FailKeeps
  <2> QED BY <1>3, <2>4, <2>5 DEF Add
<1>4. CASE PopStack
  <2>1. AtOpcode("POP_STACK") /\ Continue(Next1(Drop(g_s, 1)))
    BY <1>4 DEF PopStack
  <2>2. Opcode.op = "POP_STACK" /\ t = 1 /\ Leaves(Opcode) = 0 /\ g_s \in Seq(ValueSet)
    BY <2>1, AtPosition DEF Takes, Leaves
  <2>3. /\ Drop(g_s, 1) \in Seq(ValueSet) /\ Len(Drop(g_s, 1)) = Len(g_s) - 1 /\ NoOdd(Drop(g_s, 1))
    BY <2>1, <2>2, Operate
  <2> QED BY <2>1, <2>2, <2>3, OrdinaryNext DEF Plain
<1>5. CASE StoreLocal
  <2>1. AtOpcode("STORE_LOCAL")
    BY <1>5 DEF StoreLocal
  <2>2. Opcode.op = "STORE_LOCAL" /\ t = 1 /\ Leaves(Opcode) = 0 /\ g_s \in Seq(ValueSet)
    BY <2>1, AtPosition DEF Takes, Leaves
  <2>3. /\ ~Stray(Current, g_s) /\ Drop(g_s, 1) \in Seq(ValueSet)
        /\ Len(Drop(g_s, 1)) = Len(g_s) - 1
        /\ NoOdd(Drop(g_s, 1)) /\ Spares(Drop(g_s, 1), Len(g_s) - t)
    BY <2>1, <2>2, Operate
  <2>4. CASE Continue(Next1(Drop(g_s, 1)))
    BY <2>1, <2>2, <2>3, <2>4, OrdinaryNext DEF Plain
  <2>5. CASE Fail(Next1(Drop(g_s, 1)))
    BY <2>1, <2>3, <2>5, FailKeeps
  <2> QED BY <1>5, <2>4, <2>5, CrashKeeps DEF StoreLocal
<1>6. CASE StoreException
  <2>1. AtOpcode("STORE_EXCEPTION")
    BY <1>6 DEF StoreException
  <2>2. Opcode.op = "STORE_EXCEPTION" /\ t = 0 /\ Leaves(Opcode) = 0 /\ g_s \in Seq(ValueSet)
    BY <2>1, AtPosition DEF Takes, Leaves
  <2>3. NoOdd(g_s)
    BY <2>1, Operate
  <2>4. CASE Continue(Next1(g_s))
    BY <2>1, <2>2, <2>3, <2>4, OrdinaryNext DEF Plain
  <2> QED BY <1>6, <2>4, CrashKeeps DEF StoreException
<1> QED BY <1>1, <1>2, <1>3, <1>4, <1>5, <1>6

LEMMA MakeVecKeeps ==
    ASSUME Inv, Order(frames, g_s), MakeVec
    PROVE  Keeps'
<1> DEFINE t == Takes(C.ops, Current.esp)
           d == Drop(g_s, Opcode.para)
           s == Append(d, Vec)
<1>1. AtOpcode("MAKE_VEC") /\ Continue(Next1(s))
  BY DEF MakeVec
<1>2. /\ Opcode.op = "MAKE_VEC" /\ t = Opcode.para /\ Leaves(Opcode) = 1 /\ g_s \in Seq(ValueSet)
      /\ Opcode = C.ops[Current.esp + 1] /\ Current.esp \in Nat
  BY <1>1, AtPosition DEF Takes, Leaves
<1>3. /\ d \in Seq(ValueSet) /\ Len(d) = Len(g_s) - t /\ NoOdd(d) /\ t \in 0 .. Len(g_s)
  <2>1. t \in 0 .. t
    BY <1>1, Operate
  <2> QED BY <1>1, <1>2, <2>1, Operate
<1>4. Vec \in ValueSet /\ Vec.type = "vec"
  BY KnownValues DEF Vec, Value
<1> HIDE DEF d
<1>5. /\ s \in Seq(ValueSet) /\ Len(s) = Len(d) + 1 /\ s[Len(s)] = Vec /\ s # <<>>
      /\ \A j \in DOMAIN s : j = Len(s) \/ (j \in DOMAIN d /\ s[j] = d[j])
  <2>1. /\ s \in Seq(ValueSet) /\ Len(s) = Len(d) + 1 /\ s[Len(d) + 1] = Vec
        /\ \A j \in 1 .. Len(d) : s[j] = d[j] /\ j \in DOMAIN d
    BY <1>3, <1>4
  <2> HIDE DEF s
  <2>2. \A j \in DOMAIN s : j \in 1 .. Len(d) \/ j = Len(d) + 1
    BY <1>3, <2>1
  <2>3. s # <<>>
    BY <1>3, <2>1
  <2> QED BY <2>1, <2>2, <2>3
<1> HIDE DEF s
<1>6. Passing(Advanced)
  <2>1. Current.esp + 1 < Len(C.ops) /\ C.ops[Current.esp + 2].op = "CALL_FUNC"
    BY <1>1, <1>2, AtPosition DEF Operands
  <2>2. Advanced.esp = Current.esp + 1 /\ Ops(Advanced) = C.ops
    BY <1>1, AdvancedIs, AtPosition
  <2>3. Current.esp + 1 + 1 = Current.esp + 2 /\ Current.esp + 1 > 0
    BY <1>2
  <2> QED BY <1>2, <2>1, <2>2, <2>3 DEF Passing, AtCall, Given
<1>7. Values(Advanced, s)
  <2>1. VecOnTop(s)
    BY <1>4, <1>5 DEF VecOnTop, Top
  <2>2. ASSUME NEW j \in DOMAIN s, s[j].type \in Odd
        PROVE  j = Len(s) /\ s[j].type = "vec"
    BY <1>3, <1>4, <1>5, <2>2 DEF NoOdd
  <2> QED BY <1>6, <2>1, <2>2 DEF Values
<1>8. Len(s) = Height(Current) - Takes(C.ops, Current.esp) + Leaves(Opcode)
  BY <1>1, <1>2, <1>3, <1>5, Ordinary
<1>9. Order(Next1(s).frames, Next1(s).g_s)
  BY <1>1, <1>7, <1>8, Ordinary, PlainNext DEF Plain
<1> QED BY <1>1, <1>9, ContinueKeeps

-----------------------------------------------------------------------------
(***************************************************************************)
(* Blocks.                                                                 *)
(***************************************************************************)
\* Blocks b, innermost first, where n has the nesting q.
BlocksAre(b, q, bottom, n) ==
    /\ Len(b) = Len(q)
    /\ \A i \in DOMAIN b :
          /\ b[i].out = q[i]
          /\ b[i].out > 0 => b[i].bottom = bottom + n.height[b[i].out + 1]

LEMMA LaidBlocks ==
    ASSUME NEW f, NEW p
    PROVE  LaidAt(f, p) <=> p \in N(f).at /\ BlocksAre(f.blocks, N(f).nest[p], f.bottom, N(f))
BY DEF LaidAt, BlocksAre

LEMMA BlocksEntered ==
    ASSUME NEW b \in Seq(BlockSet), NEW q \in Seq(Nat), NEW bottom, NEW n, BlocksAre(b, q, bottom, n),
           NEW x \in Seq(BlockSet), NEW y \in Seq(Nat), BlocksAre(x, y, bottom, n)
    PROVE  BlocksAre(x \o b, y \o q, bottom, n)
<1>1. /\ Len(x \o b) = Len(x) + Len(b) /\ Len(y \o q) = Len(y) + Len(q)
      /\ \A i \in 1 .. Len(x) : (x \o b)[i] = x[i]
      /\ \A i \in Len(x) + 1 .. Len(x) + Len(b) : (x \o b)[i] = b[i - Len(x)]
      /\ \A i \in 1 .. Len(y) : (y \o q)[i] = y[i]
      /\ \A i \in Len(y) + 1 .. Len(y) + Len(q) : (y \o q)[i] = q[i - Len(y)]
      /\ DOMAIN (x \o b) = 1 .. Len(x) + Len(b)
  OBVIOUS
<1>2. Len(x) = Len(y) /\ Len(b) = Len(q) /\ Len(x) \in Nat /\ Len(b) \in Nat
  BY DEF BlocksAre
<1>3. ASSUME NEW i \in DOMAIN (x \o b)
      PROVE  /\ (x \o b)[i].out = (y \o q)[i]
             /\ (x \o b)[i].out > 0 => (x \o b)[i].bottom = bottom + n.height[(x \o b)[i].out + 1]
  <2>1. CASE i \in 1 .. Len(x)
    <3>1. i \in DOMAIN x /\ (x \o b)[i] = x[i] /\ (y \o q)[i] = y[i]
      BY <1>1, <1>2, <2>1
    <3> QED BY <3>1 DEF BlocksAre
  <2>2. CASE i \in Len(x) + 1 .. Len(x) + Len(b)
    <3>1. i - Len(x) \in DOMAIN b /\ (x \o b)[i] = b[i - Len(x)] /\ (y \o q)[i] = q[i - Len(x)]
      BY <1>1, <1>2, <2>2
    <3> QED BY <3>1 DEF BlocksAre
  <2>3. i \in 1 .. Len(x) \/ i \in Len(x) + 1 .. Len(x) + Len(b)
    BY <1>1, <1>2
  <2> QED BY <2>1, <2>2, <2>3
<1> QED BY <1>1, <1>2, <1>3 DEF BlocksAre

LEMMA BlocksLeft ==
    ASSUME NEW b \in Seq(BlockSet), NEW q \in Seq(Nat), NEW bottom, NEW n, BlocksAre(b, q, bottom, n),
           NEW k \in 0 .. Len(b)
    PROVE  BlocksAre(SubSeq(b, k + 1, Len(b)), SubSeq(q, k + 1, Len(q)), bottom, n)
<1> DEFINE c == SubSeq(b, k + 1, Len(b))
           r == SubSeq(q, k + 1, Len(q))
<1>1. Len(b) = Len(q) /\ Len(b) \in Nat
  BY DEF BlocksAre
<1>2. /\ Len(c) = Len(b) - k /\ DOMAIN c = 1 .. Len(b) - k
      /\ \A i \in 1 .. Len(b) - k : c[i] = b[k + i]
  <2>1. \A i \in k + 1 .. Len(b) : b[i] \in BlockSet
    BY <1>1
  <2>2. /\ c \in Seq(BlockSet)
        /\ Len(c) = IF k + 1 <= Len(b) THEN Len(b) - (k + 1) + 1 ELSE 0
        /\ \A i \in 1 .. Len(b) - (k + 1) + 1 : c[i] = b[(k + 1) + i - 1]
    <3>1. k + 1 \in Int /\ Len(b) \in Int
      BY <1>1
    <3> QED BY <2>1, <3>1, SubSeqProperties
  <2>3. \A i \in 1 .. Len(b) - k : (k + 1) + i - 1 = k + i
    BY <1>1
  <2> HIDE DEF c
  <2> QED BY <1>1, <2>2, <2>3
<1>3. Len(r) = Len(b) - k /\ \A i \in 1 .. Len(b) - k : r[i] = q[k + i]
  <2>1. \A i \in k + 1 .. Len(q) : q[i] \in Nat
    BY <1>1
  <2>2. /\ Len(r) = IF k + 1 <= Len(q) THEN Len(q) - (k + 1) + 1 ELSE 0
        /\ \A i \in 1 .. Len(q) - (k + 1) + 1 : r[i] = q[(k + 1) + i - 1]
    <3>1. k + 1 \in Int /\ Len(q) \in Int
      BY <1>1
    <3> QED BY <2>1, <3>1, SubSeqProperties
  <2>3. \A i \in 1 .. Len(b) - k : (k + 1) + i - 1 = k + i
    BY <1>1
  <2> HIDE DEF r
  <2> QED BY <1>1, <2>2, <2>3
<1> HIDE DEF c, r
<1>4. ASSUME NEW i \in DOMAIN c
      PROVE  c[i].out = r[i] /\ (c[i].out > 0 => c[i].bottom = bottom + n.height[c[i].out + 1])
  <2>1. k + i \in DOMAIN b /\ c[i] = b[k + i] /\ r[i] = q[k + i]
    BY <1>1, <1>2, <1>3
  <2> QED BY <2>1 DEF BlocksAre
<1> QED BY <1>2, <1>3, <1>4 DEF BlocksAre, c, r

\* Behind an opcode that enters or leaves blocks, whose operands stay.
LEMMA BlocksNext ==
    ASSUME Inv, Order(frames, g_s), NEW op, AtOpcode(op),
           op \in {"ENTER_BLOCK", "LEAVE_BLOCK", "PUSH_BLOCKS", "POP_BLOCKS"},
           NEW f, GoodFrame(f), f.code = Current.code, f.bottom = Current.bottom,
           f.esp = Current.esp + 1, NEW q,
           Arrives(N(Current), Current.esp + 1, q, N(Current).height[Current.esp]),
           BlocksAre(f.blocks, q, Current.bottom, N(Current)),
           Continue(With(f, g_s))
    PROVE  Keeps'
<1>1. f \in FrameSet /\ N(f) = N(Current) /\ Current.esp \in Nat
  BY AtPosition DEF N, GoodFrame
<1>2. Laid(f) /\ f.esp \in N(f).at
  BY <1>1, LaidBlocks DEF Laid, Arrives
<1>3. NoOdd(g_s) /\ Len(g_s) = Height(Current) /\ Height(f) = Height(Current)
  BY <1>1, Ordinary DEF Height, Arrives
<1>4. Values(f, g_s)
  BY <1>1, <1>2, <1>3, ValuesNext
<1>5. ~Binding(f)
  BY <1>1 DEF Binding
<1>6. /\ frames \in Seq(FrameSet) /\ frames # <<>> /\ Under(Tail(frames))
      /\ Current.bottom >= Arg(Current)
      /\ Tail(frames) # <<>> => Current.bottom = Below(Head(Tail(frames))) + Arg(Current)
  BY AtPosition, Ordinary
<1>7. Order(With(f, g_s).frames, With(f, g_s).g_s)
  BY <1>1, <1>2, <1>3, <1>4, <1>5, <1>6, GoesOn
<1> QED BY <1>7, ContinueKeeps

LEMMA BlockKeeps ==
    ASSUME Inv, Order(frames, g_s), EnterBlock \/ LeaveBlock \/ PushBlocks \/ PopBlocks
    PROVE  Keeps'
<1> DEFINE p == Current.esp
           n == N(Current)
           q == n.nest[p]
           h == n.height[p]
           b == Current.blocks
<1>1. ASSUME NEW op, AtOpcode(op)
      PROVE  /\ b \in Seq(BlockSet) /\ q \in Seq(Nat) /\ BlocksAre(b, q, Current.bottom, n)
             /\ Advanced.blocks = b /\ GoodFrame(Advanced) /\ Advanced \in FrameSet
             /\ Advanced.code = Current.code /\ Advanced.bottom = Current.bottom
             /\ Advanced.esp = p + 1
             /\ Flows(C, n, p) /\ Opcode = C.ops[p + 1] /\ Opcode.op = op /\ Opcode.para \in Nat
             /\ g_s \in Seq(ValueSet) /\ Len(g_s) \in Nat
  <2>1. Laid(Current)
    BY <1>1, AtPosition DEF Over
  <2>2. BlocksAre(b, q, Current.bottom, n)
    BY <2>1, LaidBlocks DEF Laid
  <2>3. b \in Seq(BlockSet) /\ q \in Seq(Nat)
    BY <1>1, AtPosition
  <2>4. /\ Advanced.blocks = b /\ GoodFrame(Advanced) /\ Advanced \in FrameSet
        /\ Advanced.code = Current.code /\ Advanced.bottom = Current.bottom
        /\ Advanced.esp = p + 1
    BY <1>1, AdvancedIs, AtOpcodeGood
  <2>5. /\ Flows(C, n, p) /\ Opcode = C.ops[p + 1] /\ Opcode.op = op /\ Opcode.para \in Nat
        /\ g_s \in Seq(ValueSet) /\ Len(g_s) \in Nat
    BY <1>1, AtPosition
  <2> QED BY <2>2, <2>3, <2>4, <2>5
<1>2. CASE EnterBlock
  <2> DEFINE x == [out |-> Opcode.para, bottom |-> Len(g_s),
                   catched |-> Opcode.para > 0 \/ IsCatched(b)]
             f == frame_enter_block(Advanced, Opcode.para, Len(g_s))
  <2>1. AtOpcode("ENTER_BLOCK") /\ Continue(With(f, g_s))
    BY <1>2 DEF EnterBlock
  <2>2. /\ Arrives(n, p + 1, <<Opcode.para>> \o q, h)
        /\ Opcode.para > 0 => Arrives(n, Opcode.para + 1, q, h)
    BY <1>1, <2>1 DEF Flows
  <2>3. GoodFrame(f) /\ f.code = Current.code /\ f.bottom = Current.bottom /\ f.esp = p + 1
        /\ f.blocks = <<x>> \o b
    <3>1. GoodFrame(f)
      BY <1>1, <2>1, EnterExact
    <3>2. /\ f.code = Current.code /\ f.bottom = Current.bottom /\ f.esp = p + 1
          /\ f.blocks = <<x>> \o b
      BY <1>1, <2>1 DEF frame_enter_block, FrameSet
    <3> QED BY <3>1, <3>2
  <2>4. x \in BlockSet
    BY <1>1, <2>1 DEF BlockSet, IsCatched
  <2>5. x.out = Opcode.para /\ x.bottom = Current.bottom + h
    BY <2>1, Ordinary DEF Height
  <2> HIDE DEF x, f
  <2>6. BlocksAre(<<x>>, <<Opcode.para>>, Current.bottom, n)
    <3>1. Len(<<x>>) = 1 /\ Len(<<Opcode.para>>) = 1 /\ DOMAIN <<x>> = {1} /\ <<x>>[1] = x
          /\ <<Opcode.para>>[1] = Opcode.para
      OBVIOUS
    <3>2. x.out > 0 => x.bottom = Current.bottom + n.height[x.out + 1]
      BY <2>2, <2>5 DEF Arrives
    <3> QED BY <2>5, <3>1, <3>2 DEF BlocksAre
  <2>7. <<x>> \in Seq(BlockSet) /\ <<Opcode.para>> \in Seq(Nat)
    BY <1>1, <2>1, <2>4
  <2>8. BlocksAre(<<x>> \o b, <<Opcode.para>> \o q, Current.bottom, n)
    BY <1>1, <2>1, <2>6, <2>7, BlocksEntered
  <2> QED BY <2>1, <2>2, <2>3, <2>8, BlocksNext
<1>3. CASE LeaveBlock
  <2> DEFINE f == frame_leave_block(Advanced)
  <2>1. AtOpcode("LEAVE_BLOCK")
    BY <1>3 DEF LeaveBlock
  <2>2. q # <<>> /\ Arrives(n, p + 1, Tail(q), h)
    BY <1>1, <2>1 DEF Flows
  <2>3. CASE b # <<>> /\ Continue(With(f, g_s))
    <3>1. 1 \in 0 .. Len(b) /\ Tail(b) = SubSeq(b, 1 + 1, Len(b)) /\ Tail(q) = SubSeq(q, 1 + 1, Len(q))
      BY <1>1, <2>1, <2>2, <2>3
    <3>2. BlocksAre(Tail(b), Tail(q), Current.bottom, n)
      BY <1>1, <2>1, <3>1, BlocksLeft
    <3>3. SubSeq(b, 2, Len(b)) \in Seq(BlockSet) /\ ExactBlocks(SubSeq(b, 2, Len(b)))
      <4>1. 2 \in 1 .. Len(b) + 1 /\ ExactBlocks(b)
        BY <1>1, <2>1, <3>1 DEF GoodFrame
      <4> QED BY <1>1, <2>1, <4>1, SuffixExact
    <3> DEFINE s == SubSeq(b, 2, Len(b))
    <3>4. f = [Advanced EXCEPT !.blocks = s] /\ s = Tail(b)
      <4>1. f = [Advanced EXCEPT !.blocks = Tail(Advanced.blocks)]
        BY DEF frame_leave_block
      <4>2. s = Tail(b) /\ Advanced.blocks = b
        BY <1>1, <2>1, <3>1
      <4> HIDE DEF s, f
      <4> QED BY <4>1, <4>2
    <3> HIDE DEF s, f
    <3>5. s \in Seq(BlockSet) /\ ExactBlocks(s)
      BY <3>3 DEF s
    <3>6. f \in FrameSet /\ f.blocks = s
      BY <1>1, <2>1, <3>4, <3>5 DEF FrameSet
    <3>7. f.code = Current.code /\ f.bottom = Current.bottom /\ f.esp = p + 1
      BY <1>1, <2>1, <3>4 DEF FrameSet
    <3>8. GoodFrame(f) /\ BlocksAre(f.blocks, Tail(q), Current.bottom, n)
      BY <3>2, <3>4, <3>5, <3>6 DEF GoodFrame
    <3> QED BY <2>1, <2>2, <2>3, <3>7, <3>8, BlocksNext
  <2> QED BY <1>3, <2>3, CrashKeeps DEF LeaveBlock
<1>4. CASE PushBlocks
  <2> DEFINE x == [out |-> 0, bottom |-> Len(g_s), catched |-> IsCatched(b)]
             xs == [i \in 1 .. Opcode.para |-> x]
             ys == [i \in 1 .. Opcode.para |-> 0]
             f == Entered(Advanced, Opcode.para, Len(g_s))
  <2>1. AtOpcode("PUSH_BLOCKS") /\ Continue(With(f, g_s))
    BY <1>4 DEF PushBlocks
  <2>2. Arrives(n, p + 1, ys \o q, h)
    BY <1>1, <2>1 DEF Flows
  <2>3. GoodFrame(f)
    BY <1>1, <2>1, EnteredGood
  <2>4. /\ f.code = Current.code /\ f.bottom = Current.bottom /\ f.esp = p + 1
        /\ f.blocks = xs \o b
    BY <1>1, <2>1 DEF Entered, FrameSet
  <2>5. x \in BlockSet /\ x.out = 0
    BY <1>1, <2>1 DEF BlockSet, IsCatched
  <2> HIDE DEF x, f
  <2>6. /\ xs \in Seq(BlockSet) /\ Len(xs) = Opcode.para /\ ys \in Seq(Nat) /\ Len(ys) = Opcode.para
        /\ \A i \in DOMAIN xs : xs[i] = x /\ ys[i] = 0
    <3>1. Opcode.para \in Nat
      BY <1>1, <2>1
    <3> QED BY <2>5, <3>1
  <2> HIDE DEF xs, ys
  <2>7. BlocksAre(xs, ys, Current.bottom, n)
    BY <2>5, <2>6 DEF BlocksAre
  <2>8. BlocksAre(xs \o b, ys \o q, Current.bottom, n)
    BY <1>1, <2>1, <2>6, <2>7, BlocksEntered
  <2> QED BY <2>1, <2>2, <2>3, <2>4, <2>8, BlocksNext
<1>5. CASE PopBlocks
  <2> DEFINE k == Opcode.para
             s == SubSeq(b, k + 1, Len(b))
             f == [Advanced EXCEPT !.blocks = SubSeq(@, Opcode.para + 1, Len(@))]
  <2>1. AtOpcode("POP_BLOCKS")
    BY <1>5 DEF PopBlocks
  <2>2. k <= Len(q) /\ Arrives(n, p + 1, SubSeq(q, k + 1, Len(q)), h)
    BY <1>1, <2>1 DEF Flows
  <2>3. CASE k <= Len(b) /\ Continue(With(f, g_s))
    <3>1. k \in 0 .. Len(b) /\ k + 1 \in 1 .. Len(b) + 1
      BY <1>1, <2>1, <2>3
    <3>2. BlocksAre(s, SubSeq(q, k + 1, Len(q)), Current.bottom, n)
      BY <1>1, <2>1, <3>1, BlocksLeft
    <3>3. s \in Seq(BlockSet) /\ ExactBlocks(s)
      <4>1. ExactBlocks(b)
        BY <1>1, <2>1 DEF GoodFrame
      <4> HIDE DEF k
      <4> QED BY <1>1, <2>1, <3>1, <4>1, SuffixExact
    <3>4. f = [Advanced EXCEPT !.blocks = s]
      BY <1>1, <2>1
    <3> HIDE DEF s, f
    <3>5. f.blocks = s /\ f.code = Current.code /\ f.bottom = Current.bottom /\ f.esp = p + 1
          /\ GoodFrame(f)
      <4>1. f \in FrameSet /\ f.blocks = s
        BY <1>1, <2>1, <3>3, <3>4 DEF FrameSet
      <4>2. f.code = Current.code /\ f.bottom = Current.bottom /\ f.esp = p + 1
        BY <1>1, <2>1, <3>4 DEF FrameSet
      <4> QED BY <3>3, <4>1, <4>2 DEF GoodFrame
    <3> QED BY <2>1, <2>2, <2>3, <3>2, <3>5, BlocksNext
  <2> QED BY <1>5, <2>3, CrashKeeps DEF PopBlocks
<1> QED BY <1>2, <1>3, <1>4, <1>5

-----------------------------------------------------------------------------
(***************************************************************************)
(* Jumps.                                                                  *)
(***************************************************************************)
Branches == {"JUMP_TRUE", "JUMP_FALSE", "JUMP_CASE", "JUMP_DEFAULT"}

LEMMA JumpTakenKeeps ==
    ASSUME Inv, Order(frames, g_s), NEW op, AtOpcode(op), op \in Jumps \cup Branches,
           NEW s \in Seq(ValueSet), NoOdd(s), NEW height \in Int,
           JumpsTo(C, N(Current), Opcode.para, N(Current).nest[Current.esp], height),
           Len(s) = Current.bottom + height,
           Continue(With(frame_jump(Advanced, Opcode.para), s))
    PROVE  Keeps'
<1> DEFINE p == Current.esp
           n == N(Current)
           f == frame_jump(Advanced, Opcode.para)
           ts == Tail(frames)
<1>1. /\ Advanced \in FrameSet /\ Opcode.para \in Nat /\ Advanced.blocks = Current.blocks
      /\ Advanced.code = Current.code /\ Advanced.bottom = Current.bottom
  BY AtOpcodeGood, AdvancedIs
<1>2. /\ f \in FrameSet /\ f.blocks = Current.blocks /\ f.esp = Opcode.para
      /\ f.code = Current.code /\ f.bottom = Current.bottom
  BY <1>1 DEF frame_jump, FrameSet
<1> HIDE DEF f
<1>3. N(f) = n /\ Arg(f) = Arg(Current) /\ Ops(f) = C.ops /\ code[f.code] = C
  BY <1>2, AtPosition DEF N, Arg, Ops, C
<1>4. BlocksAre(f.blocks, n.nest[p], f.bottom, n)
  BY <1>2, AtPosition, LaidBlocks DEF Over, Laid
<1>5. ~AtCall(f)
  BY <1>2, <1>3 DEF AtCall, JumpsTo
<1>6. Values(f, s)
  BY <1>5, ValuesAway
<1>7. op \notin {"BIND_ARGS", "CALL_FUNC"}
  BY DEF Jumps, Branches
<1>8. /\ Current.bottom >= Arg(Current) /\ ts \in Seq(FrameSet) /\ Under(ts)
      /\ ts # <<>> => Current.bottom = Below(Head(ts)) + Arg(Current)
      /\ frames \in Seq(FrameSet) /\ frames # <<>> /\ Current.bottom \in Nat
  BY <1>7, AtPosition, AdvancedIs, Ordinary
<1>9. CASE Opcode.para = 0 /\ C.args
  <2>1. n.nest[p] = <<0>> /\ height = -1
    BY <1>9 DEF JumpsTo
  <2>2. Arrives(n, 0, <<0>>, 0)
    BY AtPosition, CodeFits DEF Fits
  <2>3. Laid(f)
    BY <1>2, <1>3, <1>4, <1>9, <2>1, <2>2, LaidBlocks DEF Laid, Arrives
  <2>4. Stray(f, s)
    <3>1. ~VecOnTop(s)
      BY DEF VecOnTop, Top, NoOdd, Odd
    <3> QED BY <1>2, <1>3, <1>9, <3>1 DEF Stray, Binding
  <2>5. ~CallsBind(code)
    <3>1. Current.code \in DOMAIN code /\ p \in Note(C).at \ {Len(C.ops)} /\ C.ops[p + 1] = Opcode
          /\ Opcode.op = op
      BY AtPosition, CodeFits DEF N, C
    <3> QED BY <1>9, <3>1 DEF CallsBind, Branches, C
  <2>6. ts # <<>> => Len(s) = Below(Head(ts)) /\ f.bottom >= Below(Head(ts))
    <3>1. CASE ts # <<>>
      <4>1. Below(Head(ts)) \in Int
        BY <1>8, <3>1, AtPosition, Waiting
      <4>2. Arg(Current) = 1
        BY <1>9 DEF Arg, C
      <4> QED BY <1>2, <1>8, <2>1, <3>1, <4>1, <4>2
    <3> QED BY <3>1
  <2>7. Over(f, ts, s)
    BY <1>6, <2>3, <2>4, <2>5, <2>6 DEF Over, OnTop
  <2>8. With(f, s).frames = <<f>> \o ts /\ With(f, s).g_s = s
        /\ Head(<<f>> \o ts) = f /\ Tail(<<f>> \o ts) = ts
    BY <1>8 DEF With, Machine
  <2>9. Order(With(f, s).frames, With(f, s).g_s)
    BY <1>8, <2>7, <2>8 DEF Order
  <2> QED BY <2>9, ContinueKeeps DEF f
<1>10. CASE ~(Opcode.para = 0 /\ C.args)
  <2>1. Arrives(n, Opcode.para, n.nest[p], height)
    BY <1>10 DEF JumpsTo
  <2>2. Laid(f)
    BY <1>2, <1>3, <1>4, <2>1, LaidBlocks DEF Laid, Arrives
  <2>3. ~Binding(f)
    BY <1>2, <1>3, <1>10 DEF Binding
  <2>4. Len(s) = Height(f)
    BY <1>2, <1>3, <2>1 DEF Height, Arrives
  <2>5. Order(With(f, s).frames, With(f, s).g_s)
    BY <1>2, <1>6, <1>8, <2>2, <2>3, <2>4, GoesOn
  <2> QED BY <2>5, ContinueKeeps DEF f
<1> QED BY <1>9, <1>10

LEMMA JumpNotTakenKeeps ==
    ASSUME Inv, Order(frames, g_s), NEW op, AtOpcode(op), op \in Branches,
           NEW s \in Seq(ValueSet), NoOdd(s), NEW height \in Int,
           Arrives(N(Current), Current.esp + 1, N(Current).nest[Current.esp], height),
           Len(s) = Current.bottom + height,
           Continue(Next1(s))
    PROVE  Keeps'
<1>1. /\ Advanced \in FrameSet /\ Advanced.blocks = Current.blocks /\ Advanced.esp = Current.esp + 1
      /\ Advanced.code = Current.code /\ Advanced.bottom = Current.bottom
      /\ N(Advanced) = N(Current)
  BY AtOpcodeGood, AdvancedIs
<1>2. Laid(Advanced)
  <2>1. BlocksAre(Advanced.blocks, N(Current).nest[Current.esp], Advanced.bottom, N(Current))
    BY <1>1, AtPosition, LaidBlocks DEF Over, Laid
  <2> QED BY <1>1, <2>1, LaidBlocks DEF Laid, Arrives
<1>3. Values(Advanced, s)
  <2>1. op \notin {"MAKE_VEC", "LOAD_CONST", "LOAD_VAR"} /\ Advanced.esp \in N(Advanced).at
    BY <1>1 DEF Branches, Arrives
  <2> QED BY <1>1, <2>1, ValuesNext
<1>4. op \notin {"BIND_ARGS", "CALL_FUNC"}
  BY DEF Branches
<1>5. /\ Current.bottom >= Arg(Current) /\ Under(Tail(frames))
      /\ Tail(frames) # <<>> => Current.bottom = Below(Head(Tail(frames))) + Arg(Current)
      /\ frames \in Seq(FrameSet) /\ frames # <<>> /\ Current.esp \in Nat
  BY <1>4, AtPosition, Ordinary
<1>6. ~Binding(Advanced)
  BY <1>1, <1>5 DEF Binding
<1>7. Len(s) = Height(Advanced)
  BY <1>1 DEF Height, Arrives
<1>8. Order(Next1(s).frames, Next1(s).g_s)
  BY <1>1, <1>2, <1>3, <1>5, <1>6, <1>7, GoesOn DEF Next1
<1> QED BY <1>8, ContinueKeeps

LEMMA JumpKeeps ==
    ASSUME Inv, Order(frames, g_s), Jump \/ JumpIf \/ JumpCase \/ JumpDefault
    PROVE  Keeps'
<1> DEFINE p == Current.esp
           n == N(Current)
           h == n.height[p]
           q == n.nest[p]
           j(s) == With(frame_jump(Advanced, Opcode.para), s)
<1>1. ASSUME NEW op, AtOpcode(op), op \in Jumps \cup Branches
      PROVE  /\ Flows(C, n, p) /\ Opcode = C.ops[p + 1] /\ Opcode.op = op
             /\ h \in Int /\ Current.bottom \in Nat /\ g_s \in Seq(ValueSet)
             /\ NoOdd(g_s) /\ Len(g_s) = Current.bottom + h
             /\ ~Stray(Current, g_s)
             /\ Takes(C.ops, p) = IF op \in Jumps THEN 0 ELSE IF op = "JUMP_CASE" THEN 2 ELSE 1
             /\ \A k \in 0 .. Takes(C.ops, p) :
                   /\ Drop(g_s, k) \in Seq(ValueSet) /\ Len(Drop(g_s, k)) = Current.bottom + (h - k)
                   /\ NoOdd(Drop(g_s, k)) /\ h - k \in Int
                   /\ Spares(Drop(g_s, k), Len(g_s) - Takes(C.ops, p))
  <2>1. op \notin {"BIND_ARGS", "CALL_FUNC"}
    BY <1>1 DEF Jumps, Branches
  <2>2. /\ Flows(C, n, p) /\ Opcode = C.ops[p + 1] /\ Opcode.op = op
        /\ h \in Int /\ Current.bottom \in Nat /\ g_s \in Seq(ValueSet) /\ p \in Nat
    BY <1>1, AtPosition
  <2>3. NoOdd(g_s) /\ Len(g_s) = Current.bottom + h /\ ~Stray(Current, g_s)
    BY <1>1, <2>1, Ordinary, Operate DEF Height
  <2>4. Takes(C.ops, p) = IF op \in Jumps THEN 0 ELSE IF op = "JUMP_CASE" THEN 2 ELSE 1
    BY <1>1, <2>2 DEF Takes, Jumps, Branches
  <2>5. ASSUME NEW k \in 0 .. Takes(C.ops, p)
        PROVE  /\ Drop(g_s, k) \in Seq(ValueSet) /\ Len(Drop(g_s, k)) = Current.bottom + (h - k)
               /\ NoOdd(Drop(g_s, k)) /\ h - k \in Int
               /\ Spares(Drop(g_s, k), Len(g_s) - Takes(C.ops, p))
    <3>1. /\ Drop(g_s, k) \in Seq(ValueSet) /\ Len(Drop(g_s, k)) = Len(g_s) - k
          /\ NoOdd(Drop(g_s, k))
          /\ Spares(Drop(g_s, k), Len(g_s) - Takes(C.ops, p))
      BY <1>1, <2>1, Operate
    <3>2. k \in Int
      BY <2>4
    <3> QED BY <2>2, <2>3, <3>1, <3>2
  <2> QED BY <2>2, <2>3, <2>4, <2>5
<1>2. CASE Jump
  <2>1. PICK op \in Jumps : AtOpcode(op) /\ Continue(j(g_s))
    BY <1>2 DEF Jump
  <2>2. JumpsTo(C, n, Opcode.para, q, h)
    BY <1>1, <2>1 DEF Flows
  <2> QED BY <1>1, <2>1, <2>2, JumpTakenKeeps
<1>3. CASE JumpIf
  <2>1. PICK op \in {"JUMP_TRUE", "JUMP_FALSE"} :
           AtOpcode(op) /\ (Continue(Next1(Drop(g_s, 1))) \/ Continue(j(Drop(g_s, 1))))
    BY <1>3 DEF JumpIf
  <2>2. op \in Branches /\ op \notin Jumps /\ op # "JUMP_CASE"
    BY <2>1 DEF Branches, Jumps
  <2>3. Arrives(n, p + 1, q, h - 1) /\ JumpsTo(C, n, Opcode.para, q, h - 1)
    BY <1>1, <2>1, <2>2 DEF Flows
  <2>4. /\ Drop(g_s, 1) \in Seq(ValueSet) /\ Len(Drop(g_s, 1)) = Current.bottom + (h - 1)
        /\ NoOdd(Drop(g_s, 1)) /\ h - 1 \in Int
    BY <1>1, <2>1, <2>2
  <2> QED BY <2>1, <2>2, <2>3, <2>4, JumpTakenKeeps, JumpNotTakenKeeps
<1>4. CASE JumpCase
  <2>1. AtOpcode("JUMP_CASE")
    BY <1>4 DEF JumpCase
  <2>2. "JUMP_CASE" \in Branches /\ "JUMP_CASE" \notin Jumps
    BY DEF Branches, Jumps
  <2>3. Arrives(n, p + 1, q, h - 2) /\ JumpsTo(C, n, Opcode.para, q, h - 1)
    BY <1>1, <2>1, <2>2 DEF Flows
  <2>4. /\ Drop(g_s, 1) \in Seq(ValueSet) /\ Len(Drop(g_s, 1)) = Current.bottom + (h - 1)
        /\ NoOdd(Drop(g_s, 1)) /\ h - 1 \in Int
        /\ Drop(g_s, 2) \in Seq(ValueSet) /\ Len(Drop(g_s, 2)) = Current.bottom + (h - 2)
        /\ NoOdd(Drop(g_s, 2)) /\ h - 2 \in Int
        /\ Spares(Drop(g_s, 2), Len(g_s) - Takes(C.ops, p)) /\ ~Stray(Current, g_s)
    <3>1. Takes(C.ops, p) = 2 /\ ~Stray(Current, g_s)
      BY <1>1, <2>1, <2>2
    <3>2. 1 \in 0 .. Takes(C.ops, p) /\ 2 \in 0 .. Takes(C.ops, p)
      BY <3>1
    <3> QED BY <1>1, <2>1, <2>2, <3>1, <3>2
  <2>5. CASE Continue(j(Drop(g_s, 1)))
    BY <2>1, <2>2, <2>3, <2>4, <2>5, JumpTakenKeeps
  <2>6. CASE Continue(Next1(Drop(g_s, 2)))
    BY <2>1, <2>2, <2>3, <2>4, <2>6, JumpNotTakenKeeps
  <2>7. CASE Fail(Next1(Drop(g_s, 2)))
    BY <2>1, <2>4, <2>7, FailKeeps
  <2> QED BY <1>4, <2>5, <2>6, <2>7 DEF JumpCase
<1>5. CASE JumpDefault
  <2>1. AtOpcode("JUMP_DEFAULT") /\ Continue(j(Drop(g_s, 1)))
    BY <1>5 DEF JumpDefault
  <2>2. "JUMP_DEFAULT" \in Branches /\ "JUMP_DEFAULT" \notin Jumps
    BY DEF Branches, Jumps
  <2>3. JumpsTo(C, n, Opcode.para, q, h - 1)
    BY <1>1, <2>1, <2>2 DEF Flows
  <2>4. /\ Drop(g_s, 1) \in Seq(ValueSet) /\ Len(Drop(g_s, 1)) = Current.bottom + (h - 1)
        /\ NoOdd(Drop(g_s, 1)) /\ h - 1 \in Int
    BY <1>1, <2>1, <2>2
  <2> QED BY <2>1, <2>2, <2>3, <2>4, JumpTakenKeeps
<1> QED BY <1>2, <1>3, <1>4, <1>5

-----------------------------------------------------------------------------
(***************************************************************************)
(* Calls, arguments and results.                                           *)
(***************************************************************************)
LEMMA BindArgsKeeps ==
    ASSUME Inv, Order(frames, g_s), BindArgs
    PROVE  Keeps'
<1> DEFINE p == Current.esp
           n == N(Current)
           ts == Tail(frames)
           s == Drop(g_s, 1)
<1>1. AtOpcode("BIND_ARGS")
  BY DEF BindArgs
<1>2. /\ p = 0 /\ C.args /\ g_s \in Seq(ValueSet) /\ Current.bottom \in Nat /\ Binding(Current)
      /\ Values(Current, g_s) /\ OnTop(Current, ts, g_s) /\ Laid(Current)
      /\ Takes(C.ops, p) = 1 /\ Leaves(Opcode) = 0
  BY <1>1, AtPosition DEF Operands, Over, Binding, Takes, Leaves, C
<1>3. CASE g_s # <<>>
  <2>1. /\ s \in Seq(ValueSet) /\ Len(s) = Len(g_s) - 1
        /\ \A j \in 1 .. Len(g_s) - 1 : s[j] = g_s[j]
        /\ \A j \in DOMAIN s : j \in 1 .. Len(g_s) - 1 /\ j \in DOMAIN g_s /\ j # Len(g_s)
    <3>1. 1 \in 0 .. Len(g_s)
      BY <1>2, <1>3
    <3>2. /\ s \in Seq(ValueSet) /\ Len(s) = Len(g_s) - 1
          /\ \A j \in 1 .. Len(g_s) - 1 : s[j] = g_s[j]
      BY <1>2, <3>1, DropProperties
    <3> HIDE DEF s
    <3> QED BY <1>2, <3>1, <3>2
  <2> HIDE DEF s
  <2>2. NoOdd(s)
    BY <1>2, <2>1 DEF Values, NoOdd
  <2>3. CASE Fail(Next1(s)) /\ ~Stray(Current, g_s)
    <3>1. Spares(s, Len(g_s) - Takes(C.ops, p))
      BY <1>2, <2>1, <2>2 DEF Spares, NoOdd
    <3> QED BY <1>1, <2>1, <2>3, <3>1, FailKeeps
  <2>4. CASE Fail(Next1(s)) /\ Stray(Current, g_s)
    <3>1. ~CallsBind(code) /\ (ts # <<>> => Len(g_s) = Below(Head(ts)) /\ Current.bottom >= Below(Head(ts)))
      BY <1>2, <2>4 DEF OnTop
    <3>2. Yields(Advanced, ts, s)
      <4>1. CASE ts # <<>>
        <5>1. Below(Head(ts)) \in Int /\ Advanced.bottom = Current.bottom
          BY <1>1, <4>1, AtPosition, AdvancedIs, Waiting
        <5> QED BY <1>2, <2>1, <2>2, <3>1, <4>1, <5>1 DEF Yields, NoOdd
      <4> QED BY <4>1 DEF Yields
    <3>3. ~IsCatched(Advanced.blocks)
      <4>1. Arrives(n, 0, <<0>>, 0) /\ Current.blocks \in Seq(BlockSet)
        BY <1>1, AtPosition, CodeFits DEF Fits
      <4>2. BlocksAre(Current.blocks, <<0>>, Current.bottom, n)
        BY <1>2, <4>1, LaidBlocks DEF Laid, Arrives
      <4>3. Len(Current.blocks) = 1 /\ Current.blocks[1].out = 0
        BY <4>1, <4>2 DEF BlocksAre
      <4>4. Current.blocks[1].catched <=> \E j \in 1 .. Len(Current.blocks) : Current.blocks[j].out > 0
        BY <1>1, <4>1, <4>3, AtOpcodeGood DEF GoodFrame, ExactBlocks
      <4>5. ~Current.blocks[1].catched
        BY <4>3, <4>4
      <4>6. Advanced.blocks = Current.blocks
        BY <1>1, AdvancedIs
      <4> QED BY <4>1, <4>3, <4>5, <4>6 DEF IsCatched
    <3>4. Fail(Machine(<<Advanced>> \o ts, s)) /\ code \in Codes /\ Here \in ValueSet
      BY <1>1, <2>4, AdvancedIs, AtOpcodeGood DEF Inv
    <3> QED BY <1>1, <2>1, <3>2, <3>3, <3>4, AdvancedIs, RaiseKeeps
  <2>5. CASE Top(g_s).type = "vec" /\ Continue(Next1(s))
    <3>1. ~Stray(Current, g_s)
      BY <1>3, <2>5 DEF Stray, VecOnTop
    <3>2. /\ Len(g_s) = Height(Current) /\ Current.bottom >= Arg(Current)
          /\ ts # <<>> => Current.bottom = Below(Head(ts)) + Arg(Current)
      BY <1>2, <3>1 DEF OnTop
    <3>3. Arrives(n, p + 1, n.nest[p], n.height[p] - Takes(C.ops, p) + Leaves(Opcode))
      BY <1>1, AtPosition DEF Flows, Plain
    <3>4. Advanced.esp \in N(Advanced).at /\ Advanced \in FrameSet
      BY <1>1, <3>3, AdvancedIs DEF Arrives, GoodFrame
    <3>5. Values(Advanced, s)
      BY <1>1, <2>2, <3>4, AdvancedIs, ValuesNext
    <3>6. Len(s) = Height(Current) - Takes(C.ops, p) + Leaves(Opcode)
      BY <1>2, <2>1, <3>2
    <3>7. Order(Next1(s).frames, Next1(s).g_s)
      BY <1>1, <3>2, <3>5, <3>6, PlainNext DEF Plain
    <3> QED BY <2>5, <3>7, ContinueKeeps
  <2> QED BY <1>3, <2>3, <2>4, <2>5 DEF BindArgs, s
<1> QED BY <1>3, CrashKeeps DEF BindArgs

\* What a call finds on the stack and passes on.
LEMMA CallPlace ==
    ASSUME Inv, Order(frames, g_s), AtOpcode("CALL_FUNC")
    PROVE  LET t == Takes(C.ops, Current.esp)
           IN  /\ ~Stray(Current, g_s) /\ g_s # <<>>
               /\ HasArgs <=> Given(C.ops, Current.esp)
               /\ t = IF HasArgs THEN 2 ELSE 1
               /\ t <= Len(g_s)
               /\ Drop(g_s, t) \in Seq(ValueSet) /\ Len(Drop(g_s, t)) = Len(g_s) - t
               /\ NoOdd(Drop(g_s, t))
               /\ Passed \in Seq(ValueSet)
               /\ Len(Passed) = Len(g_s) - t + (IF HasArgs THEN 1 ELSE 0)
               /\ \A j \in DOMAIN Passed : Passed[j].type \in Odd =>
                     HasArgs /\ j = Len(Passed) /\ Passed[j].type = "vec"
               /\ HasArgs => VecOnTop(Passed)
               /\ Spares(Drop(g_s, t), Len(g_s) - t) /\ Spares(Passed, Len(g_s) - t)
               /\ \A f \in STRING : Callee = Func(f) /\ CallsBind(code) /\ f \in DOMAIN code /\ ~HasArgs
                     => ~code[f].args
<1> DEFINE p == Current.esp
           t == Takes(C.ops, p)
           d == Drop(g_s, t)
<1>1. /\ Opcode.op = "CALL_FUNC" /\ Opcode = C.ops[p + 1] /\ g_s \in Seq(ValueSet)
      /\ Values(Current, g_s) /\ ~Binding(Current) /\ Ops(Current) = C.ops
      /\ p < Len(C.ops) /\ p \in N(Current).at /\ Current \in FrameSet /\ code \in Codes
      /\ C.ops \in Seq(OpcodeSet) /\ p \in Nat /\ Current.bottom \in Nat
  BY AtPosition DEF Over, Operands, Binding, C
<1>2. ~Stray(Current, g_s)
  BY <1>1 DEF Stray
<1>3. t = IF Given(C.ops, p) THEN 2 ELSE 1
  BY <1>1 DEF Takes
<1>4. t <= Len(g_s)
  <2>1. Len(g_s) - t >= Current.bottom - Arg(Current) /\ Current.bottom >= Arg(Current)
        /\ Arg(Current) \in {0, 1} /\ t \in Nat
    BY <1>2, Enough
  <2> QED BY <1>1, <2>1
<1>5. g_s # <<>> /\ t \in 0 .. Len(g_s) /\ Len(g_s) \in DOMAIN g_s
  BY <1>1, <1>3, <1>4
<1>6. HasArgs <=> Given(C.ops, p)
  <2>1. AtCall(Current) /\ (Passing(Current) <=> Given(C.ops, p))
    BY <1>1 DEF Passing, AtCall
  <2>2. VecOnTop(g_s) <=> HasArgs
    BY <1>5 DEF VecOnTop, HasArgs
  <2>3. HasArgs => Passing(Current)
    BY <1>1, <1>5 DEF HasArgs, Top, Values, Odd
  <2> QED BY <1>1, <2>1, <2>2, <2>3 DEF Values
<1>7. /\ d \in Seq(ValueSet) /\ Len(d) = Len(g_s) - t
      /\ \A j \in 1 .. Len(g_s) - t : d[j] = g_s[j]
  BY <1>1, <1>5, DropProperties
<1>8. \A j \in DOMAIN d : j \in 1 .. Len(g_s) - t /\ j \in DOMAIN g_s /\ j # Len(g_s)
  <2>1. t \in 1 .. 2
    BY <1>3
  <2> HIDE DEF t, d
  <2> QED BY <1>1, <1>4, <1>7, <2>1
<1>9. NoOdd(d)
  BY <1>1, <1>7, <1>8 DEF NoOdd, Values
<1>10. Passed = IF HasArgs THEN Append(d, Vec) ELSE d
  BY <1>3, <1>6 DEF Passed
<1> HIDE DEF d
<1>11. /\ Passed \in Seq(ValueSet) /\ Len(Passed) = Len(g_s) - t + (IF HasArgs THEN 1 ELSE 0)
       /\ \A j \in DOMAIN Passed : Passed[j].type \in Odd =>
             HasArgs /\ j = Len(Passed) /\ Passed[j].type = "vec"
       /\ HasArgs => VecOnTop(Passed)
       /\ \A j \in DOMAIN Passed : j <= Len(g_s) - t => j \in DOMAIN d /\ Passed[j] = d[j]
  <2>1. CASE HasArgs
    <3>1. Vec \in ValueSet /\ Vec.type = "vec"
      BY KnownValues DEF Vec, Value
    <3>2. /\ Passed \in Seq(ValueSet) /\ Len(Passed) = Len(d) + 1 /\ Passed[Len(d) + 1] = Vec
          /\ \A j \in 1 .. Len(d) : Passed[j] = d[j] /\ j \in DOMAIN d
      BY <1>7, <1>10, <2>1, <3>1
    <3>3. \A j \in DOMAIN Passed : j \in 1 .. Len(d) \/ j = Len(d) + 1
      BY <1>7, <3>2
    <3>4. VecOnTop(Passed)
      BY <1>7, <3>1, <3>2 DEF VecOnTop, Top
    <3>5. \A j \in DOMAIN Passed : Passed[j].type \in Odd => j = Len(Passed) /\ Passed[j].type = "vec"
      BY <1>9, <3>1, <3>2, <3>3 DEF NoOdd
    <3>6. \A j \in DOMAIN Passed : j <= Len(d) => j \in 1 .. Len(d)
      BY <1>7, <3>3
    <3> QED BY <1>7, <2>1, <3>2, <3>4, <3>5, <3>6
  <2>2. CASE ~HasArgs
    BY <1>7, <1>9, <1>10, <2>2 DEF NoOdd
  <2> QED BY <2>1, <2>2
<1>12. Spares(d, Len(g_s) - t)
  BY <1>1, <1>3, <1>4, <1>7, <1>9 DEF Spares, NoOdd
<1>13. Spares(Passed, Len(g_s) - t)
  <2>1. Len(Passed) >= Len(g_s) - t
    <3>1. t \in Nat
      BY <1>3
    <3> HIDE DEF t
    <3> QED BY <1>1, <1>11, <3>1
  <2>2. \A j \in DOMAIN Passed : j <= Len(g_s) - t => Passed[j].type \notin Odd
    BY <1>9, <1>11 DEF NoOdd
  <2> QED BY <2>1, <2>2 DEF Spares
<1>14. ASSUME NEW f \in STRING, Callee = Func(f), CallsBind(code), f \in DOMAIN code, ~HasArgs
       PROVE  ~code[f].args
  <2>1. AtCall(Current) /\ ~Passing(Current)
    BY <1>1, <1>6, <1>14 DEF Passing, AtCall
  <2>2. Top(g_s) \in {Obj, Func(C.ops[p].name)}
    BY <1>1, <1>14, <2>1 DEF Values
  <2>3. Callee = Top(g_s)
    BY <1>14 DEF Callee
  <2>4. f = C.ops[p].name
    BY <1>14, <2>2, <2>3 DEF Obj, Func, Value
  <2>5. C.ops[p].name \in DOMAIN code => ~code[C.ops[p].name].args
    BY <1>1, <1>14, <2>1, CalledByName
  <2> QED BY <1>14, <2>4, <2>5
<1> QED BY <1>2, <1>3, <1>4, <1>5, <1>6, <1>7, <1>9, <1>11, <1>12, <1>13, <1>14 DEF d

LEMMA FrameNewIs ==
    ASSUME NEW c, NEW bottom
    PROVE  LET g == frame_new(c, bottom)
           IN  /\ g.code = c /\ g.esp = 0 /\ g.bottom = bottom
               /\ Len(g.blocks) = 1 /\ \A i \in DOMAIN g.blocks : i = 1 /\ g.blocks[i].out = 0
<1> DEFINE x == [out |-> 0, bottom |-> bottom, catched |-> 0 > 0 \/ IsCatched(<<>>)]
           g == frame_new(c, bottom)
<1>1. g.code = c /\ g.esp = 0 /\ g.bottom = bottom /\ g.blocks = <<x>> \o <<>>
  BY DEF frame_new, frame_enter_block
<1>2. x.out = 0
  OBVIOUS
<1> HIDE DEF x, g
<1>3. Len(<<x>> \o <<>>) = 1 /\ \A i \in DOMAIN (<<x>> \o <<>>) : i = 1 /\ (<<x>> \o <<>>)[i] = x
  OBVIOUS
<1> QED BY <1>1, <1>2, <1>3 DEF g

LEMMA CallFuncKeeps ==
    ASSUME Inv, Order(frames, g_s), CallFunc
    PROVE  Keeps'
<1> DEFINE p == Current.esp
           t == Takes(C.ops, p)
           ts == Tail(frames)
           n == N(Current)
<1>1. AtOpcode("CALL_FUNC")
  BY DEF CallFunc
<1>2. /\ ~Stray(Current, g_s) /\ t = (IF HasArgs THEN 2 ELSE 1) /\ g_s \in Seq(ValueSet)
      /\ HasArgs <=> Given(C.ops, p)
      /\ Opcode = C.ops[p + 1] /\ Opcode.op = "CALL_FUNC" /\ p \in Nat
  BY <1>1, CallPlace, AtPosition
<1>3. CASE Fail(Next1(Drop(g_s, IF HasArgs THEN 2 ELSE 1)))
  <2>1. Fail(Next1(Drop(g_s, t)))
    BY <1>2, <1>3
  <2>2. Drop(g_s, t) \in Seq(ValueSet) /\ Spares(Drop(g_s, t), Len(g_s) - t)
    BY <1>1, CallPlace
  <2> QED BY <1>1, <1>2, <2>1, <2>2, FailKeeps
<1>4. CASE Fail(Next1(Passed))
  <2>1. Passed \in Seq(ValueSet) /\ Spares(Passed, Len(g_s) - t)
    BY <1>1, CallPlace
  <2> QED BY <1>1, <1>2, <1>4, <2>1, FailKeeps
<1>5. ASSUME NEW f \in DOMAIN code, Callee = Func(f),
             frame_last_opcode.op = "MAKE_VEC" => code[f].args,
             frames' = <<frame_new(f, Len(Passed)), Advanced>> \o ts,
             g_s' = Passed, code' = code, status' = status
      PROVE  Keeps'
  <2> DEFINE g == frame_new(f, Len(Passed))
             us == <<Advanced>> \o ts
  <2>1. /\ code \in Codes /\ f \in STRING /\ code[f].args \in BOOLEAN /\ Passed \in Seq(ValueSet)
        /\ Len(Passed) = Len(g_s) - t + (IF HasArgs THEN 1 ELSE 0)
    BY <1>1, CallPlace, CodesAssumption DEF Inv
  <2>2. HasArgs => code[f].args
    BY <1>1, <1>2, <1>5, AtPosition DEF Given, frame_last_opcode
  <2>3. CallsBind(code) /\ ~HasArgs => ~code[f].args
    BY <1>1, <1>5, <2>1, CallPlace
  <2>4. GoodFrame(g)
    BY <2>1, FrameNewGood
  <2>5. /\ g.code = f /\ g.esp = 0 /\ g.bottom = Len(Passed)
        /\ Len(g.blocks) = 1 /\ \A i \in DOMAIN g.blocks : i = 1 /\ g.blocks[i].out = 0
    BY FrameNewIs
  <2> HIDE DEF g
  <2>6. g \in FrameSet /\ N(g) = Note(code[f]) /\ Ops(g) = code[f].ops
    BY <2>4, <2>5 DEF GoodFrame, N, Ops
  <2>7. Arrives(N(g), 0, <<0>>, 0)
    BY <2>1, <2>5, <2>6, CodeFits DEF Fits
  <2>8. Laid(g)
    BY <2>5, <2>7 DEF Laid, LaidAt, Arrives
  <2>9. /\ Advanced \in FrameSet /\ N(Advanced) = n /\ Advanced.esp = p + 1
        /\ Advanced.bottom = Current.bottom /\ Arg(Advanced) = Arg(Current)
        /\ Ops(Advanced) = C.ops /\ Advanced.blocks = Current.blocks
        /\ ts \in Seq(FrameSet) /\ Under(ts)
    BY <1>1, AdvancedIs, AtPosition DEF GoodFrame
  <2>10. Arrives(n, p + 1, n.nest[p], n.height[p] - t + 1)
    BY <1>1, <1>2, AtPosition DEF Flows, Plain, Leaves
  <2>11. Laid(Advanced) /\ Called(Advanced)
    <3>1. BlocksAre(Current.blocks, n.nest[p], Current.bottom, n) /\ p \in n.at
      BY <1>1, AtPosition, LaidBlocks DEF Over, Laid
    <3>2. Laid(Advanced)
      BY <2>9, <2>10, <3>1, LaidBlocks DEF Laid, Arrives
    <3>3. Called(Advanced)
      BY <1>2, <2>9, <3>1 DEF Called
    <3> QED BY <3>2, <3>3
  <2>12. Seated(Advanced, ts)
    BY <1>1, <1>2, FailPlace
  <2>13. Under(us)
    <3>1. /\ us \in Seq(FrameSet) /\ us[1] = Advanced /\ Len(us) = Len(ts) + 1
          /\ \A k \in 1 .. Len(ts) : us[k + 1] = ts[k]
      BY <2>9
    <3> HIDE DEF us
    <3>2. ASSUME NEW k \in DOMAIN us
          PROVE  Laid(us[k]) /\ Called(us[k]) /\ us[k].bottom >= Arg(us[k])
      <4>1. CASE k = 1
        BY <2>11, <2>12, <3>1, <4>1 DEF Seated
      <4>2. CASE k # 1
        <5>1. k - 1 \in DOMAIN ts /\ us[k] = ts[k - 1]
          BY <2>9, <3>1, <4>2
        <5> QED BY <2>9, <5>1 DEF Under
      <4> QED BY <4>1, <4>2
    <3>3. ASSUME NEW k \in 2 .. Len(us)
          PROVE  us[k - 1].bottom = Below(us[k]) + Arg(us[k - 1])
      <4>1. CASE k = 2
        <5>1. Len(ts) >= 1 /\ 1 \in 1 .. Len(ts) /\ us[1 + 1] = ts[1]
          BY <2>9, <3>1, <4>1
        <5>2. ts # <<>> /\ us[k] = Head(ts) /\ us[k - 1] = Advanced
          <6> HIDE DEF ts
          <6> QED BY <2>9, <3>1, <4>1, <5>1
        <5> QED BY <2>12, <5>2 DEF Seated
      <4>2. CASE k # 2
        <5>1. k - 1 \in 2 .. Len(ts) /\ us[k] = ts[k - 1] /\ us[k - 1] = ts[k - 1 - 1]
          <6>1. k - 1 \in 1 .. Len(ts) /\ k - 1 - 1 \in 1 .. Len(ts)
            BY <2>9, <3>1, <4>2
          <6>2. us[k - 1 + 1] = ts[k - 1] /\ us[k - 1 - 1 + 1] = ts[k - 1 - 1]
            BY <3>1, <6>1
          <6> QED BY <4>2, <6>1, <6>2
        <5> QED BY <2>9, <5>1 DEF Under
      <4> QED BY <4>1, <4>2
    <3> QED BY <3>2, <3>3 DEF Under
  <2>14. us # <<>> /\ Head(us) = Advanced
    BY <2>9
  <2> HIDE DEF us
  <2>15. Below(Advanced) = Len(g_s) - t
    <3>1. Len(g_s) = Current.bottom + n.height[p] /\ t \in Nat
      BY <1>1, <1>2, Enough DEF Height
    <3>2. n.height[p] \in Int /\ Current.bottom \in Nat
      BY <1>1, AtPosition
    <3>3. Below(Advanced) = Height(Advanced) - 1
      BY DEF Below
    <3>4. Height(Advanced) = Current.bottom + n.height[p + 1] /\ n.height[p + 1] = n.height[p] - t + 1
      BY <2>9, <2>10 DEF Height, Arrives
    <3> HIDE DEF t, n
    <3> QED BY <3>1, <3>2, <3>3, <3>4
  <2>16. Values(g, Passed)
    <3>1. ~Passing(g)
      BY <2>5 DEF Passing, Given
    <3>2. ~(CallsBind(code) /\ AtCall(g))
      BY <2>1, <2>5, <2>6, <2>8, <3>1, CalledByName DEF Laid, LaidAt
    <3>3. \A j \in DOMAIN Passed : Passed[j].type \in Odd =>
             HasArgs /\ j = Len(Passed) /\ Passed[j].type = "vec"
      BY <1>1, CallPlace
    <3>4. HasArgs => Binding(g)
      BY <2>2, <2>5 DEF Binding
    <3> QED BY <3>1, <3>2, <3>3, <3>4 DEF Values
  <2>17. Len(Passed) = Height(g)
    BY <2>1, <2>5, <2>7 DEF Height, Arrives
  <2>18. Stray(g, Passed) <=> code[f].args /\ ~HasArgs
    <3>1. Binding(g) <=> code[f].args
      BY <2>5 DEF Binding
    <3>2. HasArgs => VecOnTop(Passed)
      BY <1>1, CallPlace
    <3>3. ~HasArgs => ~VecOnTop(Passed)
      <4>1. \A j \in DOMAIN Passed : Passed[j].type \in Odd => HasArgs
        BY <1>1, CallPlace
      <4> QED BY <2>1, <4>1 DEF VecOnTop, Top, Odd
    <3> QED BY <3>1, <3>2, <3>3 DEF Stray
  <2>19. OnTop(g, us, Passed)
    <3>1. Len(g_s) \in Nat /\ t \in Nat /\ t <= Len(g_s)
      BY <1>1, <1>2, CallPlace
    <3>2. Arg(g) = IF code[f].args THEN 1 ELSE 0
      BY <2>5 DEF Arg
    <3> HIDE DEF t
    <3>3. CASE Stray(g, Passed)
      BY <2>1, <2>3, <2>5, <2>14, <2>15, <2>18, <3>1, <3>3 DEF OnTop
    <3>4. CASE ~Stray(g, Passed)
      <4>1. Arg(g) = IF HasArgs THEN 1 ELSE 0
        BY <2>2, <2>18, <3>2, <3>4
      <4>2. g.bottom >= Arg(g) /\ g.bottom = Below(Head(us)) + Arg(g)
        BY <2>1, <2>5, <2>14, <2>15, <3>1, <4>1
      <4> QED BY <2>17, <3>4, <4>2 DEF OnTop
    <3> QED BY <3>3, <3>4
  <2>20. frames' = <<g>> \o us /\ Head(<<g>> \o us) = g /\ Tail(<<g>> \o us) = us
    <3>1. us \in Seq(FrameSet) /\ <<g, Advanced>> \o ts = <<g>> \o us
      BY <2>6, <2>9 DEF us
    <3>2. frames' = <<g, Advanced>> \o ts
      BY <1>5 DEF g
    <3> QED BY <3>1, <3>2
  <2>21. Order(<<g>> \o us, Passed)
    BY <2>8, <2>13, <2>16, <2>19, <2>20 DEF Order, Over
  <2>22. Order(frames, g_s)'
    BY <1>5, <2>20, <2>21, Carried
  <2>23. status' = "run"
    BY <1>1, <1>5 DEF AtOpcode
  <2> QED BY <2>22, <2>23 DEF Keeps
<1> QED BY <1>3, <1>4, <1>5 DEF CallFunc

\* A caller goes on with one value more than it had below the call.
LEMMA ReturnsKeep ==
    ASSUME Inv, Order(frames, g_s), NEW op \in {"RETURN", "END_PROGRAM"}, AtOpcode(op),
           \/ PlayReturns(Machine(Tail(frames), g_s), 1)
           \/ op = "RETURN" /\ Fail(Next1(Drop(g_s, 1)))
    PROVE  Keeps'
<1> DEFINE p == Current.esp
           ts == Tail(frames)
           g == Head(ts)
<1>2. op \notin {"BIND_ARGS", "CALL_FUNC"} /\ Opcode.op = op /\ Opcode = C.ops[p + 1]
  BY AtPosition
<1>3. CASE op = "RETURN" /\ Fail(Next1(Drop(g_s, 1)))
  <2>1. Takes(C.ops, p) = 1
    BY <1>2, <1>3 DEF Takes
  <2>2. ~Stray(Current, g_s) /\ Drop(g_s, 1) \in Seq(ValueSet)
        /\ Spares(Drop(g_s, 1), Len(g_s) - Takes(C.ops, p))
    <3>1. 1 \in 0 .. Takes(C.ops, p)
      BY <2>1
    <3> QED BY <1>2, <3>1, Operate
  <2> QED BY <1>3, <2>2, FailKeeps
<1>4. CASE PlayReturns(Machine(ts, g_s), 1)
  <2>1. /\ Len(g_s) = Height(Current) /\ NoOdd(g_s)
        /\ ts # <<>> => Current.bottom = Below(Head(ts)) + Arg(Current)
    BY <1>2, Ordinary
  <2>2. N(Current).height[p] = Ground(C) + 1
    BY <1>2, AtPosition DEF Flows
  <2>3. Ground(C) = 0 - Arg(Current) /\ Arg(Current) \in {0, 1}
    BY AtPosition DEF Ground, Arg, C
  <2>4. Machine(ts, g_s).frames = ts /\ Machine(ts, g_s).g_s = g_s
    BY DEF Machine
  <2>5. ASSUME ts # <<>> PROVE Order(ts, g_s)
    <3>1. /\ g \in FrameSet /\ Seated(g, Tail(ts)) /\ Laid(g) /\ code \in Codes
          /\ g.esp - 1 \in Nat /\ g.esp - 1 < Len(Ops(g)) /\ Ops(g)[g.esp - 1 + 1].op = "CALL_FUNC"
          /\ Below(g) \in Int /\ g.esp \in Nat
      <4>1. ts \in Seq(FrameSet) /\ Under(ts) /\ code \in Codes
        BY AdvancedIs, AtPosition
      <4>2. /\ g \in FrameSet /\ Seated(g, Tail(ts)) /\ Laid(g)
            /\ g.esp - 1 \in Nat /\ g.esp - 1 < Len(Ops(g)) /\ Ops(g)[g.esp - 1 + 1].op = "CALL_FUNC"
            /\ Below(g) \in Int
        BY <2>5, <4>1, Waiting
      <4> QED BY <4>1, <4>2, CodeFits
    <3> HIDE DEF g
    <3>2. g.esp > 0 /\ Ops(g)[g.esp].op = "CALL_FUNC"
      BY <3>1
    <3>3. ~Passing(g)
      BY <3>2 DEF Passing, Given
    <3>4. ~(CallsBind(code) /\ AtCall(g))
      BY <3>1, <3>2, <3>3, CalledByName DEF Laid, LaidAt
    <3>5. Values(g, g_s)
      BY <2>1, <3>3, <3>4 DEF Values, NoOdd
    <3>6. Len(g_s) = Height(g)
      <4>1. Len(g_s) = Current.bottom + N(Current).height[p]
        BY <2>1 DEF Height
      <4>2. Current.bottom = Below(g) + Arg(Current)
        BY <2>1, <2>5 DEF g
      <4>3. Len(g_s) = Below(g) + 1
        BY <2>2, <2>3, <3>1, <4>1, <4>2
      <4>4. Height(g) \in Int
        BY <3>1, CodeFits DEF Height, Laid, LaidAt
      <4> QED BY <4>3, <4>4 DEF Below
    <3>7. ~Stray(g, g_s)
      BY <3>2 DEF Stray, Binding
    <3>8. Over(g, Tail(ts), g_s)
      BY <3>1, <3>5, <3>6, <3>7 DEF Over, OnTop, Seated
    <3> QED BY <3>1, <3>8 DEF Order, Seated, g
  <2>6. Order(ts, g_s)
    BY <2>5 DEF Order
  <2> QED BY <1>4, <2>4, <2>6, ReturnKeeps
<1> QED BY <1>3, <1>4

LEMMA PlayFailedKeeps ==
    ASSUME Uncaught(frames), PlayFailed
    PROVE  Keeps'
<1>1. PICK s : HANDLE_EXCEPTION(Machine(frames, s))
  BY DEF PlayFailed
<1>2. ~Recoverable(Machine(frames, s))
  BY DEF Recoverable, Machine, Uncaught
<1> QED BY <1>1, <1>2, HandleKeeps

-----------------------------------------------------------------------------
(***************************************************************************)
(* Frames keep to the layout.                                              *)
(***************************************************************************)
LEMMA InitKeeps ==
    ASSUME Init
    PROVE  Keeps
<1> DEFINE f == frame_new(Global, 0)
<1>1. code \in Codes /\ Global \in DOMAIN code /\ ~code[Global].args
  BY CodesAssumption, LayoutAssumption DEF Init
<1>2. GoodFrame(f) /\ f \in FrameSet
  BY <1>1, FrameNewGood DEF GoodFrame
<1>3. /\ f.code = Global /\ f.esp = 0 /\ f.bottom = 0
      /\ Len(f.blocks) = 1 /\ \A i \in DOMAIN f.blocks : i = 1 /\ f.blocks[i].out = 0
  BY FrameNewIs
<1>4. frames = <<f>> /\ g_s = <<>> /\ status = "run"
  BY DEF Init
<1> HIDE DEF f
<1>5. Arrives(N(f), 0, <<0>>, 0)
  BY <1>1, <1>2, CodeFits DEF Fits
<1>6. Laid(f)
  BY <1>3, <1>5 DEF Laid, LaidAt, Arrives
<1>7. ~Binding(f) /\ Arg(f) = 0 /\ Height(f) = 0
  BY <1>1, <1>3, <1>5 DEF Binding, Arg, Height, Arrives
<1>8. ~Passing(f)
  BY <1>3 DEF Passing, Given
<1>9. ~(CallsBind(code) /\ AtCall(f))
  BY <1>1, <1>2, <1>3, <1>6, <1>8, CalledByName DEF Laid, LaidAt
<1>10. Values(f, <<>>)
  BY <1>8, <1>9 DEF Values
<1>11. OnTop(f, <<>>, <<>>)
  BY <1>3, <1>7 DEF OnTop, Stray
<1>12. Under(<<>>)
  BY DEF Under
<1>13. Head(frames) = f /\ Tail(frames) = <<>>
  BY <1>4
<1>14. Order(frames, g_s)
  BY <1>4, <1>6, <1>10, <1>11, <1>12, <1>13 DEF Order, Over
<1> QED BY <1>4, <1>14 DEF Keeps

LEMMA StepKeeps ==
    ASSUME Inv, Keeps, [Next]_vars
    PROVE  Keeps'
<1>1. ASSUME NEW op, AtOpcode(op) PROVE Order(frames, g_s)
  BY <1>1 DEF Keeps, AtOpcode
<1>2. CASE LoadConst \/ LoadVar \/ Add \/ PopStack \/ StoreLocal \/ StoreException
  <2>1. Order(frames, g_s)
    BY <1>1, <1>2 DEF LoadConst, LoadVar, Add, PopStack, StoreLocal, StoreException
  <2> QED BY <1>2, <2>1, SimpleKeeps
<1>3. CASE MakeVec
  BY <1>1, <1>3, MakeVecKeeps DEF MakeVec
<1>4. CASE CallFunc
  BY <1>1, <1>4, CallFuncKeeps DEF CallFunc
<1>5. CASE PlayFailed
  <2>1. Uncaught(frames)
    BY <1>5 DEF PlayFailed, Keeps
  <2> QED BY <1>5, <2>1, PlayFailedKeeps
<1>6. CASE BindArgs
  BY <1>1, <1>6, BindArgsKeeps DEF BindArgs
<1>7. CASE EnterBlock \/ LeaveBlock \/ PushBlocks \/ PopBlocks
  <2>1. Order(frames, g_s)
    BY <1>1, <1>7 DEF EnterBlock, LeaveBlock, PushBlocks, PopBlocks
  <2> QED BY <1>7, <2>1, BlockKeeps
<1>8. CASE Jump \/ JumpIf \/ JumpCase \/ JumpDefault
  <2>1. Order(frames, g_s)
    BY <1>1, <1>8 DEF Jump, JumpIf, JumpCase, JumpDefault
  <2> QED BY <1>8, <2>1, JumpKeeps
<1>9. CASE Return \/ EndProgram
  <2>1. CASE Return
    <3>1. /\ AtOpcode("RETURN")
          /\ PlayReturns(Machine(Tail(frames), g_s), 1) \/ Fail(Next1(Drop(g_s, 1)))
      BY <2>1 DEF Return
    <3>2. Order(frames, g_s)
      BY <1>1, <3>1
    <3> QED BY <3>1, <3>2, ReturnsKeep
  <2>2. CASE EndProgram
    <3>1. AtOpcode("END_PROGRAM") /\ PlayReturns(Machine(Tail(frames), g_s), 1)
      BY <2>2 DEF EndProgram
    <3>2. Order(frames, g_s)
      BY <1>1, <3>1
    <3> QED BY <3>1, <3>2, ReturnsKeep
  <2> QED BY <1>9, <2>1, <2>2
<1>10. CASE FallOff
  <2>1. Machine(frames, g_s).frames = frames /\ Machine(frames, g_s).g_s = g_s
    BY DEF Machine
  <2>2. Order(frames, g_s) /\ PlayReturns(Machine(frames, g_s), 1)
    BY <1>10 DEF FallOff, Keeps
  <2> QED BY <2>1, <2>2, ReturnKeeps
<1>11. CASE NoFrame
  BY <1>11, CrashKeeps DEF NoFrame
<1>12. CASE UNCHANGED vars
  <2>1. code' = code /\ frames' = frames /\ g_s' = g_s /\ status' = status
    BY <1>12 DEF vars
  <2>2. Order(frames, g_s) => Order(frames, g_s)'
    BY <2>1, Carried
  <2> QED BY <2>1, <2>2 DEF Keeps, Uncaught
<1> QED BY <1>2, <1>3, <1>4, <1>5, <1>6, <1>7, <1>8, <1>9, <1>10, <1>11, <1>12 DEF Next

\* Frames have the blocks and operands of their place in the layout of their code,
\* through every jump, call, error and recovery of any program that has one.
THEOREM LayoutKept == Spec => []Keeps
<1>1. Init => Keeps
  BY InitKeeps
<1>2. Inv /\ Keeps /\ [Next]_vars => Keeps'
  BY StepKeeps
<1> QED BY <1>1, <1>2, Invariant, PTL DEF Spec

-----------------------------------------------------------------------------
(***************************************************************************)
(* What a reader of the text may rely on.                                  *)
(***************************************************************************)
\* The number of the open blocks from e on is the position of its block.
LEMMA OpenPlace ==
    ASSUME NEW ops \in Seq(OpcodeSet), NEW p \in Nat, NEW e \in Open(ops, p)
    PROVE  /\ Cardinality(Open(ops, p)) \in Nat
           /\ Cardinality({d \in Open(ops, p) : d >= e}) \in 1 .. Cardinality(Open(ops, p))
<1> DEFINE open == Open(ops, p)
           from == {d \in open : d >= e}
<1>1. open \subseteq 1 .. p
  BY DEF Open
<1>2. IsFiniteSet(1 .. p)
  BY FS_Interval
<1>3. IsFiniteSet(open)
  BY <1>1, <1>2, FS_Subset
<1> HIDE DEF open
<1>4. IsFiniteSet(from) /\ Cardinality(from) <= Cardinality(open)
  BY <1>3, FS_Subset
<1>5. e \in from
  BY <1>1 DEF open
<1>6. Cardinality(from) # 0
  BY <1>4, <1>5, FS_EmptySet
<1>7. Cardinality(from) \in Nat /\ Cardinality(open) \in Nat
  BY <1>3, <1>4, FS_CardinalityType
<1> QED BY <1>4, <1>6, <1>7 DEF open

LEMMA TextOfLaid ==
    ASSUME code \in Codes, NEW f \in FrameSet, Laid(f),
           ~(f.esp > 0 /\ Ops(f)[f.esp].op \in {"POP_BLOCKS", "PUSH_BLOCKS"})
    PROVE  MatchesText(f)
<1> DEFINE n == N(f)
           p == f.esp
           ops == Ops(f)
           open == Open(ops, p)
           q == n.nest[p]
<1>1. /\ p \in n.at /\ Len(f.blocks) = Len(q)
      /\ \A i \in DOMAIN f.blocks : f.blocks[i].out = q[i]
  BY DEF Laid, LaidAt
<1>2. /\ ops = code[f.code].ops /\ ops \in Seq(OpcodeSet) /\ p \in Nat /\ f.blocks \in Seq(BlockSet)
      /\ ReadsAs(code[f.code], n)
  BY CodeFits
<1>3. /\ Len(q) = 1 + Cardinality(open)
      /\ \A e \in open : q[Cardinality({d \in open : d >= e})] = ops[e].para
  BY <1>1, <1>2 DEF ReadsAs
<1>4. ASSUME NEW e \in open
      PROVE  f.blocks[Cardinality({d \in open : d >= e})].out = ops[e].para
  <2>1. /\ Cardinality(open) \in Nat
        /\ Cardinality({d \in open : d >= e}) \in 1 .. Cardinality(open)
    BY <1>2, OpenPlace
  <2>2. Cardinality({d \in open : d >= e}) \in DOMAIN f.blocks
    BY <1>1, <1>2, <1>3, <2>1
  <2> QED BY <1>1, <1>3, <2>2
<1> QED BY <1>1, <1>3, <1>4 DEF MatchesText

\* The blocks of every frame are those that its place in the text is nested in.
THEOREM BlocksAreTheText == Spec => []BlocksMatchNesting
<1>1. ASSUME Inv, Keeps
      PROVE  BlocksMatchNesting
  <2> SUFFICES ASSUME status = "run", NEW k \in DOMAIN frames,
                      ~(k = 1 /\ Current.esp > 0 /\ frame_last_opcode.op \in {"POP_BLOCKS", "PUSH_BLOCKS"})
               PROVE  MatchesText(frames[k])
    BY DEF BlocksMatchNesting
  <2>1. /\ frames \in Seq(FrameSet) /\ frames # <<>> /\ code \in Codes /\ frames[k] \in FrameSet
    BY <1>1 DEF Inv, TypeOK
  <2>2. Order(frames, g_s)
    BY <1>1 DEF Keeps
  <2>3. CASE k = 1
    <3>1. frames[k] = Current /\ Laid(Current)
      BY <2>1, <2>2, <2>3 DEF Order, Over, Current
    <3>2. ~(Current.esp > 0 /\ Ops(Current)[Current.esp].op \in {"POP_BLOCKS", "PUSH_BLOCKS"})
      BY <2>3 DEF frame_last_opcode
    <3> QED BY <2>1, <3>1, <3>2, TextOfLaid
  <2>4. CASE k # 1
    <3>1. k - 1 \in DOMAIN Tail(frames) /\ Tail(frames)[k - 1] = frames[k]
      BY <2>1, <2>4
    <3>2. Laid(frames[k]) /\ Called(frames[k])
      BY <2>1, <2>2, <3>1 DEF Order, Under
    <3> QED BY <2>1, <3>2, TextOfLaid DEF Called
  <2> QED BY <2>3, <2>4
<1> QED BY <1>1, Invariant, LayoutKept, PTL

\* A function returns with one value on the stack, where its caller left it.
THEOREM OneValueReturns == Spec => []OneValueAtReturn
<1>1. ASSUME Inv, Keeps
      PROVE  OneValueAtReturn
  <2> SUFFICES ASSUME AtOpcode("RETURN")
               PROVE  Len(g_s) = Current.bottom + (IF code[Current.code].args THEN 0 ELSE 1)
    BY DEF OneValueAtReturn
  <2>1. Order(frames, g_s)
    BY <1>1 DEF Keeps, AtOpcode
  <2>2. Len(g_s) = Current.bottom + N(Current).height[Current.esp]
    BY <1>1, <2>1, Ordinary DEF Height
  <2>3. N(Current).height[Current.esp] = Ground(C) + 1
    BY <1>1, <2>1, AtPosition DEF Flows
  <2> QED BY <2>2, <2>3 DEF Ground, C
<1> QED BY <1>1, Invariant, LayoutKept, PTL

-----------------------------------------------------------------------------
(***************************************************************************)
(* The handler that an error finds.                                        *)
(***************************************************************************)
Conditional == Jumps \cup {"JUMP_TRUE", "JUMP_FALSE", "JUMP_DEFAULT"}
Thrown(s) == s # <<>> /\ Top(s).type = "exception"

\* A frame that recovers at p goes on at the handler of the innermost try whose body
\* holds p, with the exception on the stack if there is one, else with its own.
LEMMA RecoveredIs ==
    ASSUME code \in Codes, NEW f, GoodFrame(f), IsCatched(f.blocks), NEW ts \in Seq(FrameSet),
           NEW p \in N(f).at, p < Len(Ops(f)), LaidAt(f, p), Ops(f)[p + 1].op \notin Conditional,
           NEW s \in Seq(ValueSet), NEW e \in ValueSet,
           Thrown(s) => Top(s) = e, ~Thrown(s) => f.exception = e
    PROVE  LET m == interpreter_recover_exception(Machine(<<f>> \o ts, s))
           IN  /\ Len(m.frames) = Len(ts) + 1
               /\ Head(m.frames).esp = HandlerOf(Ops(f), p)
               /\ Head(m.frames).exception = e
<1> DEFINE g == IF Thrown(s) THEN frame_set_exception(f, e) ELSE f
           h == frame_recover_exception(g)
           i == InnermostTry(g)
           b == g.blocks
           n == N(f)
           q == n.nest[p]
<1>1. /\ GoodFrame(g) /\ g.blocks = f.blocks /\ g.code = f.code /\ g \in FrameSet
      /\ g.exception = e
  BY SetGood DEF GoodFrame
<1>2. /\ interpreter_recover_exception(Machine(<<f>> \o ts, s)).frames = <<h>> \o ts
  <2>1. Machine(<<f>> \o ts, s).g_s = s /\ Machine(<<f>> \o ts, s).frames = <<f>> \o ts
    BY DEF Machine
  <2>2. Head(<<f>> \o ts) = f /\ Tail(<<f>> \o ts) = ts
    OBVIOUS
  <2>3. g = IF s # <<>> /\ s[Len(s)].type = "exception"
            THEN frame_set_exception(f, s[Len(s)]) ELSE f
    BY DEF Thrown, Top
  <2> HIDE DEF g
  <2>4. interpreter_recover_exception(Machine(<<f>> \o ts, s)) =
          Machine(<<h>> \o ts, Cut(s, g.blocks[i].bottom))
    BY <2>1, <2>2, <2>3 DEF interpreter_recover_exception
  <2>5. \A fs, t : Machine(fs, t).frames = fs
    BY DEF Machine
  <2> HIDE DEF h
  <2> QED BY <2>4, <2>5
<1> HIDE DEF g
<1>3. /\ i \in DOMAIN b /\ b[i].out > 0 /\ b \in Seq(BlockSet)
      /\ \A j \in 1 .. i - 1 : b[j].out = 0
  BY <1>1, RecoverGood DEF FrameSet
<1>4. h.esp = b[i].out + 1 /\ h.exception = e /\ GoodFrame(h)
  BY <1>1, RecoverGood DEF frame_recover_exception, FrameSet
<1>5. /\ Len(b) = Len(q)
      /\ \A j \in DOMAIN b : b[j].out = q[j]
  BY <1>1 DEF LaidAt
<1>6. q \in Seq(Nat) /\ Ops(f) = code[f.code].ops /\ ReadsAs(code[f.code], n)
  BY CodeFits DEF GoodFrame
<1>7. i \in DOMAIN q /\ q[i] > 0 /\ \A j \in 1 .. i - 1 : q[j] = 0
  <2> HIDE DEF b, i, q
  <2>1. \A j \in 1 .. i - 1 : j \in DOMAIN b
    BY <1>3
  <2>2. i \in DOMAIN q /\ q[i] = b[i].out
    BY <1>3, <1>5, <1>6
  <2>3. \A j \in 1 .. i - 1 : q[j] = 0
    BY <1>3, <1>5, <2>1
  <2> QED BY <1>3, <2>2, <2>3
<1>8. q[i] + 1 = HandlerOf(Ops(f), p)
  <2> HIDE DEF i
  <2> QED BY <1>6, <1>7 DEF ReadsAs, Conditional
<1>9. h.esp = HandlerOf(Ops(f), p)
  BY <1>3, <1>4, <1>5, <1>8
<1> HIDE DEF h
<1>10. Len(<<h>> \o ts) = Len(ts) + 1 /\ Head(<<h>> \o ts) = h
  OBVIOUS
<1> QED BY <1>2, <1>4, <1>9, <1>10

\* A step that goes on behind the opcode recovers from nothing.
LEMMA GoingOn ==
    ASSUME frames \in Seq(FrameSet), frames # <<>>,
           NEW x, x.esp = Current.esp + 1, NEW s, Continue(With(x, s))
    PROVE  ~Recovers
<1>1. frames' = <<x>> \o Tail(frames)
  BY DEF Continue, Becomes, With, Machine
<1>2. Len(frames') = Len(frames) /\ Head(frames') = x /\ Len(frames) - Len(frames) + 1 = 1
      /\ frames[1] = Current
  BY <1>1 DEF Current
<1>3. At = Current.esp
  BY <1>2 DEF At, Depth, Before
<1> QED BY <1>2, <1>3 DEF Recovers

\* The opcode at hand reports an error, and no earlier exception is in the way.
Reports ==
    \E s \in Seq(ValueSet) :
        /\ Fail(Next1(s)) /\ ~Thrown(s)
        /\ Spares(s, Len(g_s) - Takes(C.ops, Current.esp))

LEMMA CleanReports ==
    ASSUME CallsBind(code), NEW s \in Seq(ValueSet), Fail(Next1(s)), NoOdd(s),
           Spares(s, Len(g_s) - Takes(C.ops, Current.esp))
    PROVE  Reports
<1>1. ~Thrown(s)
  BY DEF Thrown, Top, NoOdd, Odd
<1> QED BY <1>1 DEF Reports

\* An opcode that recovers, in code whose tables are at hand, has reported an error.
LEMMA OpcodeReports ==
    ASSUME Inv, Order(frames, g_s), CallsBind(code), OwnTables, Recovers,
           \/ LoadConst \/ LoadVar \/ Add \/ MakeVec \/ PopStack \/ StoreLocal
           \/ StoreException \/ JumpCase
    PROVE  Reports
<1> DEFINE t == Takes(C.ops, Current.esp)
<1>1. /\ status = "run" /\ status' = "run" /\ frames \in Seq(FrameSet) /\ g_s \in Seq(ValueSet)
  BY DEF Recovers, Inv, TypeOK
<1>2. ~Crash
  BY <1>1 DEF Crash
<1>3. ASSUME NEW op, AtOpcode(op), NEW s, Continue(Next1(s))
      PROVE  FALSE
  <2>1. frames # <<>> /\ Advanced.esp = Current.esp + 1
    BY <1>3, AtPosition, AdvancedIs
  <2>2. ~Continue(Next1(s))
    BY <1>1, <2>1, GoingOn DEF Next1
  <2> QED BY <1>3, <2>2
<1>4. ASSUME NEW op, op \notin {"BIND_ARGS", "CALL_FUNC"}, AtOpcode(op), NEW k \in 0 .. t,
             Fail(Next1(Drop(g_s, k)))
      PROVE  Reports
  BY <1>4, Operate, CleanReports
<1>5. CASE LoadConst
  BY <1>3, <1>5, AtOpcodeGood DEF LoadConst
<1>6. CASE LoadVar
  <2>1. AtOpcode("LOAD_VAR") /\ Fail(Next1(g_s))
    BY <1>2, <1>3, <1>6 DEF LoadVar
  <2>2. t = 0 /\ NoOdd(g_s)
    BY <2>1, AtPosition, Operate DEF Takes
  <2>3. Spares(g_s, Len(g_s) - t)
    BY <1>1, <2>2 DEF Spares, NoOdd
  <2> QED BY <1>1, <2>1, <2>2, <2>3, CleanReports
<1>7. CASE Add
  <2>1. AtOpcode("ADD") /\ Fail(Next1(Drop(g_s, 2)))
    BY <1>3, <1>7 DEF Add
  <2>2. 2 \in 0 .. t
    BY <2>1, AtPosition DEF Takes
  <2> QED BY <1>4, <2>1, <2>2
<1>8. CASE MakeVec \/ PopStack
  BY <1>3, <1>8 DEF MakeVec, PopStack
<1>9. CASE StoreLocal
  <2>1. AtOpcode("STORE_LOCAL") /\ Fail(Next1(Drop(g_s, 1)))
    BY <1>2, <1>3, <1>9 DEF StoreLocal
  <2>2. 1 \in 0 .. t
    BY <2>1, AtPosition DEF Takes
  <2> QED BY <1>4, <2>1, <2>2
<1>10. CASE StoreException
  BY <1>2, <1>3, <1>10 DEF StoreException
<1>11. CASE JumpCase
  <2>1. AtOpcode("JUMP_CASE")
    BY <1>11 DEF JumpCase
  <2>2. ASSUME NEW s, Continue(With(frame_jump(Advanced, Opcode.para), s))
        PROVE  FALSE
    <3>1. frames' = <<frame_jump(Advanced, Opcode.para)>> \o Tail(frames)
      BY <2>2 DEF Continue, Becomes, With, Machine
    <3>2. Head(frames') = frame_jump(Advanced, Opcode.para)
      BY <1>1, <2>1, <3>1, AtPosition
    <3>3. Advanced \in FrameSet /\ Opcode.op = "JUMP_CASE"
      BY <2>1, AtPosition, AdvancedIs DEF GoodFrame
    <3>4. frame_jump(Advanced, Opcode.para).esp = Opcode.para
      BY <3>3 DEF frame_jump, FrameSet
    <3> QED BY <3>2, <3>3, <3>4 DEF Recovers
  <2>3. Fail(Next1(Drop(g_s, 2)))
    BY <1>3, <1>11, <2>1, <2>2 DEF JumpCase
  <2>4. 2 \in 0 .. t
    BY <2>1, AtPosition DEF Takes
  <2> QED BY <1>4, <2>1, <2>3, <2>4
<1> QED BY <1>5, <1>6, <1>7, <1>8, <1>9, <1>10, <1>11

\* So has a call, or a function that binds its arguments.
LEMMA CallReports ==
    ASSUME Inv, Order(frames, g_s), CallsBind(code), Recovers, CallFunc \/ BindArgs
    PROVE  Reports
<1> DEFINE t == Takes(C.ops, Current.esp)
<1>1. /\ status = "run" /\ status' = "run" /\ frames \in Seq(FrameSet) /\ g_s \in Seq(ValueSet)
      /\ Len(frames') <= Len(frames)
  BY DEF Recovers, Inv, TypeOK, Depth
<1>2. CASE CallFunc
  <2>1. AtOpcode("CALL_FUNC")
    BY <1>2 DEF CallFunc
  <2>2. /\ t = (IF HasArgs THEN 2 ELSE 1)
        /\ Drop(g_s, t) \in Seq(ValueSet) /\ NoOdd(Drop(g_s, t)) /\ Spares(Drop(g_s, t), Len(g_s) - t)
        /\ Passed \in Seq(ValueSet) /\ Spares(Passed, Len(g_s) - t)
        /\ \A j \in DOMAIN Passed : Passed[j].type \in Odd => Passed[j].type = "vec"
    BY <2>1, CallPlace
  <2>3. CASE Fail(Next1(Drop(g_s, IF HasArgs THEN 2 ELSE 1)))
    <3>1. Fail(Next1(Drop(g_s, t)))
      BY <2>2, <2>3
    <3> HIDE DEF t
    <3> QED BY <2>2, <3>1, CleanReports DEF t
  <2>4. CASE Fail(Next1(Passed))
    <3>1. ~Thrown(Passed)
      BY <2>2 DEF Thrown, Top, Odd
    <3> QED BY <2>2, <2>4, <3>1 DEF Reports
  <2>5. ASSUME NEW g, frames' = <<g, Advanced>> \o Tail(frames)
        PROVE  FALSE
    <3>1. frames # <<>>
      BY <2>1, AtPosition
    <3>2. Len(frames') = 2 + Len(Tail(frames)) /\ Len(Tail(frames)) = Len(frames) - 1
      BY <1>1, <2>5, <3>1
    <3> QED BY <1>1, <3>1, <3>2
  <2> QED BY <1>2, <2>3, <2>4, <2>5 DEF CallFunc
<1>3. CASE BindArgs
  <2> DEFINE s == Drop(g_s, 1)
  <2>1. AtOpcode("BIND_ARGS") /\ ~Crash
    BY <1>1, <1>3 DEF BindArgs, Crash
  <2>2. /\ Values(Current, g_s) /\ OnTop(Current, Tail(frames), g_s) /\ t = 1
    BY <2>1, AtPosition DEF Over, Takes
  <2>3. ~Stray(Current, g_s)
    BY <2>2 DEF OnTop
  <2>4. g_s # <<>> /\ (Fail(Next1(s)) \/ Continue(Next1(s)))
    BY <1>3, <2>1 DEF BindArgs
  <2>5. ~Continue(Next1(s))
    <3>1. Advanced.esp = Current.esp + 1 /\ frames # <<>>
      BY <2>1, AdvancedIs, AtPosition
    <3> QED BY <1>1, <3>1, GoingOn DEF Next1
  <2>6. s \in Seq(ValueSet) /\ Len(s) = Len(g_s) - 1 /\ \A j \in 1 .. Len(g_s) - 1 : s[j] = g_s[j]
    <3>1. 1 \in 0 .. Len(g_s)
      BY <1>1, <2>4
    <3> QED BY <1>1, <3>1, DropProperties
  <2> HIDE DEF s
  <2>7. \A j \in DOMAIN s : j \in 1 .. Len(g_s) - 1 /\ j \in DOMAIN g_s /\ j # Len(g_s)
    BY <1>1, <2>4, <2>6
  <2>8. NoOdd(s)
    BY <2>2, <2>6, <2>7 DEF Values, NoOdd
  <2>9. Spares(s, Len(g_s) - t)
    BY <1>1, <2>2, <2>6, <2>8 DEF Spares, NoOdd
  <2> QED BY <2>4, <2>5, <2>6, <2>8, <2>9, CleanReports
<1> QED BY <1>2, <1>3

\* Blocks, jumps and returns report nothing; a return that cannot cast its value does.
LEMMA OthersReport ==
    ASSUME Inv, Order(frames, g_s), CallsBind(code), Recovers,
           \/ EnterBlock \/ LeaveBlock \/ PushBlocks \/ PopBlocks
           \/ Jump \/ JumpIf \/ JumpDefault \/ Return \/ EndProgram
    PROVE  Reports
<1> DEFINE t == Takes(C.ops, Current.esp)
           ts == Tail(frames)
<1>1. /\ status = "run" /\ status' = "run" /\ frames \in Seq(FrameSet) /\ g_s \in Seq(ValueSet)
  BY DEF Recovers, Inv, TypeOK
<1>2. ASSUME NEW x, NEW op, AtOpcode(op), x.esp = Current.esp + 1, NEW s, Continue(With(x, s))
      PROVE  FALSE
  <2>1. frames # <<>>
    BY <1>2, AtPosition
  <2> QED BY <1>1, <1>2, <2>1, GoingOn
<1>3. ASSUME NEW op, AtOpcode(op)
      PROVE  Opcode.op = op /\ op \notin Conditional /\ Advanced \in FrameSet /\ Advanced.esp = Current.esp + 1
  BY <1>3, AtPosition, AdvancedIs DEF Recovers, Conditional, GoodFrame
<1>4. CASE EnterBlock \/ LeaveBlock \/ PushBlocks \/ PopBlocks
  <2>1. ~Crash
    BY <1>1 DEF Crash
  <2>2. PICK op, bs, s : AtOpcode(op) /\ Continue(With([Advanced EXCEPT !.blocks = bs], s))
    BY <1>4, <2>1 DEF EnterBlock, LeaveBlock, PushBlocks, PopBlocks, frame_enter_block,
                      frame_leave_block, Entered
  <2>3. [Advanced EXCEPT !.blocks = bs].esp = Current.esp + 1
    BY <1>3, <2>2 DEF FrameSet
  <2> QED BY <1>2, <2>2, <2>3
<1>5. CASE Jump \/ JumpIf \/ JumpDefault
  BY <1>3, <1>5 DEF Jump, JumpIf, JumpDefault, Conditional
<1>6. CASE Return \/ EndProgram
  <2>1. PICK op \in {"RETURN", "END_PROGRAM"} :
          /\ AtOpcode(op)
          /\ \/ PlayReturns(Machine(ts, g_s), 1)
             \/ op = "RETURN" /\ Fail(Next1(Drop(g_s, 1)))
    BY <1>6 DEF Return, EndProgram
  <2>2. ~PlayReturns(Machine(ts, g_s), 1)
    <3> SUFFICES ASSUME PlayReturns(Machine(ts, g_s), 1) PROVE FALSE
      OBVIOUS
    <3>1. frames' = ts /\ frames # <<>>
      BY <2>1, AtPosition DEF PlayReturns, Becomes, Machine
    <3>2. Len(frames') = Len(frames) - 1 /\ Len(frames') >= 1
      BY <1>1, <3>1 DEF Recovers, Depth
    <3>3. Head(frames') = frames[2] /\ Len(frames) - Len(frames') + 1 = 2
      BY <1>1, <3>1, <3>2
    <3>4. frames[2] \in FrameSet /\ frames[2].esp \in Int
      <4>1. 2 \in DOMAIN frames
        BY <1>1, <3>1, <3>2
      <4>2. frames[2] \in FrameSet
        BY <1>1, <4>1
      <4> QED BY <4>2 DEF FrameSet
    <3>5. At = frames[2].esp - 1
      <4>1. Len(frames) \in Nat /\ Len(frames') # Len(frames)
        BY <1>1, <3>2
      <4> QED BY <3>3, <4>1 DEF At, Depth, Before
    <3> QED BY <3>3, <3>4, <3>5 DEF Recovers
  <2>3. op = "RETURN" /\ Fail(Next1(Drop(g_s, 1)))
    BY <2>1, <2>2
  <2>4. 1 \in 0 .. t
    BY <2>1, <2>3, AtPosition DEF Takes
  <2> QED BY <2>1, <2>3, <2>4, Operate, CleanReports
<1> QED BY <1>4, <1>5, <1>6

LEMMA RecoveryReports ==
    ASSUME Inv, Keeps, CallsBind(code), OwnTables, Recovers, Next
    PROVE  /\ Reports /\ AtOpcode(Opcode.op) /\ ~Stray(Current, g_s)
           /\ Order(frames, g_s)
<1>1. status = "run" /\ status' = "run" /\ Current.esp < Len(Ops(Current))
  BY DEF Recovers
<1>2. ~NoFrame /\ ~PlayFailed /\ ~FallOff
  <2>1. ~NoFrame /\ ~PlayFailed
    BY <1>1 DEF NoFrame, Crash, PlayFailed
  <2>2. ~FallOff
    <3> SUFFICES ASSUME FallOff PROVE FALSE
      OBVIOUS
    <3>1. frames # <<>> /\ frames \in Seq(FrameSet) /\ code \in Codes
      BY DEF FallOff, Inv, TypeOK
    <3>2. Current \in FrameSet
      BY <3>1 DEF Current
    <3>3. Current.esp \in Nat /\ Len(Ops(Current)) \in Nat
      BY <3>1, <3>2, CodeFits
    <3> QED BY <1>1, <3>3 DEF FallOff
  <2> QED BY <2>1, <2>2
<1>3. \E op : AtOpcode(op)
  BY <1>2 DEF Next, LoadConst, LoadVar, Add, MakeVec, PopStack, StoreLocal, CallFunc, BindArgs,
              EnterBlock, LeaveBlock, PushBlocks, PopBlocks, Jump, JumpIf, JumpCase, JumpDefault,
              StoreException, Return, EndProgram
<1>4. Order(frames, g_s) /\ AtOpcode(Opcode.op)
  BY <1>3 DEF Keeps, AtOpcode, Opcode
<1>5. ~Stray(Current, g_s)
  BY <1>4, AtPosition DEF Over, OnTop
<1>6. Reports
  <2>1. CASE CallFunc \/ BindArgs
    BY <1>4, <2>1, CallReports
  <2>2. CASE \/ LoadConst \/ LoadVar \/ Add \/ MakeVec \/ PopStack \/ StoreLocal
             \/ StoreException \/ JumpCase
    BY <1>4, <2>2, OpcodeReports
  <2>3. CASE \/ EnterBlock \/ LeaveBlock \/ PushBlocks \/ PopBlocks
             \/ Jump \/ JumpIf \/ JumpDefault \/ Return \/ EndProgram
    BY <1>4, <2>3, OthersReport
  <2> QED BY <1>2, <2>1, <2>2, <2>3 DEF Next
<1> QED BY <1>4, <1>5, <1>6

\* The layout of a frame depends on its code, bottom and blocks.
LEMMA LaidSame ==
    ASSUME NEW f, NEW p, LaidAt(f, p),
           NEW g, g.blocks = f.blocks, g.code = f.code, g.bottom = f.bottom
    PROVE  N(g) = N(f) /\ Ops(g) = Ops(f) /\ LaidAt(g, p)
<1>1. N(g) = N(f) /\ Ops(g) = Ops(f)
  BY DEF N, Ops
<1> QED BY <1>1 DEF LaidAt

\* The frame that goes on after an error is the current one, if it is in a try, else the
\* one that called it.
LEMMA RecoveryStep ==
    ASSUME Inv, Keeps, CallsBind(code), OwnTables, Recovers, Next
    PROVE  /\ Head(frames').esp = HandlerOf(Ops(Before), At)
           /\ Head(frames').exception = Here
<1> DEFINE ts == Tail(frames)
           f == Advanced
           p == Current.esp
<1>1. /\ Reports /\ AtOpcode(Opcode.op) /\ ~Stray(Current, g_s) /\ Order(frames, g_s)
      /\ status' = "run" /\ Opcode.op \notin Conditional
  BY RecoveryReports DEF Recovers, Conditional
<1>2. /\ frames \in Seq(FrameSet) /\ frames # <<>> /\ code \in Codes /\ Here \in ValueSet
      /\ Here.type = "exception" /\ Opcode = Ops(Current)[p + 1] /\ frames[1] = Current
  BY <1>1, AtPosition, AtOpcodeGood, HereIs DEF Opcode, Current
<1>3. /\ GoodFrame(f) /\ f \in FrameSet /\ N(f) = N(Current) /\ Ops(f) = Ops(Current)
      /\ LaidAt(f, p) /\ p \in N(f).at /\ p < Len(Ops(f))
      /\ ts \in Seq(FrameSet) /\ GoodFrames(ts) /\ Under(ts)
      /\ \A s : Next1(s) = Machine(<<f>> \o ts, s)
  BY <1>1, AdvancedIs DEF GoodFrame
<1>4. PICK s \in Seq(ValueSet) :
        Fail(Next1(s)) /\ ~Thrown(s) /\ Spares(s, Len(g_s) - Takes(C.ops, p))
  BY <1>1 DEF Reports
<1>5. Yields(f, ts, s)
  BY <1>1, <1>4, FailPlace
<1> DEFINE m == interpreter_set_exception(Machine(<<f>> \o ts, s), Here)
<1> HIDE DEF f
<1>6. ~Dangling(Machine(<<f>> \o ts, s)) /\ HANDLE_EXCEPTION(m)
  <2>1. ~Crash /\ Fail(Machine(<<f>> \o ts, s))
    BY <1>1, <1>3, <1>4 DEF Crash
  <2> QED BY <2>1 DEF Fail
<1>7. Recoverable(m) /\ frames' = interpreter_recover_exception(m).frames
  <2> HIDE DEF m
  <2>1. ~Crash /\ ~PlayReturns(m, 0)
    BY <1>1 DEF Crash, PlayReturns
  <2> QED BY <1>6, <2>1 DEF HANDLE_EXCEPTION, Continue, Becomes
<1>8. Len(frames) = Len(ts) + 1
  BY <1>2
<1>9. CASE IsCatched(f.blocks)
  <2> DEFINE g == frame_set_exception(f, Here)
  <2>1. GoodFrame(g) /\ g.blocks = f.blocks /\ g.code = f.code /\ g.bottom = f.bottom /\ g.exception = Here
    BY <1>2, <1>3, SetGood
  <2>2. m = Machine(<<g>> \o ts, s)
    BY <1>2, <1>3, <1>6, <1>9, Raised
  <2> HIDE DEF g, m
  <2>3. N(g) = N(f) /\ Ops(g) = Ops(f) /\ LaidAt(g, p)
    BY <1>3, <2>1, LaidSame
  <2>4. /\ Len(frames') = Len(ts) + 1
        /\ Head(frames').esp = HandlerOf(Ops(g), p)
        /\ Head(frames').exception = Here
    <3>1. p \in N(g).at /\ p < Len(Ops(g)) /\ Ops(g)[p + 1].op \notin Conditional
      BY <1>1, <1>2, <1>3, <2>3
    <3>2. frames' = interpreter_recover_exception(Machine(<<g>> \o ts, s)).frames
      BY <1>7, <2>2
    <3>3. (Thrown(s) => Top(s) = Here) /\ (~Thrown(s) => g.exception = Here)
      BY <1>4, <2>1
    <3>4. IsCatched(g.blocks)
      BY <1>9, <2>1
    <3> HIDE DEF ts, p
    <3>5. /\ Len(interpreter_recover_exception(Machine(<<g>> \o ts, s)).frames) = Len(ts) + 1
          /\ Head(interpreter_recover_exception(Machine(<<g>> \o ts, s)).frames).esp = HandlerOf(Ops(g), p)
          /\ Head(interpreter_recover_exception(Machine(<<g>> \o ts, s)).frames).exception = Here
      BY <1>2, <1>3, <2>1, <2>3, <3>1, <3>3, <3>4, RecoveredIs
    <3> QED BY <3>2, <3>5
  <2>5. Depth = Len(frames) /\ Before = Current
    BY <1>2, <1>8, <2>4 DEF Depth, Before
  <2>6. At = p
    BY <2>5 DEF At
  <2> QED BY <1>3, <2>3, <2>4, <2>5, <2>6
<1>10. CASE ~IsCatched(f.blocks)
  <2> DEFINE r == interpreter_stack_rollback(IF Len(s) <= f.bottom THEN Append(s, Here)
                                             ELSE [s EXCEPT ![f.bottom + 1] = Here], f.bottom)
             g == Head(ts)
             q == g.esp - 1
  <2>1. m = Machine(ts, r)
    BY <1>2, <1>3, <1>6, <1>10, Raised
  <2> HIDE DEF m
  <2>2. ts # <<>> /\ IsCatched(g.blocks)
    BY <1>7, <2>1 DEF Recoverable, Machine
  <2>3. r \in Seq(ValueSet) /\ Thrown(r) /\ Top(r) = Here
    BY <1>2, <1>3, <1>4, <1>5, <2>2, Rolled DEF Thrown
  <2>4. GoodFrame(g)
    BY <1>3, <2>2, HeadGood
  <2>5. ts = <<g>> \o Tail(ts) /\ Tail(ts) \in Seq(FrameSet) /\ Len(ts) = Len(Tail(ts)) + 1
    BY <1>3, <2>2
  <2>6. /\ q \in N(g).at /\ q < Len(Ops(g)) /\ LaidAt(g, q) /\ Ops(g)[q + 1].op = "CALL_FUNC"
    BY <1>2, <1>3, <2>2, Waiting
  <2>7. Ops(g)[q + 1].op \notin Conditional
    BY <2>6 DEF Conditional, Jumps
  <2>8. g = frames[2]
    BY <1>2, <2>2
  <2> HIDE DEF r, g, q
  <2>9. m = Machine(<<g>> \o Tail(ts), r)
    BY <2>1, <2>5
  <2>10. /\ Len(frames') = Len(ts)
         /\ Head(frames').esp = HandlerOf(Ops(g), q)
         /\ Head(frames').exception = Here
    <3>1. frames' = interpreter_recover_exception(Machine(<<g>> \o Tail(ts), r)).frames
      BY <1>7, <2>9
    <3>2. (Thrown(r) => Top(r) = Here) /\ (~Thrown(r) => g.exception = Here)
      BY <2>3
    <3> HIDE DEF ts
    <3>3. Tail(ts) \in Seq(FrameSet)
      BY <2>5
    <3>4. \A us \in Seq(FrameSet) :
            /\ Len(interpreter_recover_exception(Machine(<<g>> \o us, r)).frames) = Len(us) + 1
            /\ Head(interpreter_recover_exception(Machine(<<g>> \o us, r)).frames).esp = HandlerOf(Ops(g), q)
            /\ Head(interpreter_recover_exception(Machine(<<g>> \o us, r)).frames).exception = Here
      BY <1>2, <2>2, <2>3, <2>4, <2>6, <2>7, <3>2, RecoveredIs
    <3> QED BY <2>5, <3>1, <3>3, <3>4
  <2>11. Depth = Len(frames) - 1 /\ Before = g
    BY <1>2, <1>8, <2>8, <2>10 DEF Depth, Before
  <2>12. At = q
    BY <1>2, <2>11 DEF At, q
  <2> QED BY <2>10, <2>11, <2>12
<1> QED BY <1>9, <1>10

\* An error that is handled is handled by the innermost try around it, or around the call
\* the frame waits in, and the catch clause is given that error's exception: in every
\* program none of whose calls leaves a function without the arguments that it binds
\* (interpreter_set_exception, interpreter_recover_exception, frame_recover_exception
\* against the positions of parser_try_statement).  In other programs such a function may
\* leave an old exception on the stack, and a later error is taken for that one.
THEOREM HandlersAreInnermost == Spec /\ CallsBind(code) => HandlerIsInnermost
<1>1. [Next]_vars => code' = code
  BY DEF Next, vars, LoadConst, LoadVar, Add, MakeVec, PopStack, StoreLocal, CallFunc, PlayFailed,
         BindArgs, EnterBlock, LeaveBlock, PushBlocks, PopBlocks, Jump, JumpIf, JumpCase,
         JumpDefault, StoreException, Return, EndProgram, FallOff, NoFrame,
         Crash, Continue, PlayReturns, HANDLE_EXCEPTION, Fail
<1>2. CallsBind(code) /\ [Next]_vars => CallsBind(code)'
  BY <1>1
<1>3. Inv /\ Keeps /\ CallsBind(code) /\ [Next]_vars =>
        [Recovers /\ OwnTables =>
            /\ Head(frames').esp = HandlerOf(Ops(Before), At)
            /\ Head(frames').exception = Here]_vars
  BY RecoveryStep
<1> QED BY <1>2, <1>3, Invariant, LayoutKept, PTL DEF Spec, HandlerIsInnermost
=============================================================================
