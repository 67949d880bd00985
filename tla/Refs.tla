-------------------------------- MODULE Refs --------------------------------
(***************************************************************************)
(* The references that the opcodes of interpreter.c count.  An expression   *)
(* is a postfix program: opcodes pop their operands from the stack, each    *)
(* with the reference the stack held, and push a result.  Objects are       *)
(* numbers and containers of numbers: vecs, structs, unions and dicts of    *)
(* one pair.  Cached numbers and the code's constants are not counted; one  *)
(* constant is a vec, the value of a literal.  The code runs in the body of *)
(* a function, and in a try block of it after EnterTry.                     *)
(*                                                                          *)
(* Numbers have three types, in the order of their ranks; an operation on   *)
(* two has the higher one.  Their values are left out: where a value        *)
(* decides (a position, the truth of a condition, the presence of a key, a  *)
(* division by zero) every outcome is possible.                             *)
(***************************************************************************)
EXTENDS Integers, Sequences, FiniteSets, SequencesExt

CONSTANTS Ids,       \* objects that can be alive at a time
          Literal,   \* the vec of a vec literal, a constant of the code
          Outer,     \* variables of the function's block
          Inner,     \* variables of the try block
          Programs,  \* what a program uses: kinds of containers, names of
                     \* variables, constants, and the depth of expressions
          MaxLen     \* elements of a vec

VARIABLES heap, stack, vars, inTry, status, blame,
          program    \* one of Programs

ASSUME RefsAssumption ==
  /\ IsFiniteSet(Ids) /\ IsFiniteSet(Outer \cup Inner)
  /\ Ids \cap {"small", "text", "null", "dummy", "NULL", "unset", Literal} = {}
  /\ Literal \notin {"small", "text", "null", "dummy", "NULL", "unset"}
  /\ MaxLen \in Nat
  /\ \A p \in Programs : /\ p.names \subseteq Outer \cup Inner
                          /\ p.consts \subseteq {"small", "text", "null", "dummy", Literal}
                          /\ p.kinds \subseteq {"vec", "dict", "struct", "union"}

vv == <<heap, stack, vars, inTry, status, blame, program>>

Names == Outer \cup Inner

Ranked == <<"short", "int", "double">>
NumberTypes == {"short", "int", "double"}
Compounds == {"struct", "union"}
Types == NumberTypes \cup Compounds \cup {"vec", "dict"}

(* A small int, a double of the source text, null and the dummy.            *)
ConstType == [small |-> "int", text |-> "double", null |-> "null", dummy |-> "void"]
Consts == DOMAIN ConstType

(* The fields of the struct: a number, and a member of a compound type,     *)
(* which starts as null.  The members of the union.                         *)
StructField == [n |-> 1, c |-> 2]
UnionField == [n |-> "int", d |-> "double"]
Fields == {"n", "c", "d"}

NoObject == [type |-> "none", ref |-> 0, slots |-> <<>>]
NULL == "NULL"
Unset == "unset"
NoBlame == [op |-> "none", type |-> "none", ref |-> 0]

TypeOf(h, v) == IF v \in Consts THEN ConstType[v] ELSE h.o[v].type
IsNumber(h, v) == TypeOf(h, v) \in NumberTypes
Slots(h, v) == h.o[v].slots
Live(h, v) == h.o[v].type # "none"
FreeIds(h) == {i \in Ids : ~Live(h, i)}

-----------------------------------------------------------------------------
(* object.c: reading or counting an object that has been freed is recorded  *)
(* in wild, and the program's further behaviour is undefined.               *)

Touch(h, v) == [h EXCEPT !.wild = @ \/ (v \in Ids /\ ~Live(h, v))]

object_ref(h, v) ==
  IF v \in Ids THEN [Touch(h, v) EXCEPT !.o[v].ref = @ + 1] ELSE h

UnrefNumber(h, v) ==
  IF v \notin Ids THEN h
  ELSE LET g == [Touch(h, v) EXCEPT !.o[v].ref = @ - 1]
       IN  IF g.o[v].ref <= 0 THEN [g EXCEPT !.o[v] = NoObject] ELSE g

\* The elements of a container are numbers.
UnrefElements(h, s) ==
  LET after[n \in 0 .. Len(s)] == IF n = 0 THEN h ELSE UnrefNumber(after[n - 1], s[n])
  IN  after[Len(s)]

object_free(h, v) ==
  IF v \notin Ids \/ h.o[v].ref > 0 THEN Touch(h, v)
  ELSE UnrefElements([Touch(h, v) EXCEPT !.o[v] = NoObject], Slots(h, v))

object_unref(h, v) ==
  IF v \notin Ids THEN h
  ELSE object_free([Touch(h, v) EXCEPT !.o[v].ref = @ - 1], v)

UnrefAll(h, s) ==
  LET after[n \in 0 .. Len(s)] == IF n = 0 THEN h ELSE object_unref(after[n - 1], s[n])
  IN  after[Len(s)]

(* What an operation made: the heap after it and its value, or NULL.        *)
Got(h, v) == [h |-> h, v |-> v]
Nothing(h) == {Got(h, NULL)}

New(h, t, s) ==
  {Got([h EXCEPT !.o[i] = [type |-> t, ref |-> 0, slots |-> s]], i) : i \in FreeIds(h)}

Number(h, t) == New(h, t, <<>>) \cup (IF t = "int" THEN {Got(h, "small")} ELSE {})

object_cast(h, v, t) ==
  IF IsNumber(h, v) /\ t \in NumberTypes THEN Number(Touch(h, v), t) ELSE Nothing(Touch(h, v))

Higher(t, u) == CHOOSE x \in {t, u} : \E i \in 1 .. 3 :
                  Ranked[i] = x /\ \A j \in i + 1 .. 3 : Ranked[j] \notin {t, u}

(* object_add of one, which fails for other than numbers.                   *)
PlusOne(h, v) ==
  IF IsNumber(h, v) THEN Number(Touch(h, v), Higher(TypeOf(h, v), "int")) ELSE Nothing(Touch(h, v))

(* Any operator; it fails on a zero divisor or an unfit type of number.     *)
Calculated(h, v, w) ==
  LET g == Touch(Touch(h, v), w)
  IN  Nothing(g) \cup
      (IF IsNumber(h, v) /\ IsNumber(h, w) THEN Number(g, Higher(TypeOf(h, v), TypeOf(h, w))) ELSE {})

object_get_default(h, t) ==
  CASE t = "short"          -> Nothing(h)
    [] t = "int"            -> {Got(h, "small")}
    [] t = "double"         -> Number(h, t)
    [] t = "struct"         -> New(h, t, <<"small", "null">>)
    [] OTHER                -> New(h, t, <<>>)

(* The slot that an index names: of a dict, 0 for a key it does not hold;   *)
(* -1 for one out of bounds, of an unfit type, or of what has no elements.   *)
Place(h, a, b) ==
  CASE TypeOf(h, a) = "vec" ->
         {-1} \cup (IF TypeOf(h, b) \in {"short", "int"} THEN DOMAIN Slots(h, a) ELSE {})
    [] TypeOf(h, a) = "dict" /\ IsNumber(h, b) ->
         IF Slots(h, a) = <<>> THEN {0} ELSE IF b \in Ids /\ Slots(h, a)[1] = b THEN {2} ELSE {0, 2}
    [] OTHER -> {-1}

object_index(h, a, p) ==
  CASE p = -1 -> NULL [] p = 0 -> "null" [] OTHER -> Slots(h, a)[p]

(* The elements are numbers or null, and a dict has one pair.               *)
Storable(h, a, p, c) ==
  /\ TypeOf(h, c) \in NumberTypes \cup {"null"}
  /\ p = 0 => Slots(h, a) = <<>>

\* Mutant: the new element is not counted.
vec_ipindex_uncounted(h, a, p, c) ==
  object_unref([h EXCEPT !.o[a].slots[p] = c], Slots(h, a)[p])

vecobject_op_ipindex(h, a, p, c) ==
  object_unref(object_ref([h EXCEPT !.o[a].slots[p] = c], c), Slots(h, a)[p])

\* Mutant: the key is counted whether or not it is new.
dict_ipindex_counted(h, a, b, p, c) ==
  LET g == object_ref(object_ref(h, c), b)
  IN  IF p = 0 THEN [g EXCEPT !.o[a].slots = <<b, c>>]
      ELSE object_unref([g EXCEPT !.o[a].slots[p] = c], Slots(h, a)[p])

dictobject_op_ipindex(h, a, b, p, c) ==
  IF p = 0 THEN object_ref(object_ref([h EXCEPT !.o[a].slots = <<b, c>>], c), b)
  ELSE object_unref(object_ref([h EXCEPT !.o[a].slots[p] = c], c), Slots(h, a)[p])

object_ipindex(h, a, b, p, c) ==
  CASE TypeOf(h, a) = "vec" /\ p > 0   -> Got(vecobject_op_ipindex(h, a, p, c), c)
    [] TypeOf(h, a) = "dict" /\ p >= 0 -> Got(dictobject_op_ipindex(h, a, b, p, c), c)
    [] OTHER                           -> Got(Touch(h, a), NULL)

structobject_get_member(h, a, f) ==
  IF f \in DOMAIN StructField THEN {Got(h, Slots(h, a)[StructField[f]])} ELSE Nothing(h)

(* A union hands out a conversion of its value, never the value.            *)
unionobject_get_member(h, a, f) ==
  IF f \notin DOMAIN UnionField THEN Nothing(h)
  ELSE IF Slots(h, a) = <<>> THEN object_get_default(h, UnionField[f])
  ELSE object_cast(h, Slots(h, a)[1], UnionField[f])

get_member(h, a, f) ==
  CASE TypeOf(h, a) = "struct" -> structobject_get_member(h, a, f)
    [] TypeOf(h, a) = "union"  -> unionobject_get_member(h, a, f)
    [] OTHER                   -> Nothing(Touch(h, a))

structobject_store_member(h, a, f, v) ==
  IF f \notin DOMAIN StructField THEN Nothing(h)
  ELSE LET pos == StructField[f]
           prev == Slots(h, a)[pos]
       IN  {IF x.v = NULL THEN x
            ELSE Got(object_unref(object_ref([x.h EXCEPT !.o[a].slots[pos] = x.v], x.v), prev), x.v) :
              x \in IF prev # "null" /\ TypeOf(h, prev) # TypeOf(h, v)
                    THEN object_cast(h, v, TypeOf(h, prev)) ELSE {Got(h, v)}}

unionobject_store_member(h, a, f, v) ==
  IF f \notin DOMAIN UnionField THEN Nothing(h)
  ELSE {IF x.v = NULL THEN x
        ELSE Got(UnrefAll(object_ref([x.h EXCEPT !.o[a].slots = <<x.v>>], x.v), Slots(h, a)), x.v) :
          x \in IF TypeOf(h, v) # UnionField[f] THEN object_cast(h, v, UnionField[f]) ELSE {Got(h, v)}}

store_member(h, a, f, v) ==
  CASE TypeOf(h, a) = "struct" -> structobject_store_member(h, a, f, v)
    [] TypeOf(h, a) = "union"  -> unionobject_store_member(h, a, f, v)
    [] OTHER                   -> Nothing(Touch(h, a))

\* Mutant: a value of another type is stored as it is.
store_var_uncast(h, vs, n, v) ==
  IF vs[n] = Unset THEN {[h |-> h, vars |-> vs, prev |-> NULL]}
  ELSE {[h |-> object_ref(h, v), vars |-> [vs EXCEPT ![n] = v], prev |-> vs[n]]}

(* frame.c: the variable and its previous value, which the caller lets go   *)
(* of; the value is converted to the type of the previous one.              *)
frame_store_var(h, vs, n, v) ==
  IF vs[n] = Unset THEN {[h |-> h, vars |-> vs, prev |-> NULL]}
  ELSE {IF x.v = NULL THEN [h |-> x.h, vars |-> vs, prev |-> NULL]
        ELSE [h |-> object_ref(x.h, x.v), vars |-> [vs EXCEPT ![n] = x.v], prev |-> vs[n]] :
          x \in IF TypeOf(h, v) # TypeOf(h, vs[n])
                THEN object_cast(h, v, TypeOf(h, vs[n])) ELSE {Got(h, v)}}

-----------------------------------------------------------------------------
(* The counts agree with the references when an object's count is the       *)
(* number of places that hold it, and nothing holds a freed object.         *)

Times(i, s) == Cardinality({k \in DOMAIN s : s[k] = i})

\* The elements and members that are i; an object has MaxLen or two at most.
Held(h, i) ==
  Cardinality({p \in (Ids \cup {Literal}) \X (1 .. MaxLen + 2) :
                 p[2] \in DOMAIN Slots(h, p[1]) /\ Slots(h, p[1])[p[2]] = i})

Holders(h, s, vs, i) == Times(i, s) + Cardinality({n \in Names : vs[n] = i}) + Held(h, i)

Exact(h, s, vs) ==
  ~h.wild /\ \A i \in Ids : LET n == Holders(h, s, vs, i) IN h.o[i].ref = n /\ Live(h, i) = (n > 0)

(* What else there may be: a freed object in use or about to be freed while *)
(* something holds it, or one that nothing will free.                       *)
FreedEarly(h, s, vs) == h.wild \/ \E i \in Ids : h.o[i].ref < Holders(h, s, vs, i)

Kept(h, s, vs) ==
  \E i \in Ids : Live(h, i) /\ (h.o[i].ref > Holders(h, s, vs, i) \/ Holders(h, s, vs, i) = 0)

(* How an opcode ends.  After one that leaves the counts wrong, fails with  *)
(* no error reported or dies, the model stops, and blame says which it was, *)
(* with the type and the count that its object a had before.                *)
Blame(op, a) == [op |-> op, type |-> TypeOf(heap, a), ref |-> IF a \in Ids THEN heap.o[a].ref ELSE 0]

Leave(op, a, h, s, vs, st) ==
  /\ heap' = h
  /\ stack' = s
  /\ vars' = vs
  /\ status' = st
  /\ blame' = IF Exact(h, s, vs) /\ st \in {"runs", "ended"} THEN NoBlame ELSE Blame(op, a)

Continue(op, a, h, s, vs) ==
  /\ Leave(op, a, h, s, vs, "runs")
  /\ UNCHANGED inTry

(* The result is counted when it is pushed.                                 *)
STACK_PUSH(op, a, h, s, v) == Continue(op, a, object_ref(h, v), Append(s, v), vars)

Values(names) ==
  LET ns == SetToSeq({n \in names : vars[n] # Unset}) IN [k \in DOMAIN ns |-> vars[ns[k]]]

Without(names) == [n \in Names |-> IF n \in names THEN Unset ELSE vars[n]]

(* HANDLE_EXCEPTION: the handler is reached with an empty stack and without *)
(* the try block's variables; with no try around, the function ends.        *)
HANDLE_EXCEPTION(op, a, h, s, st) ==
  LET gone == IF inTry THEN Inner ELSE Names
  IN  /\ Leave(op, a, UnrefAll(UnrefAll(h, s), Values(gone)), <<>>, Without(gone), st)
      /\ inTry' = FALSE

Failed(op, a, h, s) == HANDLE_EXCEPTION(op, a, h, s, IF inTry THEN "runs" ELSE "ended")
FailedQuietly(op, a, h, s) == HANDLE_EXCEPTION(op, a, h, s, "quiet")

(* A NULL that is used as an object.                                        *)
Dies(op, a) == Leave(op, a, heap, stack, vars, "dead") /\ UNCHANGED inTry

(* A call for its effect is a statement of its own.                         *)
Room == Len(stack) < program.depth /\ stack # <<"dummy">>
Holds(n) == Len(stack) >= n
Under(n) == SubSeq(stack, 1, Len(stack) - n)
Arg(k) == stack[Len(stack) + 1 - k]     \* the k-th that is popped

-----------------------------------------------------------------------------

Init ==
  /\ heap = [o |-> [i \in Ids \cup {Literal} |->
                      IF i = Literal THEN [type |-> "vec", ref |-> 0, slots |-> <<"small">>] ELSE NoObject],
             wild |-> FALSE]
  /\ stack = <<>>
  /\ vars = [n \in Names |-> Unset]
  /\ inTry = FALSE
  /\ status = "runs"
  /\ blame = NoBlame
  /\ program \in Programs

(* Variables and blocks.                                                    *)

LoadConst ==
  /\ Room
  /\ \E c \in program.consts : STACK_PUSH("LOAD_CONST", c, heap, stack, c)

LoadVar ==
  /\ Room
  /\ \E n \in program.names :
       IF vars[n] = Unset THEN Failed("LOAD_VAR", "null", heap, stack)
       ELSE STACK_PUSH("LOAD_VAR", vars[n], heap, stack, vars[n])

Declarable == program.names \cap (IF inTry THEN Inner ELSE Outer)

(* A definition with an initial value.                                      *)
StoreLocal ==
  /\ Len(stack) = 1
  /\ \E n \in Declarable, t \in NumberTypes \cup program.kinds :
       LET b == Arg(1)
       IN  \E c \in IF TypeOf(heap, b) = t THEN {Got(heap, b)} ELSE object_cast(heap, b, t) :
             LET g == object_unref(c.h, b)
                 held == IF c.v = b THEN c.h ELSE object_ref(g, c.v)
             IN  IF c.v = NULL THEN Failed("STORE_LOCAL", b, g, <<>>)
                 ELSE IF vars[n] # Unset THEN Failed("STORE_LOCAL", b, object_unref(held, c.v), <<>>)
                 ELSE Continue("STORE_LOCAL", b, object_unref(object_ref(held, c.v), c.v), <<>>,
                               [vars EXCEPT ![n] = c.v])

(* One without.                                                             *)
StoreDef ==
  /\ stack = <<>>
  /\ \E n \in Declarable, t \in NumberTypes \cup program.kinds : \E b \in object_get_default(heap, t) :
       IF b.v = NULL THEN Failed("STORE_DEF", "null", b.h, stack)
       ELSE IF vars[n] # Unset THEN Failed("STORE_DEF", "null", object_free(b.h, b.v), stack)
       ELSE Continue("STORE_DEF", "null", object_ref(b.h, b.v), stack, [vars EXCEPT ![n] = b.v])

StoreVar ==
  /\ Holds(1)
  /\ \E n \in program.names : \E c \in frame_store_var(heap, vars, n, Arg(1)) :
       IF c.prev = NULL THEN Failed("STORE_VAR", Arg(1), c.h, stack)
       ELSE Continue("STORE_VAR", Arg(1), object_unref(c.h, c.prev), stack, c.vars)

EnterTry ==
  /\ stack = <<>>
  /\ ~inTry
  /\ Leave("ENTER_BLOCK", "null", heap, stack, vars, "runs")
  /\ inTry' = TRUE

LeaveBlock ==
  /\ stack = <<>>
  /\ inTry
  /\ Leave("LEAVE_BLOCK", "null", UnrefAll(heap, Values(Inner)), stack, Without(Inner), "runs")
  /\ inTry' = FALSE

PopStack ==
  /\ Len(stack) = 1
  /\ Continue("POP_STACK", Arg(1), object_unref(heap, Arg(1)), <<>>, vars)

(* Increments: post says that the old value is the result.                  *)
VarInc(post) ==
  /\ Room
  /\ \E n \in program.names :
       IF vars[n] = Unset THEN Failed("VAR_INC", "null", heap, stack)
       ELSE \E d \in PlusOne(heap, vars[n]) :
         IF d.v = NULL THEN Failed("VAR_INC", vars[n], d.h, stack)
         ELSE \E c \in frame_store_var(d.h, vars, n, d.v) :
           IF post THEN Continue("VAR_POINC", vars[n], c.h, Append(stack, c.prev), c.vars)
           ELSE Continue("VAR_INC", vars[n], object_ref(object_unref(c.h, c.prev), d.v),
                         Append(stack, d.v), c.vars)

VarIp ==
  /\ Holds(1)
  /\ \E n \in program.names :
       IF vars[n] = Unset THEN Failed("VAR_IP", Arg(1), object_unref(heap, Arg(1)), Under(1))
       ELSE /\ {TypeOf(heap, vars[n]), TypeOf(heap, Arg(1))} # {"vec"}
            /\ \E r \in Calculated(heap, vars[n], Arg(1)) :
                 LET g == object_unref(r.h, Arg(1))
                 IN  IF r.v = NULL THEN Failed("VAR_IP", Arg(1), g, Under(1))
                     ELSE \E b \in frame_store_var(g, vars, n, r.v) :
                       Continue("VAR_IP", Arg(1), object_ref(object_unref(b.h, b.prev), r.v),
                                Append(Under(1), r.v), b.vars)

(* Numbers.                                                                 *)

(* A cast pops and pushes, and so do the unary operators.                   *)
TypeCast ==
  /\ Holds(1)
  /\ \E t \in NumberTypes \cup program.kinds : \E r \in object_cast(heap, Arg(1), t) :
       LET g == object_unref(r.h, Arg(1))
       IN  IF r.v = NULL THEN Failed("TYPE_CAST", Arg(1), g, Under(1))
           ELSE STACK_PUSH("TYPE_CAST", Arg(1), g, Under(1), r.v)

Unary ==
  /\ Holds(1)
  /\ \E r \in Calculated(heap, Arg(1), "small") :
       LET g == object_unref(r.h, Arg(1))
       IN  IF r.v = NULL THEN Failed("UNARY", Arg(1), g, Under(1))
           ELSE STACK_PUSH("UNARY", Arg(1), g, Under(1), r.v)

(* The sum of two vecs is left out.                                         *)
Binary ==
  /\ Holds(2)
  /\ {TypeOf(heap, Arg(1)), TypeOf(heap, Arg(2))} # {"vec"}
  /\ \E r \in Calculated(heap, Arg(2), Arg(1)) :
       LET g == object_unref(object_unref(r.h, Arg(2)), Arg(1))
       IN  IF r.v = NULL THEN Failed("BINARY", Arg(2), g, Under(2))
           ELSE STACK_PUSH("BINARY", Arg(2), g, Under(2), r.v)

(* OP_BIT_AND lets go of its operands once more when it fails.              *)
BitAnd ==
  /\ Holds(2)
  /\ \E r \in Calculated(heap, Arg(2), Arg(1)) :
       LET g == object_unref(object_unref(r.h, Arg(2)), Arg(1))
       IN  IF r.v = NULL
           THEN Failed("BIT_AND", Arg(2), object_unref(object_unref(g, Arg(2)), Arg(1)), Under(2))
           ELSE STACK_PUSH("BIT_AND", Arg(2), g, Under(2), r.v)

-----------------------------------------------------------------------------
(* Elements.  The container and the index are let go of before the result   *)
(* is counted.                                                              *)

LoadIndex ==
  /\ Holds(2)
  /\ \E p \in Place(heap, Arg(2), Arg(1)) :
       LET r == object_index(heap, Arg(2), p)
           g == object_unref(object_unref(heap, Arg(2)), Arg(1))
       IN  IF r = NULL THEN Failed("LOAD_INDEX", Arg(2), g, Under(2))
           ELSE STACK_PUSH("LOAD_INDEX", Arg(2), g, Under(2), r)

StoreIndex ==
  /\ Holds(3)
  /\ \E p \in Place(heap, Arg(2), Arg(1)) :
       /\ Storable(heap, Arg(2), p, Arg(3))
       /\ LET r == object_ipindex(heap, Arg(2), Arg(1), p, Arg(3))
              g == UnrefAll(r.h, <<Arg(2), Arg(1), Arg(3)>>)
          IN  IF r.v = NULL THEN Failed("STORE_INDEX", Arg(2), g, Under(3))
              ELSE STACK_PUSH("STORE_INDEX", Arg(2), g, Under(3), r.v)

(* An element that is not there is NULL, and its type is read.              *)
IndexInc(post) ==
  /\ Holds(2)
  /\ \E p \in Place(heap, Arg(2), Arg(1)) :
       LET d == object_index(heap, Arg(2), p)
           LetGo(h) == object_unref(object_unref(h, Arg(2)), Arg(1))
       IN  IF d = NULL THEN Dies("INDEX_INC", Arg(2))
           ELSE \E e \in PlusOne(heap, d) :
             IF e.v = NULL THEN Failed("INDEX_INC", Arg(2), LetGo(e.h), Under(2))
             ELSE LET g == LetGo(object_ipindex(object_ref(e.h, d), Arg(2), Arg(1), p, e.v).h)
                  IN  IF post THEN Continue("INDEX_INC", Arg(2), g, Append(Under(2), d), vars)
                      ELSE STACK_PUSH("INDEX_INC", Arg(2), object_unref(g, d), Under(2), e.v)

(* Here the container goes before its element is used and replaced.         *)
IndexIp ==
  /\ Holds(3)
  /\ \E p \in Place(heap, Arg(2), Arg(1)) :
       LET d == object_index(heap, Arg(2), p)
           g == object_unref(heap, Arg(2))
       IN  IF d = NULL THEN Failed("INDEX_IP", Arg(2), UnrefAll(g, <<Arg(1), Arg(3)>>), Under(3))
           ELSE \E r \in Calculated(g, d, Arg(3)) :
             LET h == object_unref(r.h, Arg(3))
             IN  IF r.v = NULL THEN Failed("INDEX_IP", Arg(2), object_unref(h, Arg(1)), Under(3))
                 ELSE LET e == object_ipindex(h, Arg(2), Arg(1), p, r.v)
                      IN  STACK_PUSH("INDEX_IP", Arg(2), object_unref(e.h, Arg(1)), Under(3), r.v)

-----------------------------------------------------------------------------
(* Members.                                                                 *)

IsCompound(v) == TypeOf(heap, v) \in Compounds

LoadMember ==
  /\ Holds(1)
  /\ \E f \in Fields : \E r \in get_member(heap, Arg(1), f) :
       LET g == object_unref(r.h, Arg(1))
       IN  IF r.v = NULL THEN Failed("LOAD_MEMBER", Arg(1), g, Under(1))
           ELSE STACK_PUSH("LOAD_MEMBER", Arg(1), g, Under(1), r.v)

StoreMember ==
  /\ Holds(2)
  /\ TypeOf(heap, Arg(2)) \in NumberTypes \cup {"null"}
  /\ \E f \in Fields : \E r \in store_member(heap, Arg(1), f, Arg(2)) :
       LET g == object_unref(object_unref(r.h, Arg(1)), Arg(2))
       IN  IF r.v = NULL THEN Failed("STORE_MEMBER", Arg(1), g, Under(2))
           ELSE STACK_PUSH("STORE_MEMBER", Arg(1), g, Under(2), r.v)

MemberInc(post) ==
  LET op == IF post THEN "MEMBER_POINC" ELSE "MEMBER_INC" IN
  /\ Holds(1)
  /\ IF ~IsCompound(Arg(1)) THEN Failed(op, Arg(1), heap, Under(1))
     ELSE \E f \in Fields : \E d \in get_member(heap, Arg(1), f) :
       IF d.v = NULL THEN Dies(op, Arg(1))
       ELSE \E e \in PlusOne(d.h, d.v) :
         IF e.v = NULL THEN Failed(op, Arg(1), object_unref(e.h, Arg(1)), Under(1))
         ELSE \E r \in store_member(object_ref(e.h, d.v), Arg(1), f, e.v) :
           LET g == object_unref(r.h, Arg(1))
           IN  IF post THEN Continue(op, Arg(1), g, Append(Under(1), d.v), vars)
               ELSE STACK_PUSH(op, Arg(1), object_unref(g, d.v), Under(1), e.v)

(* A member of another type than the result's is stored converted: the      *)
(* value stored is not the result, which passes for a failure.              *)
MemberIp ==
  /\ Holds(2)
  /\ \E f \in Fields : \E d \in get_member(heap, Arg(1), f) :
       LET g == object_unref(d.h, Arg(1))
       IN  IF d.v = NULL THEN Failed("MEMBER_IP", Arg(1), object_unref(g, Arg(2)), Under(2))
           ELSE \E r \in Calculated(g, d.v, Arg(2)) :
             LET h == object_unref(r.h, Arg(2))
             IN  IF r.v = NULL THEN Failed("MEMBER_IP", Arg(1), h, Under(2))
                 ELSE \E e \in store_member(h, Arg(1), f, r.v) :
                   CASE e.v = r.v -> STACK_PUSH("MEMBER_IP", Arg(1), e.h, Under(2), r.v)
                     [] e.v # r.v /\ e.v # NULL ->
                          FailedQuietly("MEMBER_IP", Arg(1), object_free(e.h, r.v), Under(2))
                     [] OTHER -> Failed("MEMBER_IP", Arg(1), object_free(e.h, r.v), Under(2))

-----------------------------------------------------------------------------
\* Mutant: object_is_zero knows the integers only.
test_of_integers(op, a, h, s) ==
  IF TypeOf(heap, a) \in {"short", "int"} THEN Continue(op, a, h, s, vars)
  ELSE Leave(op, a, h, s, vars, "ignored") /\ UNCHANGED inTry

(* Conditions.  object_is_zero reports an error for what is not a number,   *)
(* and the opcode goes on: the condition is false.                          *)

Test(op, a, h, s) ==
  IF IsNumber(heap, a) THEN Continue(op, a, h, s, vars)
  ELSE Leave(op, a, h, s, vars, "ignored") /\ UNCHANGED inTry

Jump ==
  /\ Len(stack) = 1
  /\ Test("JUMP", Arg(1), object_unref(heap, Arg(1)), <<>>)

ConSel ==
  /\ Holds(3)
  /\ \E zero \in IF IsNumber(heap, Arg(3)) THEN BOOLEAN ELSE {TRUE} :
       LET other == IF zero THEN Arg(2) ELSE Arg(1)
           taken == IF zero THEN Arg(1) ELSE Arg(2)
       IN  Test("CON_SEL", Arg(3), object_unref(object_unref(heap, Arg(3)), other), Append(Under(3), taken))

(* A case: its value and the switch's are compared, which succeeds for all  *)
(* types; the latter is kept for the next case.                             *)
JumpCase ==
  /\ Len(stack) = 2
  /\ LET g == object_unref(heap, Arg(1))
     IN  \/ Continue("JUMP_CASE", Arg(2), g, <<Arg(2)>>, vars)
         \/ Continue("JUMP_CASE", Arg(2), object_unref(g, Arg(2)), <<>>, vars)

-----------------------------------------------------------------------------
(* Calls: the arguments are in a vec that holds them, and is let go of with *)
(* the call.                                                                *)

Called(op, n, r) ==
  LET g == UnrefAll(r.h, SubSeq(stack, Len(stack) + 1 - n, Len(stack)))
  IN  IF r.v = NULL THEN Failed(op, Arg(n), g, Under(n))
      ELSE STACK_PUSH(op, Arg(n), g, Under(n), r.v)

_builtin_append ==
  /\ Len(stack) = 2
  /\ IF TypeOf(heap, Arg(2)) # "vec" THEN Called("APPEND", 2, Got(heap, NULL))
     ELSE /\ TypeOf(heap, Arg(1)) \in NumberTypes \cup {"null"}
          /\ Len(Slots(heap, Arg(2))) < MaxLen
          /\ Called("APPEND", 2, Got(object_ref([heap EXCEPT !.o[Arg(2)].slots = Append(@, Arg(1))], Arg(1)),
                                     "dummy"))

(* An element that leaves a vec keeps the reference the vec had.            *)
vecobject_remove(h, a, p) == [h EXCEPT !.o[a].slots = RemoveAt(@, p)]

dictobject_remove(h, a) == UnrefAll([h EXCEPT !.o[a].slots = <<>>], Slots(h, a))

_builtin_remove ==
  /\ Len(stack) = 2
  /\ \E p \in Place(heap, Arg(2), Arg(1)) :
       CASE p < 1 -> Called("REMOVE", 2, Got(heap, NULL))
         [] p >= 1 /\ TypeOf(heap, Arg(2)) = "vec" ->
              Called("REMOVE", 2, Got(vecobject_remove(heap, Arg(2), p), "dummy"))
         [] OTHER -> Called("REMOVE", 2, Got(dictobject_remove(heap, Arg(2)), "dummy"))

(* object_copy of numbers, one after the other and each counted, up to one  *)
(* that cannot be copied.                                                   *)
CopyOne(x, v) ==
  IF ~x.ok THEN {x}
  ELSE {[h |-> object_ref(y.h, y.v), s |-> Append(x.s, y.v), ok |-> y.v # NULL] :
          y \in object_cast(x.h, v, TypeOf(x.h, v))}

Copied(h, s) ==
  LET sofar[n \in 0 .. Len(s)] ==
        IF n = 0 THEN {[h |-> h, s |-> <<>>, ok |-> TRUE]}
        ELSE UNION {CopyOne(x, s[n]) : x \in sofar[n - 1]}
  IN  sofar[Len(s)]

(* The copies made before a failure stay counted, and the copy of a dict    *)
(* goes on without its object, as that of a union does without a value.     *)
_builtin_copy ==
  /\ Holds(1)
  /\ LET a == Arg(1)
         t == TypeOf(heap, a)
     IN  CASE t \in NumberTypes -> \E r \in object_cast(heap, a, t) : Called("COPY", 1, r)
           [] t \in Compounds \cup {"vec", "dict"} /\ (t = "union" => Slots(heap, a) # <<>>) ->
                \E c \in Copied(heap, Slots(heap, a)) :
                  CASE ~c.ok /\ t = "dict" -> Dies("COPY", a)
                    [] ~c.ok /\ t # "dict" -> Called("COPY", 1, Got(c.h, NULL))
                    [] OTHER -> \E r \in New(c.h, t, c.s) : Called("COPY", 1, r)
           [] t = "union" /\ Slots(heap, a) = <<>> -> Dies("COPY", a)
           [] OTHER -> Called("COPY", 1, Got(heap, NULL))

(* A call of what is not a function.  A vec is taken for the arguments.     *)
CallOther ==
  /\ Holds(1)
  /\ CASE TypeOf(heap, Arg(1)) # "vec" -> Failed("CALL_FUNC", Arg(1), heap, Under(1))
       [] TypeOf(heap, Arg(1)) = "vec" /\ Len(stack) = 1 -> Dies("CALL_FUNC", Arg(1))
       [] OTHER -> Failed("CALL_FUNC", Arg(1), UnrefAll(heap, <<Arg(2), Arg(1)>>), Under(2))

Next ==
  /\ status = "runs"
  /\ blame = NoBlame
  /\ UNCHANGED program
  /\ \/ LoadConst \/ LoadVar \/ StoreLocal \/ StoreDef \/ StoreVar \/ EnterTry \/ LeaveBlock
     \/ PopStack \/ TypeCast \/ Unary \/ Binary \/ BitAnd \/ VarIp
     \/ \E post \in BOOLEAN : VarInc(post) \/ IndexInc(post) \/ MemberInc(post)
     \/ LoadIndex \/ StoreIndex \/ IndexIp \/ LoadMember \/ StoreMember \/ MemberIp
     \/ Jump \/ ConSel \/ JumpCase
     \/ _builtin_append \/ _builtin_remove \/ _builtin_copy \/ CallOther

Spec == Init /\ [][Next]_vv

-----------------------------------------------------------------------------
(* The opcodes that go wrong, by what their object is.                      *)

(* The container has no holder but the stack: a result of a call, a copy.   *)
Temporary ==
  /\ blame.op \in {"LOAD_INDEX", "STORE_INDEX", "INDEX_INC", "INDEX_IP",
                   "LOAD_MEMBER", "STORE_MEMBER", "MEMBER_INC", "MEMBER_POINC", "MEMBER_IP"}
  /\ blame.ref = 1

(* No object is freed, and no count falls below the places that hold it,     *)
(* but for elements and members of a temporary and for the operands of a    *)
(* failed '&': the reference rules of every other opcode, on success and on *)
(* each error path, never let go of too much.                               *)
NoneFreedEarly ==
  blame # NoBlame /\ FreedEarly(heap, stack, vars) => Temporary \/ blame.op = "BIT_AND"

(* No reference is lost, and an object without holders is freed, but where  *)
(* the code is known to forget one: '++' of a short variable or member      *)
(* after its value, op= on a union's member, '++' on a member of what is no *)
(* compound, an element removed from a vec, a copy that fails half way, a   *)
(* call of what is no function.                                             *)
NoneLost ==
  blame # NoBlame /\ Kept(heap, stack, vars) =>
    \/ blame.op = "VAR_POINC" /\ blame.type = "short"
    \/ blame.op = "REMOVE" /\ blame.type = "vec"
    \/ blame.op = "COPY" /\ blame.type \in {"vec", "struct"}
    \/ blame.op = "CALL_FUNC" /\ blame.type # "vec"
    \/ blame.op \in {"MEMBER_INC", "MEMBER_POINC"} /\ blame.type \notin Compounds
    \/ blame.op = "MEMBER_POINC" /\ blame.type = "struct"
    \/ blame.op = "MEMBER_IP" /\ blame.type = "union"

(* The program fails only with an error reported, and goes on only without  *)
(* one, and never uses a missing object, but in op= on a member of a lower  *)
(* type, in conditions on containers, in '++' of a missing element, in the  *)
(* copy of a dict or of an unset union, and in a call of a vec.             *)
FailuresAreReported ==
  /\ status = "quiet"   => blame.op = "MEMBER_IP" /\ blame.type \in Compounds
  /\ status = "ignored" => blame.op \in {"JUMP", "CON_SEL"} /\ blame.type \notin NumberTypes
  /\ status = "dead"    =>
       \/ blame.op \in {"INDEX_INC", "MEMBER_INC", "MEMBER_POINC"}
       \/ blame.op = "COPY" /\ blame.type \in {"dict", "union"}
       \/ blame.op = "CALL_FUNC" /\ blame.type = "vec"

(* A variable keeps the type it was declared with, and so does the number   *)
(* member of a struct, whatever is stored there, as long as counts are right. *)
TypesKept ==
  [][blame' = NoBlame =>
     /\ \A n \in Names : vars[n] # Unset /\ vars'[n] # Unset =>
          TypeOf(heap', vars'[n]) = TypeOf(heap, vars[n])
     /\ \A i \in Ids : TypeOf(heap', i) = "struct" => TypeOf(heap', Slots(heap', i)[1]) = "int"]_vv
=============================================================================
