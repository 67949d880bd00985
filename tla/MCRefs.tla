------------------------------- MODULE MCRefs -------------------------------
(* Four counted objects and vecs of two elements.  A store to an element     *)
(* takes three operands, with vecs and with dicts; a vec literal, and every   *)
(* kind of container, two; both variables are there with one operand.         *)
EXTENDS Refs, TLC

Uses(kind, names, consts, depth) ==
  [kinds |-> {kind}, names |-> names, consts |-> consts, depth |-> depth]

Kinds == {"vec", "dict", "struct", "union"}

MCPrograms ==
  {Uses(k, {"y"}, {"small"}, 3) : k \in {"vec", "dict"}}
    \cup {Uses("vec", {"y"}, {Literal}, 2)}
    \cup {Uses(k, {"x"}, {"null", "small", "text"}, 2) : k \in Kinds}
    \cup {Uses(k, {"x", "y"}, {"small", Literal}, 1) : k \in Kinds}

Sym == Permutations(Ids)
=============================================================================
