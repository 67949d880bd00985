SPECIFICATION Spec
CONSTANTS
  Ids = {i1, i2, i3, i4}
  Literal = lit
  Programs <- MCPrograms
  Outer = {"x"}
  Inner = {"y"}
  MaxLen = 2
SYMMETRY Sym
INVARIANTS
  NoneFreedEarly
  NoneLost
  FailuresAreReported
PROPERTIES
  TypesKept
CHECK_DEADLOCK FALSE
