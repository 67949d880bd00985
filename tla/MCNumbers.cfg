SPECIFICATION Spec
CONSTANTS
  Bits <- MCBits
  Mantissa <- MCMantissa
  Literal <- MCLiteral
INVARIANTS
  ArithmeticIsC
  EqualHashesAlike
  CompareExact
  WideningLossless
CHECK_DEADLOCK FALSE
