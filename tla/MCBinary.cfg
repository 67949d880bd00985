SPECIFICATION Spec
CONSTANTS
  Programs <- MCPrograms
  Values <- MCValues
INVARIANTS
  ProgramRoundTrip
  TruncatedIsRefused
  ResultRoundTrip
  NeverAnother
CHECK_DEADLOCK FALSE
