SPECIFICATION FairSpec
CONSTANTS
  m = m
  a = a
  b = b
  i = i
  j = j
  d = d
  None = None
  Enough = 2
  Main = m
  Thread <- MCThread
  Id <- MCId
  Data <- MCData
INVARIANTS
  AllocatorExclusive
  ContextOutlivesChild
  DescendantsEnded
  
PROPERTIES
  
  JoinsEnd
CHECK_DEADLOCK FALSE
