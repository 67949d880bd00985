SPECIFICATION Spec
CONSTANTS
  p1 = p1
  p2 = p2
  t1 = t1
  t2 = t2
  bad = bad
  fielded = fielded
  Nothing = Nothing
  Mixed = Mixed
  Proc <- MCProc
  Text <- MCText
  Bad <- MCBad
  Fielded <- MCFielded
  Parts = 2
  MaxTime = 2
INVARIANTS
  RunsTheSource
  WholeUnlessCut
  RefusedForACause
PROPERTIES
  BrokenStays
CHECK_DEADLOCK FALSE
