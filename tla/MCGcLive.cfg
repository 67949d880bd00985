SPECIFICATION Spec
CONSTANTS
  o1 = o1
  o2 = o2
  o3 = o3
  VOID = VOID
  NSlots = 1
  MaxHeld = 2
  MaxCount = 3
  Obj <- MCObj
  Threshold <- MCThreshold
SYMMETRY MCSymmetry
CHECK_DEADLOCK FALSE
PROPERTIES
  LiveDataKept
