SPECIFICATION Spec
CONSTANTS
  small = small
  large = large
  p1 = p1
  p2 = p2
  p3 = p3
  p4 = p4
  h = h
  x = x
  c1 = c1
  c2 = c2
  c3 = c3
  m1 = m1
  NULL = NULL
  HashType = h
  RECYCLE_CYCLE = 1
  Pool <- MCPools
  SmallPool <- MCSmallPool
  Page <- MCPage
  PoolOf <- MCPoolOf
  Type <- MCType
  Cell <- MCCell
  CellsOf <- MCCellsOf
  Big <- MCBig
\* A program whose allocator passes a cell to free() of the C library stops.
CHECK_DEADLOCK FALSE
SYMMETRY MCSymmetry
INVARIANTS
  OneListPerPage
  NoCellServedTwice
  CountsAgree
  CellsAreKnown
PROPERTIES
  HashPagesStay
