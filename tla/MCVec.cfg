SPECIFICATION Spec
CONSTANTS
  d1 = d1
  NULL = NULL
  UNKNOWN = UNKNOWN
  VEC_REQ_SIZE = 2
  MAX_VEC_SIZE = 9
  Data <- MCData
  Index <- MCIndex
PROPERTIES
  NoThrash
  ImplementsList
