SPECIFICATION Spec
CONSTANTS
  one = one
  oneF = oneF
  two = two
  three = three
  four = four
  five = five
  c1 = c1
  c2 = c2
  c3 = c3
  c4 = c4
  c5 = c5
  v1 = v1
  v2 = v2
  NULL = NULL
  DICT_REQ_BUCKET = 4
  Key <- MCKey
  Value <- MCValue
  Class <- MCClass
  ClassOf <- MCClassOf
  HashOf <- MCHashOf
SYMMETRY MCSymmetry
INVARIANTS
  CountersAgree
PROPERTIES
  ImplementsMap
