SPECIFICATION Spec
CONSTANTS
  Words <- BitWords
  PolySizes <- OneSize
  Hosts = {h1}
  HbmBase = 1
  MaxAddr = 6
  MaxGroup = 2
INVARIANTS
  TypeOK
  NeverDesync
  NonOverlap
  Accounted
  ShadowSized
PROPERTIES
  ImplementsHeap
