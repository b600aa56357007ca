SPECIFICATION Spec
CONSTANTS
  Words <- OneWord
  PolySizes <- TwoSizes
  Hosts = {}
  HbmBase = 1
  MaxAddr = 4
  MaxGroup = 2
INVARIANTS
  NoAlias
PROPERTIES
  ResizeKeepsLive
