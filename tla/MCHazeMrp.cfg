SPECIFICATION Spec
CONSTANTS
  Words <- Bits
  PolySizes <- OneSize
  Hosts = {}
  HbmBase = 1
  MaxAddr = 2
  MaxGroup = 2
  Bases <- Pair
  MaxOutputs = 2
  MaxGroups = 1
  MaxInNames = 20
  Eval <- FlipOrAdd
  CopyModulus = "copy"
  Moduli = {}
  MaxModuli = 0
  Targets = {}
  Toggles = {}
  Uploads <- Zeros
  Faults = {}
  Arity = {1}
  AnyDst = FALSE
VIEW WithoutInputNames
CONSTRAINT NotFrozen
INVARIANTS
  BindingsAreCurrent
  ModuliAgree
