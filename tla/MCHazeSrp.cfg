SPECIFICATION Spec
CONSTANTS
  Words <- Bits
  PolySizes <- OneSize
  Hosts = {}
  HbmBase = 1
  MaxAddr = 2
  MaxGroup = 1
  Bases <- Single
  MaxOutputs = 2
  MaxGroups = 0
  MaxInNames = 0
  Eval <- FlipOrAdd
  CopyModulus = "copy"
  Moduli = {"q0"}
  MaxModuli = 1
  Targets = {}
  Toggles = {}
  Uploads <- Ones
  Faults <- ReplayFaults
  Arity = {1, 2}
  AnyDst = FALSE
VIEW WithoutErr
CONSTRAINT NotFrozen
INVARIANTS
  TypeOK
  ReadsAreCurrent
  FreedIsForgotten
PROPERTIES
  FlushDelivers
