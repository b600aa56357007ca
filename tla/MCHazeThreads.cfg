SPECIFICATION Spec
CONSTANTS
  Threads = {t1, t2}
  Managers = {t1}
  Words <- Bits
  PolySizes <- OneSize
  Hosts = {}
  HbmBase = 1
  MaxAddr = 2
  MaxGroup = 1
  Bases <- NoBases
  MaxOutputs = 2
  MaxGroups = 0
  MaxInNames = 0
  Eval <- Flip
  CopyModulus = "copy"
  Faults = {"init", "result"}
  Upload <- One
  MaxOwned = 1
VIEW WithoutErr
ACTION_CONSTRAINT OnlyResetsFollowARace
INVARIANTS
  TypeOK
  FreedIsForgotten
  ReadsAreCurrent
  BindingsAreCurrent
  BroughtUpOnce
  OneOwner
PROPERTIES
  FlushDelivers

