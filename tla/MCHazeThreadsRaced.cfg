SPECIFICATION Spec
CONSTANTS
  Threads = {t1, t2}
  Managers = {t1}
  Words <- Nought
  PolySizes <- OneSize
  Hosts = {}
  HbmBase = 1
  MaxAddr = 1
  MaxGroup = 1
  Bases <- NoBases
  MaxOutputs = 1
  MaxGroups = 0
  MaxInNames = 0
  Eval <- Same
  CopyModulus = "copy"
  Faults = {"init", "replay", "result"}
  Upload <- Zero
  MaxOwned = 1
INVARIANTS
  SurvivesRaces
  EveryWaitEnds
PROPERTIES
  CallsReturn
