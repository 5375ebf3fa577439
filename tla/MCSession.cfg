SPECIFICATION FairSpec
CONSTANTS
  Targets = {"a", "b"}
  Configs <- MCConfigs
  Results <- MCResults
  ListSize = 2
  Bounds <- MCBounds
  NoConfig = NoConfig
INVARIANTS SessionInv RestoresService
PROPERTIES RescansEnd ReloadSettles
CHECK_DEADLOCK FALSE
