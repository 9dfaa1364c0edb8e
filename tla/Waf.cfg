SPECIFICATION Spec
CONSTANTS
  Sources <- MCSources
  CfgFile <- MCCfgFile
  Tasks <- MCTasks
  Includes <- MCIncludes
  CommandLines <- MCCommandLines
  MaxVersion = 2
  MaxEdits = 2
  MaxFaults = 1
  Settings <- MCSettings
  Removable = {"g.h"}
INVARIANTS
  WafInv
  BuildCorrect
  InstalledIsBuilt
  NoNeedlessRun
