SPECIFICATION Spec
CONSTANTS
  Sources <- MCSources
  CfgFile <- MCCfgFile
  Tasks <- MCTasks
  Includes <- MCNewIncludes
  CommandLines <- MCCommandLines
  MaxVersion = 2
  MaxEdits = 2
  MaxFaults = 0
  Settings <- MCNamingHeaders
  Removable = {}
INVARIANTS
  BuildCorrect
