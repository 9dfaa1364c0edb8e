SPECIFICATION Spec
CONSTANTS
  Sources <- MCSources
  CfgFile <- MCCfgFile
  Tasks <- MCTasks
  Includes <- MCIncludes
  CommandLines <- MCCommandLines
  MaxVersion = 2
  MaxEdits = 1
  MaxFaults = 1
  Settings <- MCRemovingFolders
  Removable = {}
INVARIANTS
  BuildCorrect
