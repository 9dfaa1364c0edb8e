\* Up to three invocations with any options over the same files, which may be
\* missing, left by an earlier invocation, or read-only, with two crashes.
CONSTANTS
  CountMod = 4
  Keys <- MCKeys
  Environments <- MCEnvironments
  Inputs <- MCInputs
  Functions <- MCFunctions
  Directories <- MCDirectories
  InitialFiles <- MCInitialFiles
  MaxRuns = 3
  MaxCrashes = 2
SPECIFICATION Spec
INVARIANTS
  ReducedRight
  FreshMapExact
  OutputsKept
PROPERTY
  FreshReduceOpens
