\* Three vaults, two faults.
CONSTANTS
  MaxVaults = 3
  MaxExts = 4
  MaxFaults = 2
  Sites <- MCSites
  Env <- MCEnv
SPECIFICATION FairSpec
INVARIANTS Usable PreBuiltIsComplete
PROPERTIES TestServes Repaired
