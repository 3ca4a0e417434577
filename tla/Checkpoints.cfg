\* Two publishers, one of them asked for a checkpoint, and one failed or repeated exchange, rewind or death.
CONSTANTS
  Device = {d1, d2}
  OperationThreshold = 2
  MaxBatch = 1
  MaxOperations = 2
  MaxWrites = 1
  MaxBuilds = 2
  MaxTriggers = 1
  MaxFaults = 1
SPECIFICATION FairSpec
INVARIANTS TypeOK OneHistory ScanFollowsPin
PROPERTIES PinAdvances EventuallyCheckpointed
