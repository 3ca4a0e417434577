\* The outbox order against the hosted provider's sequence check.
CONSTANTS
  Device = {d1, d2}
  Record = {r1}
  StrictSequence = TRUE
  Refusals = {}
  MaxBatch = 2
  MaxOperations = 3
  MaxWrites = 2
  MaxFaults = 1
  MaxCrashes = 0
  MaxTampered = 0
SPECIFICATION Spec
INVARIANTS NoHonestWriteParked
