\* One lost or refused exchange or crash on the gap-tolerant provider; no symmetry, liveness is checked.
CONSTANTS
  Device = {d1, d2}
  Record = {r1}
  StrictSequence = FALSE
  Refusals = {"auth_required"}
  MaxBatch = 2
  MaxOperations = 3
  MaxWrites = 2
  MaxFaults = 1
  MaxCrashes = 1
  MaxTampered = 0
SPECIFICATION FairSpec
INVARIANTS CursorPassesNothing NothingLost
PROPERTIES DurableProgress ImplementsCausalStore EventuallyReplicated
