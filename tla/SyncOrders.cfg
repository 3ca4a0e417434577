\* Three devices at the hosted provider, which takes a device's operations only in sequence
\* and damages one stored row; pages and repairs of one row, a budget of two rows.
CONSTANTS
  Device = {d1, d2, d3}
  Record = {r1}
  StrictSequence = TRUE
  Refusals = {}
  MaxBatch = 1
  MaxOperations = 2
  MaxWrites = 2
  MaxFaults = 0
  MaxCrashes = 0
  MaxTampered = 1
SPECIFICATION Spec
SYMMETRY Interchangeable
INVARIANTS TypeOK ViewIsMerge CausallyClosed Convergence QuarantineHasCause HostedNeverRepairs
