\* Two members, one revocation, a restart after it.
CONSTANTS
  Device = {g, a}
  Genesis = g
  Peers = {a}
  Pairing = {}
  Revocation = {r}
  None = None
  MaxCalls = 1
  MaxPushes = 0
  MaxCrashes = 1
SPECIFICATION FairSpec
CHECK_DEADLOCK FALSE
INVARIANTS StartupCompletes
