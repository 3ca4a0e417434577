\* Two devices of one user with a login each; two operations; three phrases or expiries together; one lost call, death or sign-out.
CONSTANTS
  Device = {d1, d2}
  None = None
  MaxLogins = 2
  MaxOps = 2
  MaxTurns = 3
  MaxFaults = 1
SPECIFICATION FairSpec
INVARIANTS TypeOK AcceptedIsKept
PROPERTIES NeverRetargeted PreparedSettles
