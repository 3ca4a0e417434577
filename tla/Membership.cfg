\* Two members and a newcomer: one pairing and two revocations, two calls, one death.
CONSTANTS
  Device = {g, a, j}
  Genesis = g
  Peers = {a}
  Pairing = {p}
  Revocation = {r1, r2}
  None = None
  MaxCalls = 2
  MaxPushes = 1
  MaxCrashes = 1
SPECIFICATION FairSpec
CHECK_DEADLOCK FALSE
INVARIANTS TypeOK HistoriesAgree HistoryIsAuthorized CutoffIsFinal DecidedOnce RevocationRecordIsTrue
PROPERTIES SubmissionSettles
