\* Two requests, with one restart or one failure of the credential store.
CONSTANTS
  MaxRequests = 2
  MaxGrants = 3
  MaxFailures = 1
SPECIFICATION FairSpec
INVARIANTS TypeOK LiveSessionIsRevocable SignedOutIsForgotten SavedBeforePublished
PROPERTIES Settles RefusalIsReported
CHECK_DEADLOCK FALSE
