\* A shutdown while a saved login is being restored or renewed.
CONSTANTS
  MaxRequests = 1
  MaxGrants = 2
  MaxFailures = 1
SPECIFICATION Spec
PROPERTIES ShutdownKeepsLogin
CHECK_DEADLOCK FALSE
