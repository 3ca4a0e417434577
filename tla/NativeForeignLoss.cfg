\* One foreign change and two deaths of the daemon.
SPECIFICATION Spec
CONSTANTS
    N = 1
    Unchanged = {}
    Role <- PayloadThenReference
    MaxForeign = 1
    MaxCrashes = 2
    Made <- AlienNames
PROPERTIES NoForeignLoss
