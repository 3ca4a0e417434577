\* Two deaths inside replacements, and no other program.
SPECIFICATION FairSpec
CONSTANTS
    N = 2
    Unchanged = {}
    Role <- PayloadThenReference
    MaxForeign = 0
    MaxCrashes = 2
    Made <- AlienNames
PROPERTIES KillRestores
