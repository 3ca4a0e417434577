\* Two foreign changes and two deaths of the daemon, inside a replacement too; liveness is checked.
SPECIFICATION FairSpec
CONSTANTS
    N = 3
    Unchanged = {2}
    Role <- PayloadThenReference
    MaxForeign = 2
    MaxCrashes = 2
    Made <- AlienNames
INVARIANTS TypeOK ConflictOnlyIfTouched WriteAhead OutcomeMatchesFiles
PROPERTIES UntouchedCompletes ForeignKept CommitIsFinal
