CONSTANTS
    Key = {k1, k2}
    Caller = {c1}
    Task = {t1, t2}
    Value = {v1, v2}
    Worker = {}
    Version = {1, 2}
    MaxEntries = 1
    MaxBytes = 1
    MaxInvalidations = 0
    MaxCommands = 2
    Kinds <- MCKinds
    Limits = {1, 2}
SYMMETRY Symmetry
SPECIFICATION MCSpec
INVARIANTS AckedChangesAreSeen RetryIsFresh NobodyWaitsInVain
PROPERTIES VersionsNeverRollBack EvictionKeepsTheNewest
