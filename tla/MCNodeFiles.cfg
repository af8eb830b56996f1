CONSTANTS
    Thread = {t1, t2}
    Entry = {n1, n2, n3}
    NoEntry = NoEntry
    MaxSize = 0
    MaxFaults = 2
    v4 = v4
    v6 = v6
    a1 = a1
    Edit = {e1, e2}
    EditNet <- MCEditNet
    Default = Default
    Family = {v4, v6}
    Addr = {a1}
    NoAddr = NoAddr
    Key = {k1, k2}
    NoKey = NoKey
    MaxBreaks = 1
SPECIFICATION Spec
INVARIANTS EntriesKept OnlyALeftoverIsLost EditsKept RunsAsSaved
PROPERTIES FilesRecover IdentityKept
CHECK_DEADLOCK FALSE
