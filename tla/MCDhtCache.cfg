CONSTANTS
    Key = {k1}
    Caller = {c1}
    Task = {t1, t2}
    Worker = {w1, w2}
    Value = {v1}
    Version = {}
    MaxEntries = 1
    MaxBytes = 1
    MaxInvalidations = 2
SPECIFICATION FairSpec
INVARIANTS SingleFlight VoidedIsDiscarded
PROPERTY GetsReturn
