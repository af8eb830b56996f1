CONSTANTS
    Service = {1}
    TypeName = {1, 2}
    MaxInflight = 1
    MaxTypes = 2
    EncodeCap = 2
    MaxRelays = 1
    MaxGeneration = 0
SPECIFICATION FairSpec
PROPERTY BackendLossStopsProviding
