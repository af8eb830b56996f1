CONSTANTS
    Service = {1}
    TypeName = {1, 2}
    MaxInflight = 2
    MaxTypes = 1
    EncodeCap = 1
    MaxRelays = 1
    MaxGeneration = 1
SPECIFICATION Spec
PROPERTY StaleResultsAreInert
