CONSTANTS
    Call = {c1, c2}
    Kinds = {"get", "put", "remove", "local", "send", "reload"}
    Inbound = {i1}
    Conn = {k1, k2}
    Configs <- MCConfigs
    MaxFetches = 2
    MaxReloads = 2
SYMMETRY Symmetry
SPECIFICATION MCSpec
INVARIANTS WaitersAreTracked InboundAccounted NoUnpublishedRecord PqIsKept
CHECK_DEADLOCK FALSE
