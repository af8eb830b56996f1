CONSTANTS
    w1 = w1
    w2 = w2
    p1 = p1
    s1 = s1
    h1 = h1
    h2 = h2
    b1 = b1
    b2 = b2
    Worker = {w1, w2}
    Peer = {p1}
    ServiceName = {s1}
    Service = {b1, b2}
    Protected = {s1}
    Index <- MCIndex
    Whitelist <- MCWhitelist
    MaxRecords = 3
    MaxTime = 1
    Request = {r1}
    Command = {c1}
    Kinds = {"service_request", "service_request_to_self"}
    InboundCapacity = 1
    BackendCapacity = 1
    EventCapacity = 1
    ControllerCapacity = 1
SYMMETRY BothSwapped
SPECIFICATION MCSpec
INVARIANTS
    NoRollback AllowedByTheIndexedList ExpiredIsRejected SelectsTheNewest
    StatusInSync RequestsAccounted
