CONSTANTS
    r1 = r1
    r2 = r2
    r3 = r3
    Service = {s1}
    Request = {r1, r2, r3}
    Command = {c1}
    Kinds = {"service_request", "service_request_to_self", "other", "hello"}
    InboundCapacity = 1
    BackendCapacity = 1
    EventCapacity = 1
    ControllerCapacity = 1
    AuthWorkers = 2
    AuthQueueCapacity = 1
SPECIFICATION MCSpec
PROPERTIES InboundServed CommandsSettle ReadinessConverges
CHECK_DEADLOCK FALSE
