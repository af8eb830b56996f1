CONSTANTS
    r1 = r1
    r2 = r2
    r3 = r3
    Relay = {r1, r2}
    Target = 1
    Configured <- MCConfigured
    Eligible = TRUE
    MaxLosses = 1
    MaxOverdue = 1
    MaxReloads = 1
    MaxQueue = 2
SPECIFICATION Spec
INVARIANT ActiveIsUsable
