\* The deployed backend without any fault: one tick may pass before a request leaves.
CONSTANTS
    Callers = {c1, c2}
    Slots = {s1, s2, s3, s4}
    Limit = 2
    Window = 3
    MaxDelay = 1
    MaxRetries = 0
    Backends <- Deployed
    NoSlot = NoSlot
    Nobody = Nobody
    MaxFaults = 0
SPECIFICATION Spec
INVARIANT AttemptsRespectLimit
