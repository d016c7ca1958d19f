\* Two callers for two slots per window, both backends, one retry, one fault.
CONSTANTS
    Callers = {c1, c2}
    Slots = {s1, s2, s3, s4}
    Limit = 2
    Window = 2
    MaxDelay = 1
    MaxRetries = 1
    Backends <- BothBackends
    NoSlot = NoSlot
    Nobody = Nobody
    MaxFaults = 1
SPECIFICATION FairSpec
INVARIANT GrantsRespectLimit
INVARIANT SendsRespectShorterWindow
INVARIANT EachAttemptHasItsSlot
PROPERTY SlotsKeepFlowing
