\* Two users, retries and reused keys, two threads.
CONSTANTS
    ann = ann
    bob = bob
    tab1 = tab1
    tab2 = tab2
    Users = {ann, bob}
    Sessions = {tab1, tab2}
    Owner <- TwoUsers
    Workers = {w1, w2}
    Keys = {k1, k2}
    Bodies <- MCBodies
    StableKeys = TRUE
    NoRecord = NoRecord
    NoRequest = NoRequest
    Nobody = Nobody
    MaxSends <- TwoAndOne
    MaxFaults = 1
SYMMETRY MCSymmetry
SPECIFICATION Spec
INVARIANT RecordsMatchDocuments
INVARIANT SuccessIsCommitted
INVARIANT AtMostOncePerAction
PROPERTY ImplementsLedger
CHECK_DEADLOCK FALSE
