\* One session whose retries overlap, two threads, two faults.
CONSTANTS
    ann = ann
    bob = bob
    tab1 = tab1
    tab2 = tab2
    Users = {ann}
    Sessions = {tab1}
    Owner <- OneTab
    Workers = {w1, w2}
    Keys = {k1, k2}
    Bodies <- MCBodies
    StableKeys = TRUE
    NoRecord = NoRecord
    NoRequest = NoRequest
    Nobody = Nobody
    MaxSends <- TwoSends
    MaxFaults = 2
SPECIFICATION FairSpec
PROPERTY CallsEnd
CHECK_DEADLOCK FALSE
