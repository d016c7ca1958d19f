\* The browser's form: a new key for each submission.
CONSTANTS
    ann = ann
    bob = bob
    tab1 = tab1
    tab2 = tab2
    Users = {ann}
    Sessions = {tab1}
    Owner <- OneTab
    Workers = {w1, w2}
    Keys = {k1, k2}
    Bodies <- Notes
    StableKeys = FALSE
    NoRecord = NoRecord
    NoRequest = NoRequest
    Nobody = Nobody
    MaxSends <- TwoSends
    MaxFaults = 0
SPECIFICATION Spec
INVARIANT AtMostOncePerAction
CHECK_DEADLOCK FALSE
