\* One company whose snapshots and filings may change, killed and run again.
CONSTANTS
    aapl = aapl
    s1 = s1
    s2 = s2
    f1 = f1
    f2 = f2
    old = old
    letter = letter
    Companies = {aapl}
    NTargets = 1
    Target <- OneCompany
    Snapshots = {s1, s2}
    Filings = {f1, f2, old, letter}
    Recent <- MCRecent
    Selectable = {f1, f2, old}
    MaxFilings = 2
    Documents = {d1, d2}
    Threads = {t1, t2}
    None = None
    Ttl = 1
    RunLimit = 1
    MaxFaults = 2
SPECIFICATION FairSpec
INVARIANTS PairsMatch CacheIsSound FilingHasOneWriter
PROPERTIES LandedNeverChanges FilingsLandUnlessTorn
