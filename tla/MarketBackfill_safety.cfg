\* Two overlapping runs, every fault, claims that outlive every run.
CONSTANTS
    Runners = {r1, r2}
    NDates = 2
    Windows <- SlidingWindow
    bars = bars
    holiday = holiday
    Payloads <- MCPayloads
    Rows <- MCRows
    NoFile = NoFile
    StaleAfter = 2
    TaskTimeout = 1
    StopAfterRows = 2
    RetryTerminal = TRUE
    FetchErrors <- AnyFetchError
    MaxFaults = 2
SYMMETRY RunnerSymmetry
SPECIFICATION Spec
INVARIANT ClaimIsExclusive
INVARIANT SettledHasValidPair
INVARIANT NothingLandedAtFetch
PROPERTY LandedFilesNeverChange
PROPERTY ImplementsLedger
