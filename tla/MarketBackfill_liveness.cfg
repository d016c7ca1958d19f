\* An operator's load of fixed dates, one run at a time, repeated for ever with --retry-terminal.
CONSTANTS
    Runners = {r1}
    NDates = 2
    Windows <- BothDates
    bars = bars
    holiday = holiday
    Payloads <- MCPayloads
    Rows <- MCRows
    NoFile = NoFile
    StaleAfter = 2
    TaskTimeout = 1
    StopAfterRows = 0
    RetryTerminal = TRUE
    FetchErrors <- AnyFetchError
    MaxFaults = 3
SPECIFICATION FairSpec
PROPERTY DatesSettleUnlessTorn
