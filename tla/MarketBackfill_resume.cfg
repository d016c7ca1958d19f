\* One run at a time within the job's time limit, interrupted once, with --retry-terminal.
CONSTANTS
    Runners = {r1}
    NDates = 2
    Windows <- BothDates
    bars = bars
    holiday = holiday
    Payloads <- MCPayloads
    Rows <- MCRows
    NoFile = NoFile
    StaleAfter = 2
    TaskTimeout = 1
    StopAfterRows = 0
    RetryTerminal = TRUE
    FetchErrors <- NoFetchError
    MaxFaults = 1
SPECIFICATION FairSpec
PROPERTY InterruptedLoadResumes
