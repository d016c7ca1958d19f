\* Two operations, each change delivered up to twice, on two days.
CONSTANTS
    ann = ann
    nobody = nobody
    Tables <- MCTables
    Users = {ann}
    Nobody = nobody
    Inputs <- MCInputs
    LastDay = 2
    MaxChanges = 2
    MaxAgain = 1
    MaxFaults = 1
SPECIFICATION FairSpec
INVARIANT NothingCountedTwice
INVARIANT PipelineMatchesReference
PROPERTY PublishedCountsStand
PROPERTY MetricsCatchUp
CHECK_DEADLOCK FALSE
