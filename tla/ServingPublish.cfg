SPECIFICATION FairSpec
CONSTANTS
    Readers = {r1}
    Calls <- MCCalls
    Latest <- MCLatest
    Isolation = "read committed"
    NoAnswer = NoAnswer
    NoRows = NoRows
    NotWritten = NotWritten
    MaxByHand = 1
    MaxFaults = 1
INVARIANTS
    RefreshDelivers
PROPERTIES
    ImplementsServedCopies
    WorkEnds
