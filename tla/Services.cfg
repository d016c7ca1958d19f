\* Two releases start; three threads, two connections; one reader; two callers.
\* Two dates, two queries for articles, three threads of the SEC client, texts of nine tokens.
CONSTANTS
    p1 = p1
    p2 = p2
    p3 = p3
    Processes = {p1, p2, p3}
    Files <- MCFiles
    NoChecksum = "none"
    MaxCrashes = 2
    Threads = {t1, t2, t3}
    MinConn = 1
    MaxConn = 2
    NoConn = NoConn
    MaxDeaths = 2
    MaxErrors = 1
    Symbols = {1, 2, 3, 4}
    HasDetails = {1, 3, 4}
    Named = {1, 4}
    Readers = {r1}
    MaxChanges = 3
    MaxOutages = 2
    Followable = {"A"}
    Moves <- MCMoves
    Articles <- MCArticles
    Callers = {c1, c2}
    Week = 1
    NewsLimit = 1
    Never = Never
    MaxNow = 2
    MaxFollows = 1
    Dates = {1, 2}
    Content <- MCContent
    MinimumRows = 2
    CallLimit = 2
    Minute = 3
    Audits <- MCAudits
    MaxTorn = 1
    MaxStops = 1
    NQueries = 2
    News = {n1, n2}
    NoNews = NoNews
    MaxArticleFaults = 2
    SecThreads = {f1, f2, f3}
    SecLimit = 2
    SecWindow = 2
    SecRetries = 1
    MaxSecCalls = 4
    Documents <- MCDocuments
    Target = 3
    Overlap = 1
    ParentTokens = 4
SPECIFICATION Spec
INVARIANT MigrationsAreWhole
INVARIANT IdleIsClean
INVARIANT DeadConnectionsSpoilOnce
INVARIANT NothingShownTwice
INVARIANT EveryRowAccounted
INVARIANT CertificateIsTrue
INVARIANT CacheServesLatest
INVARIANT SecRequestsBounded
INVARIANT ChunksCoverText
PROPERTY MigrationsEnd
PROPERTY ProfilesHeal
PROPERTY PipelineRecovers
PROPERTY QueriesAreAnswered
CHECK_DEADLOCK FALSE
