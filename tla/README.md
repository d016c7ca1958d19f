# Signal Desk: models and proofs

TLA+ models of the parts of Signal Desk that keep state across processes,
failures and time, the TLC runs that check them on small instances, and TLAPS
proofs of what matters most for every instance. `PROJECT.json` lists the runs,
the mutants that show each property can fail, the source lines behind every
definition, the hazards and the theorems.

## 1. The system

Signal Desk lands market data, filings and articles in a raw volume, refines
them with Spark pipelines, publishes serving copies to PostgreSQL (Lakebase),
and serves researchers through an MCP server and a dashboard.

| part | state it keeps | operations | talks to |
|---|---|---|---|
| market backfill (`ingestion/checkpoints.py`, `market_backfill.py`) | checkpoint file, one entry per trading date; `response.json` and `manifest.json` per date | ensure_pending, claim, complete, fail; read_manifest, land; the loop over dates | Massive client, volume, scheduler |
| Massive client (`mcp_server/massive_client.py`) | slots of the last minute (file or table), audit ledger | acquire; get_with_metadata with retries | market backfill, article landing, MCP reads; Lakebase |
| confirmed writes (`mcp_server/action_service.py`, tracing in `stock_research_mcp_server.py`) | idempotency records, notes, reports, watchlists, audit events | update_watchlist, save_research_note, save_analysis_report | clients (`dashboard/mcp_client.py`, agents), Lakebase |
| serving publication (`jobs/publish_*.py`) and readers (`mcp_server/lakebase_serving.py`) | Delta serving tables and their Lakebase copies | MERGE and check; publish in one transaction; bounded reads, one transaction each | pipelines, MCP reads |
| market refresh (`resources/market_daily_refresh.job.yml`) | the run of the job | land, pipeline, MERGE, copy, one after the other | all of the market parts |
| market pipeline and certification (`pipelines/`, `jobs/certify_market_volume.py`, `shared/market_certification.py`) | bronze, silver, quarantine, coverage; the report | one update at a time, table after table; count, sweep, judge | landed pairs, limiter audit |
| activity pipeline (`pipelines/bronze_lakebase_changes.py`, `silver_agent_activity.py`, `gold_*.py`) and its reference (`shared/activity_analytics.py`) | change history, one row per operation, five metric tables | append, deduplicate, recompute | Lakehouse Sync of the tables the write tools fill |
| SEC landing (`ingestion/sec_landing.py`) | content-addressed snapshots, cache pointers, filings by accession | cached_snapshot, land_snapshot, land_filing, the run with its thread pool | SEC client, volume, scheduler |
| SEC client (`ingestion/sec_client.py`) | request times of one process | acquire; get_bytes with retries | SEC landing |
| article landing (`ingestion/article_landing.py`) | content-addressed pairs, cache pointers | cached, land, the repair of half a pair | Massive client, volume |
| connection pools (`mcp_server/lakebase*.py`, `dashboard/lakebase.py`) | idle connections, slots in use | check out, ping, replace a stale connection, return | every database user |
| migrations (`mcp_server/lakebase.py`) | schema_migrations | migrate at start | Lakebase |
| company profiles (`mcp_server/research_broker.py`) | rows of companies | enrichment after an added ticker, research, one repair per read of the list | Massive client, confirmed writes |
| notable updates (same file) | `last_visit_at` | two queries and the mark of the visit | Lakebase |
| document text (`pipelines/document_text.py`) | none; a batch computation | sections of a filing, windows of parents and chunks | SEC and article landing, research search |
| identity, dashboard pages, search ranking, tools | none shared across steps | request handling, batch transformations | |

Parts meet through shared files (checkpoint file, landed pairs), shared tables
(limiter slots, idempotency records, serving copies), calls over HTTP that may
time out on one side only, and a job graph that starts one part after another.

### What is hard here, and what makes each part correct

* **Market backfill.** Two files per date and a checkpoint, three writes that
  a kill may separate; claims with a takeover time; a skip branch that reads
  what another run is writing. Correct when a claim excludes, a settled date
  has a matching pair with the checkpoint's digest, nothing landed is fetched or
  rewritten, and interrupted dates settle in later runs.
* **Massive client.** Callers on several hosts count and add slots of a moving
  window; requests leave after their slot is dated; retries. Correct when no
  window holds more than the limit and every attempt has its own recorded slot.
* **Confirmed writes.** A client that times out and tries again runs beside its
  first call; a commit whose answer is lost; keys used again. Correct when a
  key is good for one write, its record and its document agree, a reported
  success is committed, and no call waits for ever on the user's row.
* **Serving publication and refresh.** Two materialized views commit one after
  the other, a MERGE commits before its counts are checked, readers open one
  transaction per query while a table is replaced under an exclusive lock, and
  every job can be started by hand beside the chain. Correct when a refresh that
  succeeds has delivered what it landed, answers are whole publications that
  never go back, and reads and refreshes end whatever fails.
* **Market pipeline and certification.** Every table is a commit of its own; an
  expectation may stop one flow and not the others; the certificate counts table
  after table while an update runs. Correct when every landed bar is accounted
  for once and no certificate passes on sums of different moments.
* **Activity pipeline.** Changes are delivered late, again and out of order, and
  updates stop between tables. Correct when the metrics count each operation
  once, for good, agree with the reference, and in the end miss none.
* **SEC and article landing.** Pairs that a kill leaves half written, cache
  pointers written last, filings landed by threads that check first and write
  later without a lock. Correct when pairs match, a pointer names a whole pair
  and what it serves is not too old, a filing has one writer and never changes,
  and in the end everything lands. SEC landing refuses half a pair, article
  landing writes it again.
* **SEC client.** Threads share one window, and each retry needs room of its own.
* **Document text.** Three loops of windows, one in another, with an overlap and
  with ends that are cut short. Correct when no token that should be found is
  left out and no chunk leaves its section or only repeats another.
* **Pools, migrations, profiles, last visit.** Connections that end while they
  lie in a pool or are in use, releases that start together, a repair that always
  tries the same profile, and a visit marked at another moment than the queries.

`PROJECT.json` lists these hazards one by one at the lines where they bite.

## 2. The modules

| module | models |
|---|---|
| `DailyLedger` | abstract: each date goes missing, landed, paired, settled, with one response |
| `MarketBackfill` | checkpoint store, landing store and loop of the backfill |
| `MarketBackfillProofs` | proofs about it |
| `RollingQuota` | the two limiters and the attempt loop of the Massive client |
| `RollingQuotaProofs` | proofs about it |
| `ActionLedger` | abstract: a key is good for one write, and the watchlists are the result of the writes |
| `ConfirmedWrites` | the write tools, their transactions, their audit and their clients |
| `ConfirmedWritesProofs` | proofs about it |
| `SecLanding` | the SEC landing store, its run and the threads of its pool |
| `SecLandingProofs` | proofs about it |
| `ServedCopies` | abstract: tables are replaced as a whole, never by older data, and an answer is of one publication |
| `ServingPublish` | pipelines' tables, the MERGE jobs, the publication transaction, the readers, the daily refresh |
| `ServingPublishProofs` | proofs about it |
| `ActivityMetrics` | change history, deduplication and metrics |
| `ActivityReference` | the Python reference of the same, as the loop it is, and the comparison |
| `ActivityMetricsProofs` | proofs about both |
| `MarketQuality` | the market pipeline's accounting, and the certification |
| `Migrations` | `migrate()` of processes that start together |
| `ConnectionPool` | both kinds of pool over psycopg2's |
| `CompanyProfiles` | the profile cache |
| `NotableUpdates` | `get_notable_updates` and the last visit |
| `LakebaseProofs` | proofs about migrations, pools and the last visit |
| `ArticleLanding` | the landing of articles |
| `SecClient` | the limiter and the retry loop of the SEC client |
| `ResearchChunks` | the sections and chunks of a document |
| `IngestionProofs` | proofs about the last three and `MarketQuality` |
| `MC*` | values of the constants for TLC; `MCServices` puts eight of the small modules together |

### MarketBackfill

A runner executes `run_backfill`; its `pc` follows the code: `next` (the loop
head), `check` and `compare` (`read_manifest`, the existence checks and the read
of the response in one step, the manifest in the next), `fetch`, `response`,
`manifest`, `complete`, `fail`. `purpose` says which of the three calls of
`read_manifest` is running: for a skipped date, for a claimed one, or in `land`.
Each update of the checkpoint file is atomic because the code holds `flock` for
all of it and replaces the file; file writes are atomic (`os.replace`) and two
files are two steps. Time is discrete: entries carry the age of their last
update, up to the takeover age of two hours, and runners the time since they
started, up to the job's timeout of one hour. `Crash` is a kill at any point;
`FetchError`, `ReadError` and `WriteError` raise where the code can. A response
body is a model value with a row count; the manifest is the body whose digest
it holds, so a manifest of another body is a checksum mismatch.
`DatesSettleUnlessTorn` is about an operator who runs the command again and again
with `--retry-terminal` and fixed dates. The deployed job passes neither: without
the flag a terminal failure (a bad answer, a damaged file) stays for ever, and a
date that has left the default window, which slides with the day, is not tried
again.

Abstracted: the calendar (dates are numbered), the contents of metrics and
errors, temporary files, corrupt JSON other than as a read error.

### RollingQuota

A caller runs `get_with_metadata`: `acquire`, `count`, (`insert`,) `record`,
(`audit`,) `send`, `reply`, `backoff`. The file backend dates the slot when it
reads the clock and writes an audit file after the state file, both under the
file lock; the table backend dates it at the insertion and its table is its own
ledger, under an advisory lock until the commit. Slots carry their age. The
constant `MaxDelay` is the longest time from a slot's date to its request; the
program does not bound it, so the property for requests is stated in terms of
it. A slot's identity may be used again when its date and its request have left
the window, which keeps the model finite and is invisible to the code, whose
identities are UUIDs. The clock never steps back.

Abstracted: which endpoint is called, the length of backoff and `Retry-After`
(any time), request metadata.

### ConfirmedWrites

A session (browser tab or agent) has one confirmed action at a time, gives up on
a request or sends the same write again; the server does not learn of it.
A worker (server thread) takes a request, locks the user's row
(`INSERT ... ON CONFLICT DO UPDATE`), reserves the key, replays the stored
result or acts, and commits. Between the lock and the commit its effects are in
its own transaction and become visible together in `Publish`. `Abort` loses the
connection, `CommitUnseen` loses only the answer of the commit, `Restart` the
whole process. The audit event is written afterwards in its own transaction,
which needs the row lock too. The fields `slot` and `action` of a saved document
are history, not columns.

Abstracted: refusals that change nothing (missing confirmation, malformed key or
ticker), the request fingerprint (two bodies are the same request exactly when
they are equal), the text of notes, the audit events of failures, the company
profile fetched after the commit of an added ticker, which touches none of these
tables. A ticker's row is its membership; one watchlist per user.

### SecLanding

The main thread (`run`) walks over the companies; its `pc` follows the code:
`cached` (`cached_snapshot`), `fetch`, `validate`, `data`, `manifest` and
`pointer` (`land_snapshot`), first for the submissions, then for the company
facts, and `pool` at the end. A thread of the pool is at `check`
(`filing_manifest`), `fetch`, `validate`, `data` or `manifest` (`land_filing`).
Every file is a step. An exception in the main thread ends the run (`Raise`),
one in a thread ends its filing. Snapshots are their checksums, so a snapshot
has one directory; the manifest of a filing is the document whose checksum it
holds. The field `served` of a pointer is history, for `CacheIsSound`. Job runs
do not overlap (`max_concurrent_runs: 1`).

Abstracted: the retries and the limiter of the SEC client (a request is answered
or fails for good), what makes an entry selectable (its form, date and file name;
`Selected` takes the first `MaxFilings` selectable ones of an answer, as
`parse_recent_filings` does), counters and exit status. A run that ends early
loses its queue; the code keeps it in a local variable.

### ServingPublish

Data only grows, so a table is modelled by the version of the landed data it has
all of. `silver` and `gold` are the two views of one pipeline update, committed
one after the other; `Source` is their join, which the MERGE of
`publish_market_serving` reads. `merge` holds the two MERGE jobs with their one
retry: `Merge` commits, `Check` compares with a source that may have moved on.
`publish` is the transaction of `publish_lakebase_serving.run`: `stage` (the
temporary table from one snapshot), `lock`, `replace` (TRUNCATE and INSERT), for
each chosen table, then `commit`; a table keeps its exclusive lock until the end.
A reader's call is a sequence of queries; each is `ping` (which opens the
transaction), `query` and `rollback`. TRUNCATE is not safe for a snapshot taken
before it: `View` gives what a query sees under the database's isolation level,
a constant. The refresh waits for the job it started and fails when that job
runs already. `ServedCopies` is what readers are promised; its state is part of
the detailed one, the refinement leaves out everything else.

Abstracted: rows, columns, the search index, statement timeouts other than as a
failure, the one-time setup of the tables (`tools/setup_lakebase_serving.py`).

### ActivityMetrics and ActivityReference

`wal` is what the application commits, `history` what Lakehouse Sync has appended
to the five history tables, a change possibly more than once and at any time;
`read` is the place of each append flow. An update takes each flow in one step
(rows and place commit together), then silver, then the five families. A change
is identified by its table, row, type and place in the log; of its copies the
window keeps the one delivered last. A row names its day itself: that of its last
update, or of its creation in the two tables whose flow takes `created_at`. A
deletion has no time of its own and is dated by its delivery. `ActivityReference` computes the same with the loop of
`shared/activity_analytics.py` and compares. The loop takes a list, and nothing
says in which order its callers list the changes: `Arrivals` are all the orders
of bronze. Of two copies delivered on one day the window and the loop may keep
different ones; the metrics may not tell.

Abstracted: durations, freshness columns, sessions, tools' names.

### MarketQuality

A table made of whole dates is the set of these dates, since dates do not meet in
any key; the bars of a date are a constant set with a quality and a place in the
order of record ids. The flows of an update run in any order that their reads
allow; an expectation that is not met fails its flow, and what does not read from
it goes on. The certification reads one measure at a step. `MostAreGood` is an
assumption on the data, checked by TLC on the instance: the dates differ in more
valid bars than there are rejected ones (1.2 million to 188 in
`docs/phase2/STATUS.md`). Without it sums of different moments could be equal by
chance and a certificate pass on them. Bars are a set, so two identical ones in a
response do not occur. The code would make two rows of them with one record id
and quarantine the second as a duplicate of its ticker and date. The two tables
of performance are flows that keep an update from succeeding before they are
done; their columns and expectations are left out. An update may start at any
time: the jobs start one after a successful landing, an operator when he likes.

### Migrations, ConnectionPool, CompanyProfiles, NotableUpdates

`Migrations`: `migrate()` is one transaction. `CREATE TABLE IF NOT EXISTS` and an
`INSERT` of a row that another open transaction has made wait for it
(`wait for table`, `wait for row`), fail if it commits and go on if it rolls back.
A file whose checksum differs from the applied one ends the process. The proof
covers releases that differ in this way. Those that the run starts agree on their
checksums, so that path is not taken there: a process whose file has changed
never comes to serve, and nothing can be promised of its start.

`ConnectionPool`: `style` chooses `get_connection` or `serving_connection`, which
differ in what happens when the rollback of a dead connection raises. psycopg2's
pool never waits and keeps at most its minimum of idle connections. The client
finds out that a connection has ended when it uses it.

`CompanyProfiles`: symbols are numbers in their order; a profile without a name is
missing like one that is not there, and a read looks up the first missing one
only. `NotableUpdates`: each query and the mark are transactions of their own,
beside a clock, stored bars and articles, a changing list and other calls of the
same user. An article may come back with another date, which its row and its links
then take (`ON CONFLICT DO UPDATE`): it counts as another item, which may be shown.

### ArticleLanding, SecClient and ResearchChunks

`ArticleLanding`: a run walks over its tickers: `cached`, `request`, `check`,
`response`, `manifest`, `point`, each file a step. Whether a pair is there is
asked of its manifest, so half a pair is written again (its content is its name).
`latest` is history. Freshness is a flag that `Expire` clears at any moment.

`SecClient`: `acquire` is one step under its lock; a thread without room sleeps
and looks again, so it stays where it is. Backoffs may last any time. `grants`
is history, kept apart from the deque the code prunes. A request is counted at
the moment the limiter lets it pass. Its `session.get` follows, and of these
moments the property says nothing; `RollingQuota` treats the same difference for
the Massive client.

`ResearchChunks`: a text is its number of tokens, the tokens at which headings of
items begin, and which of these are selected. `cursor` is where the loops of
`build_research_chunks` and `windows` stand, `Cut` emits one chunk. With no
selected item the whole text is cut at its headings, and what comes before the
first of them is in no section: this is what the code does, so `Findable` leaves
it out, and `ChunksCoverText` promises nothing for it. Abstracted: the patterns that find headings, the longest of several
sections of one item, ids and digests, and the refusals of impossible sizes,
which are the assumption on the constants.

## 3. The runs

| run | question | result |
|---|---|---|
| `market_safety` | two overlapping runs, windows that slide, every fault, kills: exclusion, matching pairs, no call for landed dates, immutability, refinement of `DailyLedger` | holds |
| `market_liveness` | do dates settle when an operator runs the command again and again, with `--retry-terminal` and fixed dates? | yes, unless a fault fell between a date's two files |
| `market_resume` | does an interrupted load resume? | no: response without manifest stays refused for ever |
| `quota` | both backends: do slots respect the limit, has each attempt its own audited slot, are slots handed out while callers wait? | holds |
| `quota_sends` | do the requests respect the limit in every window? | no: they leave after their slots' dates |
| `writes_safety` | one write per key, records and documents agree, reported successes are committed, one document per action with a stable key, refinement of `ActionLedger` | holds |
| `writes_liveness` | does every call end? | yes |
| `writes_browser` | is a form sent again after a timeout saved once? | no: the form draws a new key |
| `sec_landing` | do pairs match, are cache pointers sound, has a filing one writer, is it immutable, whatever fails; and does every selected filing land when somebody runs the landing again? | holds; filings land unless a fault has torn their pair or a snapshot's |
| `serving` | does a successful refresh deliver, are answers whole publications, do reads and refreshes end? | holds |
| `activity` | are operations counted once, on their day, for good, and all of them in the end; does the pipeline agree with the reference? | holds, but for the invocations of unidentified callers (see 5) |
| `services` | eight small parts, each in behaviours of its own (below) | holds |

`services` chooses at the start which of its parts moves (`focus`), so that one
run asks the questions of eight small models and no interleaving of parts that
share no state is explored: `migrations` (releases are whole, processes come to
serve), `pool` (the pool's limit, dead connections spoil one call each),
`profiles` (missing profiles heal unless a ticker before them has none),
`updates` (nothing is shown twice),
`quality` (rows are accounted for, updates succeed again), `certificate` (the
certificate is true beside an update; without failures and with the dates landed
one after the other, as the job does it, to keep it small),
`articles` (what the cache serves is whole and the latest; every query is
answered again and again), `sec client` (the window, and the bound on the turns),
`chunks` (no token that should be found is lost, every chunk lies where it should).

The `MarketBackfill` runs without overlap use one runner, which is what
`max_concurrent_runs: 1` deploys; the other uses two, for the command line and
for a retry beside a run that is still dying.

### Bounds

* `MarketBackfill`: two dates, two windows (both dates, or the second only), two
  bodies (with and without rows), a row target of two that one body reaches: a
  date can be skipped, claimed, taken over and follow another; three dates repeat
  these. `StaleAfter = 2`, `TaskTimeout = 1` keep the order of the two deployed
  times (two hours and one).
* `RollingQuota`: two callers, two slots per window of two ticks, a delay of one:
  both callers can race for the last slot, the window can be full with slots of
  different ages, and two windows' requests can meet. Four slot identities are
  enough for every reachable state to have a fresh one; an insertion takes one
  given fresh identity, since nothing tells them apart.
* `ConfirmedWrites`: two users (one session each), two threads, two keys, a note
  and a ticker to add and remove, two sends of one session and one of the other:
  a retry beside its first call, a key used again for another write, calls of two
  users side by side. A third thread would only wait on the same row lock.
* `SecLanding`: two snapshots of one company, of which one lists one filing and
  the other a letter of no selected form, two filings and an old one behind the
  limit of two; two documents, two threads (the deployed number), a lifetime and a time limit of
  one: answers change back and forth, pointers expire during a run and between
  runs, and a filing that failed is tried again from cached and from new
  submissions. More companies only follow one another; the proofs treat any
  number.
* `ServingPublish`: one reader with a comparison of two stocks or a search,
  versions 0 and 1 of each table, one job by hand beside the refresh, one fault:
  a publication can fall before, between and after the queries of a call, and a
  source can move on after a MERGE. Readers do not meet each other; the proofs
  treat any number of readers and versions.
* `ActivityMetrics`: two operations of any kinds, on two days, each delivered up
  to twice, one failed update: a duplicate arrives before, within and after an
  update, on the next day, and behind a newer change. With two operations every
  pair of kinds meets in one key, one day or one table.
* `services`: three processes of two releases and two crashes; three threads for
  two connections of which one is kept, two restarts of the database and one
  failed statement; four symbols, of which one has no details and one has details
  without a name, two outages; two callers, two articles of which one fits an
  answer and one may move to the next day, and a move; two dates with duplicates, one of them invalid, one torn response,
  one stopped update; two queries with two answers and two faults; three threads
  for two requests per window, one retry; texts of up to nine tokens with up to
  two headings, chunks of three with an overlap of one in parents of four: every
  way in which a section can end within, at or just behind a window.
* `MaxFaults` and its like count crashes and errors together; one to three let a
  fault hit the recovery from another.

Deadlock checking is off where the system may really stop: in the runs of
`ConfirmedWrites`, when every session has sent what its bound allows; in
`activity`, when no more changes are left and no update is started; in
`services`, where a part ends with its bounds.

### Fairness

* `MarketBackfill`: a running process takes its next step (weak fairness of
  `Step`), an operator starts runs again (`Start`), and time passes (`Tick`).
  Faults are never forced. No schedule does what this operator does: the deployed
  job has fixed neither its dates nor the flag.
* `RollingQuota`: processes run, backoffs end (`Proceed`), time passes. Calls
  need not begin. One caller may be overtaken for ever by others, since the
  limiter keeps no queue; `SlotsKeepFlowing` says only that somebody is served.
* `ConfirmedWrites`: each server thread takes a step that stays enabled
  (`Proceed`), which includes being granted a row lock that stays free. Clients
  need do nothing.
* `SecLanding`: somebody starts the job again (`sec_ingestion.job.yml` has one retry
  and no schedule, and the refresh that calls it is deployed paused), its main
  thread and each thread of its pool take their next step.
* `ServingPublish`: each MERGE job, the publication, the refresh and the calls
  that run take their next step. A query is strongly fair: PostgreSQL serves the
  requests for a table's lock in their order, so a waiting query is not passed
  over by one publication after another. Nothing need be started.
* `ActivityMetrics`: the schedule starts an update after the last one has ended
  and a running update goes on; Lakehouse Sync delivers each change at least once.
* `services`: the host starts a process again that ended and PostgreSQL answers
  (`Migrate`); the list is read again and again (`ReadList`; without readers
  nothing heals, which is the code's design); the pipeline is updated again and a manifest
  follows its response unless the pair is torn for good; the landing of articles
  is run again (the trigger of `research_refresh.job.yml`, six hours,
  which is deployed paused and then takes its place in somebody's hand).

## 4. What is proved

`MarketBackfillProofs`, for any number of runners, dates, windows and bodies:
type correctness without further assumption; and, assuming
`TaskTimeout < StaleAfter` (a run is killed before its claims can be taken over:
one hour and two in the deployment), `ClaimIsExclusive`, `SettledHasValidPair`,
`NothingLandedAtFetch`, `LandedFilesNeverChange` and the refinement of
`DailyLedger`. The assumption is needed: a run that outlives its claim writes over its successor's files.

None of these is inductive. The inductive invariant `IInv` adds what a runner
knows at each point of its loop: while it holds a claim, the checkpoint says
`in_progress` and the claim is no older than the run itself (this is where the
time limit keeps others out); at `fetch` and `response` both files are missing,
at `manifest` the response is the one it holds and the manifest is missing, at
`complete` both are there and are the same. A manifest, wherever there is one,
belongs to the response. One lemma per action shows that a step keeps this for
the runner that moves and for all others, whose dates differ.

`RollingQuotaProofs`, for any number of callers, limit, window, delay, retries
and failures, with no assumption but the types of the constants:
type correctness, `GrantsRespectLimit`, `SendsRespectShorterWindow` and
`EachAttemptHasItsSlot`. `IInv` adds the lock discipline, that there is room while a caller is between
its count and its grant, that a slot held for a request is as old as its holder
remembers, and that a request left at most `MaxDelay` after the date of its slot.
Requests younger than `Window - MaxDelay` then lie among the active slots.

`ConfirmedWritesProofs`, for any number of users, sessions, threads, keys,
requests and faults: type correctness with the ownership of the row locks,
`RecordsMatchDocuments`, `SuccessIsCommitted` and the refinement of
`ActionLedger`, with no assumption but the types of the constants and that the
null values are no requests and no bodies; and `AtMostOncePerAction` for clients
with stable keys (`writes_browser` shows that this is needed). The inductive
invariant `Server` adds `Knows`, what a call remembers of the database: in a
transaction it holds its user's row, so that the record it found or missed stays
as it was until it ends; a result it reports as a success is the committed one;
the id it drew is below the sequence and no other document's. One lemma
(`WorkerStep`) treats all steps that commit nothing, another (`PublishStep`) the
commit. `AtMostOncePerAction` needs a second invariant, `Actions`: all requests
of one action that a client, the network or a thread still holds ask for the
same thing under the same key, which is the key of the document the action
saved, if it did.

`SecLandingProofs`, for any companies, filings, threads, lifetimes and faults:
type correctness and `CacheIsSound` with no assumption but the types of the
constants; and `PairsMatch`, `FilingHasOneWriter` and `LandedNeverChanges` when
no company is named twice (`Distinct`). That is needed: two tickers of one company
are two tasks for one filing, which two threads may then write together.
`CacheInv` adds to `CacheIsSound` the files that the run knows to be there before
it writes the next one, and that an answer is no older than its run; a pointer
then ages together with what it serves. `FilingInv` says that a thread's filing
is neither in the queue nor another thread's, so that what it found missing stays
missing until it writes it.

`ServingPublishProofs`, for any readers, calls, versions and faults: type
correctness and `RefreshDelivers` with no assumption but the types of the
constants, and the refinement of `ServedCopies` when the isolation level is read
committed (the default, which no connection of the code changes). `Inv` adds that
no table is ahead of what it is made from (`Flow`); that what a publication has
staged or written lies between the copy and the Delta table (`Copying`), so that a
commit moves the copy forward; and how far the goal of a refresh has come at each
of its tasks, the job it waits for being its own (`MergeChain`, `CopyChain`). The
refinement takes steps to `Publish`, `Ask`, `Answer` or a stutter; a query that
ends moves nothing that `ServedCopies` sees, or asks anew.

`LakebaseProofs` has three parts. For any processes, releases and crashes, even
releases that give one version different checksums: `MigrationsAreWhole`. The
invariant says of an open transaction that what it found applied is still applied,
that what it wrote no other transaction has written and the ledger does not have,
and that a file it has passed is one of these. That the files come in their order
is why the last file passed means that all are; that a smallest one exists is an
induction, cited from the library for a set given by name.

For any items, lists, limits and clock: `NothingShownTwice`. What was marked as
seen is no younger than the visit, what a call shows is younger than the visit it
began with, and what it had before it began is no younger than that.

For any finite set of threads and any limits: `IdleIsClean` and
`DeadConnectionsSpoilOnce`. Neither is inductive. Threads with a
connection, lost slots and idle connections share the pool's limit: it is this
sum that `getconn` and `putconn` keep. And each connection the database has ended
is in one of three places: not noticed in a thread's hands, not noticed among
the idle ones, or paid for by a spoiled call; the sum of the three never exceeds
the number of ends. The proof is about how each step moves a connection between
the three cardinalities.

`IngestionProofs` has four parts.

* `SecRequestsBounded`, for any threads, limit, window and retries: the deque of
  the limiter is the end of the history of what it let pass, and what was pruned has left
  the window (`SecClientInv`). The code prunes and appends only; the history is
  sorted and the clock goes on.
* `CacheServesLatest`, for any tickers, answers and interruptions: from its
  request on, a query has no fresh entry, the answer under way is the last one,
  and the pointer is written for a pair that is whole (`UnderWay`).
* `ChunksCoverText`, for any texts, sizes and overlaps the code
  accepts: what lies before the cursor in its section is in a chunk, and so are
  the sections before (`InSection`, `Between`). That a token belongs to the
  section of its last heading needs that a last one exists.
* `EveryRowAccounted`, for any dates, bars, torn files and failures; and
  `CertificateIsTrue` under `MostAreGood` (section 2), which says what it needs of
  the data and which TLC finds true of the instance. `TablesInv` says what the
  flows of an update have made of bronze as it is, `Measured` what each number of
  the report was counted of: bronze at one moment, silver and quarantine at
  others. The certificate adds silver and quarantine of different moments; that
  the sum can be bronze's only when silver was made of the same dates
  (`SilverMatches`) is the arithmetic `MostAreGood` is for. For the audit the
  loop of `max_calls_in_window` is solved: the maximum it returns is no less than
  the calls of any window (`SweepValues`, `WindowsBounded`).

`ActivityMetricsProofs`, for any tables, users, changes, deliveries, days and
failed updates, with no assumption but the types of the constants:
`NothingCountedTwice`, `PublishedCountsStand` and `PipelineMatchesReference`.

* Silver has one row of each change, and a set of such rows has as many elements
  as there are places in the log it speaks of (`OneEach`, `RowsOnce`): counting
  rows is counting operations, and the log keeps what it has.
* Every effective change that bronze holds is in silver (`SilverHasAll`), so that
  a new silver speaks of all that the old one did; the figures of
  `PublishedCountsStand` depend on these places only (`Figures`) and cannot fall.
  Gold follows family by family, each figure staying between what it was and that
  of silver (`ReplacedBetween`).
* The loop of the reference, in whatever order it is given the changes, ends with
  a latest copy of each effective one, and so does the window (`Latest`, `KeptOK`,
  `SilverOK`). Two such sets may differ in rows, not in what the rows say
  (`LatestAlike`), and the metrics are functions of that (`SameMetrics`). While an
  update fills gold neither silver nor its metrics move, although changes go on
  being committed and delivered (`Fresh`, `MetricsStay`).

Three arguments are inductions over data: over the steps of the sweep, over those
of the reference's loop, over the numbers of a set. The library's induction
theorems take the formula as an operator, which the provers cannot instantiate;
the proofs take the least number for which the formula fails instead (`Least`, from
the well-foundedness of the naturals, which is stated for sets). The two loops are
recursive functions: that a function with the recursion's equations exists is
proved in this way (`SweepExists`, `LoopExists`), after which the definition gives
these equations.

TLC checked each inductive invariant on a small instance before it was proved, and
runs as invariants those that are listed as properties.

Only model-checked: the liveness properties, which TLAPS cannot prove under
fairness here (`CompanyProfiles` has no other), and the three violations. Every
invariant and every action property of a passing run, and each of the three
refinements, is a theorem. Types are part of the inductive invariants; they are
theorems of their own for the market backfill, the limiters, the write tools, SEC
landing and the publication.

## 5. Findings

Three runs end in a violation of what the repository says:

* `market_resume`: a load interrupted between a date's response and its
  manifest is not resumable (`proposal/IMPLEMENTATION_PLAN.md:257`).
* `quota_sends`: more than four attempts can leave within 60 seconds
  (`docs/phase2/STATUS.md:16`), and the certification's ledger cannot show it.
* `writes_browser`: the dashboard's keys are not stable across retries
  (`README.md:79`).

Met while modelling, without a run of their own:

* A run that outlives its claim overwrites its successor's files
  (`ingestion/market_backfill.py:111`); the job's timeout, not the code, excludes
  it. Two tickers of one company in one run of SEC landing make two tasks of each
  filing, and a landed filing can be written over (`docs/phase3/STATUS.md:24`).
* `research_broker.py:424` says that missing profiles will be retried on a later
  read; only the first one is, and one that the provider has no details for
  blocks all later ones. `ProfilesHeal` states what holds.
* `docs/phase6/STATUS.md` says that the reference mirrors the Spark contracts;
  `gold_daily_active_researchers.py:16` drops invocations without a user, which
  `build_gold_metrics` counts. `PipelineMatchesReference` leaves out this number.
* The certificate sweeps the audit files of the limiter's file backend; the
  deployed ingestion uses the table (`resources/market_ingestion.job.yml:50`) and
  writes none, so the limit is certified of an empty list.
* `serving_connection` rolls back outside of any handler before `putconn`
  (`lakebase_serving.py:112`): a connection that ended during a read costs the
  pool a slot for good. `DeadConnectionsSpoilOnce` bounds the loss by the number
  of ends; with enough of them the pool is empty until the process restarts.
* What is stored between the queries of a visit and its mark, or later with an
  older date, is never shown as new; `NothingShownTwice` is the half that holds.

## 6. Not modelled, and what is left

* Identity and authentication, dashboard pages, the markup and the item patterns
  of filings, search and its ranking, tools, resources and fixtures keep no state that several steps or
  actors share.
* The creation of the serving pool by two first readers
  (`lakebase_serving.py:75`, no lock): at worst one pool is dropped with its idle
  connections.
* The prices that `get_watchlist` merges into its answer, counters and exit
  codes, the length of backoffs, the columns of the gold market tables, and the
  SEC and article pipelines beyond the version of their chunks.
* The writes of one user are ordered by their commits only: a delayed addition
  may run after a removal that the user saw acknowledged (`dashboard/app.py:421`).
  The code promises nothing else.

Worth doing next: type correctness of the parts that `services` checks as theorems of their
own; the composition of `MarketBackfill` with `RollingQuota`, whose calls
are one step of it here.
