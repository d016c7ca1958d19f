--------------------------- MODULE ServingPublish ---------------------------
(***************************************************************************)
(* The way of the data from the landed files to an answer: the pipelines'  *)
(* tables, the regular Delta tables that two jobs MERGE from them, the     *)
(* Lakebase tables that jobs/publish_lakebase_serving.py replaces in one   *)
(* PostgreSQL transaction, and the reads of mcp_server/lakebase_serving.py *)
(* with the calls of research_broker.py made of them.  The daily refresh   *)
(* chains the steps for market data; every job can also be run by hand.    *)
(*                                                                         *)
(* Data only grows (a date or a document once landed stays), so what a     *)
(* table holds is a number: the version of the landed data it has all of.  *)
(***************************************************************************)
EXTENDS Integers, Sequences, FiniteSets

CONSTANTS
    Readers,     \* the server's threads that answer a tool call
    Calls,       \* the calls they get: the tables the queries of one read
    Latest,      \* bound: Latest[d] is the last version that lands
    Isolation,   \* the database's default, which no connection changes
    NoAnswer, NoRows, NotWritten,
    MaxByHand,   \* bound: jobs started by hand that run at one time
    MaxFaults    \* bound: failed statements, lost answers, kills, timeouts

Tables == {"market", "research"}

ASSUME ServingAssumption ==
    /\ Calls \subseteq Seq(Tables) \ {<<>>}
    /\ Latest \in [Tables -> Nat]
    /\ Isolation \in {"read committed", "repeatable read"}
    /\ NoAnswer \notin Nat /\ NoRows \notin Nat /\ NotWritten \notin Nat
    /\ MaxByHand \in Nat /\ MaxFaults \in Nat

VARIABLES
    landed,   \* version of the raw files
    silver,   \* version of silver_market_bars
    gold,     \* version of gold_stock_performance
    chunks,   \* version of silver_research_chunks
    delta,    \* version of market_history_serving, research_search_documents
    merge,    \* the job that fills each of these two
    publish,  \* the job that copies them to Lakebase
    copy,     \* version of each Lakebase table, as committed
    call,     \* what each reader is doing
    refresh,  \* the run of the daily refresh
    faults

vars == <<landed, silver, gold, chunks, delta, merge, publish, copy, call,
          refresh, faults>>
sources == <<landed, silver, gold, chunks>>

Selections == {{"market"}, {"research"}, Tables}      \* --dataset

MergeOff == [pc |-> "off", attempt |-> 1, by |-> "hand"]
PublishOff == [pc |-> "off", todo |-> {}, staged |-> 0, by |-> "hand",
               written |-> [d \in Tables |-> NotWritten]]
RefreshOff == [pc |-> "off", goal |-> 0]
Nothing == [d \in Tables |-> NoAnswer]
Idle == [pc |-> "idle", asks |-> <<>>, replaced |-> FALSE, seen |-> Nothing]

Init ==
    /\ landed = [d \in Tables |-> 0]
    /\ silver = 0 /\ gold = 0 /\ chunks = 0
    /\ delta = [d \in Tables |-> 0]
    /\ merge = [d \in Tables |-> MergeOff]
    /\ publish = PublishOff
    /\ copy = [d \in Tables |-> 0]
    /\ call = [r \in Readers |-> Idle]
    /\ refresh = RefreshOff
    /\ faults = 0

Fault == faults < MaxFaults /\ faults' = faults + 1
RefreshTo(label) == refresh' = [refresh EXCEPT !.pc = label]

----------------------------------------------------------------------------
(* The pipelines.  Both market tables are materialized views of one update,  *)
(* each committed on its own.                                                *)

Land(d) ==
    /\ landed[d] < Latest[d]
    /\ landed' = [landed EXCEPT ![d] = @ + 1]
    /\ UNCHANGED <<silver, gold, chunks, delta, merge, publish, copy, call, refresh, faults>>

UpdateSilver ==
    /\ refresh.pc \notin {"silver", "gold"}
    /\ silver' = landed["market"]
    /\ UNCHANGED <<landed, gold, chunks, delta, merge, publish, copy, call, refresh, faults>>

UpdateGold ==
    /\ refresh.pc \notin {"silver", "gold"}
    /\ gold' = silver
    /\ UNCHANGED <<landed, silver, chunks, delta, merge, publish, copy, call, refresh, faults>>

UpdateChunks ==
    /\ chunks' = landed["research"]
    /\ UNCHANGED <<landed, silver, gold, delta, merge, publish, copy, call, refresh, faults>>

----------------------------------------------------------------------------
(* publish_market_serving and publish_research_search_documents.             *)

(* A market row needs both tables: the source is their inner join.           *)
Source(d) == IF d = "research" THEN chunks
             ELSE IF silver < gold THEN silver ELSE gold

ByHand == {d \in Tables : merge[d].pc # "off" /\ merge[d].by = "hand"}
          \cup {x \in {"publish"} : publish.pc # "off" /\ publish.by = "hand"}

MergeBegins(d, by) ==
    /\ merge[d].pc = "off"
    /\ merge' = [merge EXCEPT ![d] = [pc |-> "merge", attempt |-> 1, by |-> by]]

StartMerge(d) ==
    /\ Cardinality(ByHand) < MaxByHand
    /\ MergeBegins(d, "hand")
    /\ UNCHANGED <<sources, delta, publish, copy, call, refresh, faults>>

(* The attempt fails: the job tries once more (max_retries: 1), then the run *)
(* fails, and the refresh that waits for it with it.                         *)
MergeAttemptFails(d) ==
    IF merge[d].attempt = 1
    THEN /\ merge' = [merge EXCEPT ![d].pc = "merge", ![d].attempt = 2]
         /\ UNCHANGED refresh
    ELSE /\ merge' = [merge EXCEPT ![d] = MergeOff]
         /\ IF merge[d].by = "refresh" THEN refresh' = RefreshOff ELSE UNCHANGED refresh

(* CREATE and ALTER leave the rows alone; the MERGE is a commit of its own.  *)
Merge(d) ==
    /\ merge[d].pc = "merge"
    /\ delta' = [delta EXCEPT ![d] = Source(d)]
    /\ merge' = [merge EXCEPT ![d].pc = "check"]
    /\ UNCHANGED <<sources, publish, copy, call, refresh, faults>>

(* The counts are taken after the commit: a source that moved on in between  *)
(* is a failure, and the table stays as the MERGE left it.                   *)
Check(d) ==
    /\ merge[d].pc = "check"
    /\ IF Source(d) = delta[d]
       THEN /\ merge' = [merge EXCEPT ![d] = MergeOff]
            /\ IF merge[d].by = "refresh" THEN RefreshTo("copy") ELSE UNCHANGED refresh
       ELSE MergeAttemptFails(d)
    /\ UNCHANGED <<sources, delta, publish, copy, call, faults>>

MergeFails(d) ==
    /\ merge[d].pc # "off" /\ Fault
    /\ MergeAttemptFails(d)
    /\ UNCHANGED <<sources, delta, publish, copy, call>>

----------------------------------------------------------------------------
(* publish_lakebase_serving.run: one transaction for the chosen datasets.     *)

Current == IF "market" \in publish.todo THEN "market" ELSE "research"

(* The table locks: ACCESS EXCLUSIVE once granted and until the transaction   *)
(* ends; a query holds ACCESS SHARE until its rollback.                       *)
Exclusive(d) == \/ publish.written[d] # NotWritten
                \/ publish.pc = "replace" /\ Current = d
Queued(d) == publish.pc = "lock" /\ Current = d
Table(r) == Head(call[r].asks)
Shares(r, d) == call[r].pc = "rollback" /\ Table(r) = d

PublishBegins(selection, by) ==
    /\ publish.pc = "off"
    /\ publish' = [PublishOff EXCEPT !.pc = "stage", !.todo = selection, !.by = by]

StartPublish ==
    /\ Cardinality(ByHand) < MaxByHand
    /\ \E selection \in Selections : PublishBegins(selection, "hand")
    /\ UNCHANGED <<sources, delta, merge, copy, call, refresh, faults>>

(* The session's temporary table is filled from one snapshot of the Delta     *)
(* table and its rows and keys are counted.                                   *)
Stage ==
    /\ publish.pc = "stage"
    /\ publish' = [publish EXCEPT !.pc = "lock", !.staged = delta[Current]]
    /\ UNCHANGED <<sources, delta, merge, copy, call, refresh, faults>>

Lock ==
    /\ publish.pc = "lock"
    /\ \A r \in Readers : ~Shares(r, Current)
    /\ publish' = [publish EXCEPT !.pc = "replace"]
    /\ UNCHANGED <<sources, delta, merge, copy, call, refresh, faults>>

(* TRUNCATE and INSERT, not yet visible.                                      *)
Replace ==
    /\ publish.pc = "replace"
    /\ publish' = [publish EXCEPT
                      !.written[Current] = publish.staged,
                      !.todo = @ \ {Current},
                      !.staged = 0,
                      !.pc = IF publish.todo = {Current} THEN "commit" ELSE "stage"]
    /\ UNCHANGED <<sources, delta, merge, copy, call, refresh, faults>>

(* What a commit makes visible; an open transaction that took its snapshot    *)
(* before it finds a truncated table empty.                                   *)
Visible ==
    /\ copy' = [d \in Tables |-> IF publish.written[d] = NotWritten
                                 THEN copy[d] ELSE publish.written[d]]
    /\ call' = [r \in Readers |->
                   [call[r] EXCEPT !.replaced =
                      @ \/ (call[r].pc = "query" /\ publish.written[Table(r)] # NotWritten)]]

Commit ==
    /\ publish.pc = "commit"
    /\ Visible
    /\ publish' = PublishOff
    /\ IF publish.by = "refresh" THEN RefreshTo("done") ELSE UNCHANGED refresh
    /\ UNCHANGED <<sources, delta, merge, faults>>

RunFails == IF publish.by = "refresh" THEN refresh' = RefreshOff ELSE UNCHANGED refresh

(* A variant: the connection of a failed run stays open with its locks.       *)
PublishFailsOpen ==
    /\ publish.pc # "off" /\ Fault
    /\ publish' = [publish EXCEPT !.pc = "failed"]
    /\ RunFails
    /\ UNCHANGED <<sources, delta, merge, copy, call>>

(* An exception, the statement timeout, or the job's time limit: rollback and *)
(* close, by the code or by the server.                                       *)
PublishFails ==
    /\ publish.pc # "off" /\ Fault
    /\ publish' = PublishOff
    /\ RunFails
    /\ UNCHANGED <<sources, delta, merge, copy, call>>

(* The commit takes effect and the run fails all the same.                    *)
CommitUnseen ==
    /\ publish.pc = "commit" /\ Fault
    /\ Visible
    /\ publish' = PublishOff
    /\ RunFails
    /\ UNCHANGED <<sources, delta, merge>>

----------------------------------------------------------------------------
(* The calls of the MCP server.  Each query borrows a connection, pings it    *)
(* (which opens the transaction), reads one table, and rolls back.            *)

Begin(r) ==
    /\ call[r].pc = "idle"
    /\ \E asks \in Calls :
          call' = [call EXCEPT ![r] = [Idle EXCEPT !.pc = "ping", !.asks = asks]]
    /\ UNCHANGED <<sources, delta, merge, publish, copy, refresh, faults>>

Ping(r) ==
    /\ call[r].pc = "ping"
    /\ call' = [call EXCEPT ![r].pc = "query"]
    /\ UNCHANGED <<sources, delta, merge, publish, copy, refresh, faults>>

(* A variant: the ping's snapshot serves the whole transaction.               *)
ViewOfTransaction(r, d) == IF call[r].replaced THEN NoRows ELSE copy[d]

View(r, d) == IF call[r].replaced /\ Isolation = "repeatable read"
              THEN NoRows ELSE copy[d]

Query(r) ==
    /\ call[r].pc = "query"
    /\ ~Exclusive(Table(r)) /\ ~Queued(Table(r))
    /\ call' = [call EXCEPT ![r].pc = "rollback",
                            ![r].seen[Table(r)] = View(r, Table(r))]
    /\ UNCHANGED <<sources, delta, merge, publish, copy, refresh, faults>>

(* The connection is rolled back and returned: the next query of the call     *)
(* starts over.                                                               *)
Following(r) == [call[r] EXCEPT !.pc = "ping", !.asks = Tail(@), !.replaced = FALSE]
NextQuery(r) ==
    call' = [call EXCEPT ![r] = IF Len(call[r].asks) = 1 THEN Idle ELSE Following(r)]

Rollback(r) ==
    /\ call[r].pc = "rollback"
    /\ NextQuery(r)
    /\ UNCHANGED <<sources, delta, merge, publish, copy, refresh, faults>>

(* compare_stocks notes the failed ticker and goes on to the next.            *)
QueryFails(r) ==
    /\ call[r].pc \in {"ping", "query"} /\ Fault
    /\ NextQuery(r)
    /\ UNCHANGED <<sources, delta, merge, publish, copy, refresh>>

----------------------------------------------------------------------------
(* market_daily_refresh: one task after the other, each a job or a pipeline   *)
(* that others may start too; a job that is running skips the refresh's run.  *)

StartRefresh ==
    /\ refresh.pc \in {"off", "done"}
    /\ refresh' = [pc |-> "land", goal |-> 0]
    /\ UNCHANGED <<sources, delta, merge, publish, copy, call, faults>>

RefreshLands ==
    /\ refresh.pc = "land"
    /\ \E v \in landed["market"] .. Latest["market"] :
          landed' = [landed EXCEPT !["market"] = v]
    /\ RefreshTo("silver")
    /\ UNCHANGED <<silver, gold, chunks, delta, merge, publish, copy, call, faults>>

(* A variant: the tables are published without waiting for the second one.    *)
RefreshSilverOnly ==
    /\ refresh.pc = "silver"
    /\ silver' = landed["market"]
    /\ refresh' = [pc |-> "delta", goal |-> landed["market"]]
    /\ UNCHANGED <<landed, gold, chunks, delta, merge, publish, copy, call, faults>>

RefreshSilver ==
    /\ refresh.pc = "silver"
    /\ silver' = landed["market"]
    /\ refresh' = [pc |-> "gold", goal |-> landed["market"]]
    /\ UNCHANGED <<landed, gold, chunks, delta, merge, publish, copy, call, faults>>

RefreshGold ==
    /\ refresh.pc = "gold"
    /\ gold' = silver
    /\ RefreshTo("delta")
    /\ UNCHANGED <<landed, silver, chunks, delta, merge, publish, copy, call, faults>>

RefreshDelta ==
    /\ refresh.pc = "delta"
    /\ IF merge["market"].pc = "off"
       THEN MergeBegins("market", "refresh") /\ RefreshTo("merging")
       ELSE refresh' = RefreshOff /\ UNCHANGED merge
    /\ UNCHANGED <<sources, delta, publish, copy, call, faults>>

RefreshCopy ==
    /\ refresh.pc = "copy"
    /\ IF publish.pc = "off"
       THEN PublishBegins({"market"}, "refresh") /\ RefreshTo("copying")
       ELSE refresh' = RefreshOff /\ UNCHANGED publish
    /\ UNCHANGED <<sources, delta, merge, copy, call, faults>>

(* A task of its own fails; what the pipeline has committed stays.            *)
RefreshFails ==
    /\ refresh.pc \in {"land", "silver", "gold"} /\ Fault
    /\ refresh' = RefreshOff
    /\ UNCHANGED <<sources, delta, merge, publish, copy, call>>

----------------------------------------------------------------------------
Updates == UpdateSilver \/ UpdateGold \/ UpdateChunks
Merging == \E d \in Tables : Merge(d) \/ Check(d)
Publishing == Stage \/ Lock \/ Replace \/ Commit
Refreshing == \/ RefreshLands \/ RefreshSilver \/ RefreshGold
              \/ RefreshDelta \/ RefreshCopy
Starts == \/ StartPublish \/ StartRefresh
          \/ \E d \in Tables : Land(d) \/ StartMerge(d)
          \/ \E r \in Readers : Begin(r)
Failures == \/ PublishFails \/ CommitUnseen \/ RefreshFails
            \/ \E d \in Tables : MergeFails(d)
            \/ \E r \in Readers : QueryFails(r)

Next == \/ Starts \/ Updates \/ Merging \/ Publishing \/ Refreshing \/ Failures
        \/ \E r \in Readers : Ping(r) \/ Query(r) \/ Rollback(r)

Spec == Init /\ [][Next]_vars

(* A job that runs goes on, a call that runs goes on.  PostgreSQL serves the  *)
(* requests for a table's lock in their order, so a query that waits is not   *)
(* passed over by one publication after another.                              *)
FairSpec ==
    /\ Spec
    /\ \A d \in Tables : WF_vars(Merge(d) \/ Check(d))
    /\ WF_vars(Publishing)
    /\ WF_vars(Refreshing)
    /\ \A r \in Readers : WF_vars(Ping(r) \/ Rollback(r)) /\ SF_vars(Query(r))

----------------------------------------------------------------------------
MergeType == [pc : {"off", "merge", "check"}, attempt : {1, 2}, by : {"hand", "refresh"}]
PublishType == [pc : {"off", "stage", "lock", "replace", "commit"},
                todo : SUBSET Tables, staged : Nat, by : {"hand", "refresh"},
                written : [Tables -> Nat \cup {NotWritten}]]
CallType == [pc : {"idle", "ping", "query", "rollback"},
             asks : Seq(Tables), replaced : BOOLEAN,
             seen : [Tables -> Nat \cup {NoAnswer, NoRows}]]
RefreshType == [pc : {"off", "land", "silver", "gold", "delta", "merging",
                      "copy", "copying", "done"}, goal : Nat]

(* Type correctness; the job tries a MERGE at most twice, and a call that runs *)
(* has a query to make.                                                        *)
TypeOK ==
    /\ landed \in [Tables -> Nat] /\ \A d \in Tables : landed[d] <= Latest[d]
    /\ silver \in Nat /\ gold \in Nat /\ chunks \in Nat
    /\ delta \in [Tables -> Nat] /\ copy \in [Tables -> Nat]
    /\ merge \in [Tables -> MergeType] /\ publish \in PublishType
    /\ call \in [Readers -> CallType]
    /\ \A r \in Readers : call[r].pc # "idle" => call[r].asks # <<>>
    /\ refresh \in RefreshType /\ faults \in 0 .. MaxFaults

(* When the daily refresh reports success, what had landed when its pipeline  *)
(* ran is in the table the users read, whoever else lands, updates, merges    *)
(* and publishes meanwhile: market_daily_refresh.job.yml chains the steps.    *)
RefreshDelivers == refresh.pc = "done" => copy["market"] >= refresh.goal

(* Readers get whole publications, never older than the one before, and a     *)
(* failed publication changes nothing they see (publish_lakebase_serving.run).*)
Promise == INSTANCE ServedCopies WITH seen <- [r \in Readers |-> call[r].seen]
ImplementsServedCopies == Promise!Spec

(* A tool call that reads the serving tables ends: the exclusive lock of a    *)
(* publication is given up, also when the publication fails.                  *)
ReadsEnd == \A r \in Readers : (call[r].pc # "idle") ~> (call[r].pc = "idle")

(* A daily refresh comes to an end, also when a job it starts is running      *)
(* already, fails, or is tried again.                                         *)
RefreshEnds == (refresh.pc \notin {"off", "done"}) ~> (refresh.pc \in {"off", "done"})

(* Whatever fails, neither a read nor a refresh goes on for ever.             *)
WorkEnds == ReadsEnd /\ RefreshEnds
=============================================================================
