--------------------------- MODULE MarketQuality ----------------------------
(***************************************************************************)
(* The market pipeline's accounting of its rows and the certificate of the *)
(* volume job.  An update appends the landed responses to                  *)
(* bronze_market_daily and the manifests to bronze_market_manifests, splits *)
(* the bars into silver_market_bars and silver_market_quarantine, compares *)
(* the counts and publishes the coverage of each date, every table a       *)
(* commit of its own; jobs/certify_market_volume.py counts the tables one  *)
(* after the other, at any moment, and judges the sums.                    *)
(***************************************************************************)
EXTENDS Integers, FiniteSets, Sequences

CONSTANTS
    Dates,
    Content,        \* Content[d]: the bars of the response of a date
    MinimumRows,    \* MINIMUM_DISTINCT_MARKET_ROWS
    CallLimit,      \* MASSIVE_FREE_CALL_LIMIT
    Minute,         \* MASSIVE_RATE_WINDOW_SECONDS
    Audits,         \* what the audit files of the limiter may hold, in order
    MaxTorn,        \* bound: responses whose manifest never comes
    MaxStops        \* bound: updates that fail by themselves

(* A row of bronze: whether it breaks a rule of MARKET_QUALITY_RULES, and its  *)
(* place in the order of record_id.  A bar that a response holds twice is two  *)
(* rows with one record_id, which stand side by side there, in either order.   *)
Bars == [ticker : STRING, bad : BOOLEAN, id : Nat]
Good(bar) == ~bar.bad
Tickers(bars) == {bar.ticker : bar \in bars}

ASSUME QualityAssumption ==
    /\ IsFiniteSet(Dates)
    /\ \A d \in Dates : IsFiniteSet(Content[d])
    /\ Content \in [Dates -> SUBSET Bars]
    /\ \A d \in Dates : \A a, b \in Content[d] : a.id = b.id => a = b
    /\ MinimumRows \in Nat /\ CallLimit \in Nat /\ Minute \in Nat \ {0}
    /\ \A a \in Audits : a \in Seq(Nat) /\ \A i \in 2 .. Len(a) : a[i - 1] <= a[i]
    /\ MaxTorn \in Nat /\ MaxStops \in Nat

(* A variant: the rank does not look at the quality.                           *)
OutranksById(x, y) == x.ticker = y.ticker /\ x.id > y.id

(* market_bars_classified: of one ticker and date a valid bar comes before one *)
(* that is not, then the order is that of the record ids (one file and one     *)
(* time for all bars of a date).                                               *)
Outranks(x, y) ==
    /\ x.ticker = y.ticker
    /\ \/ Good(x) /\ ~Good(y)
       \/ Good(x) = Good(y) /\ x.id > y.id
First(bar, bars) == \A x \in bars : ~Outranks(x, bar)

(* What silver_market_bars and silver_market_quarantine take of a date: dates  *)
(* do not meet in a key, so a table is the set of the dates it was made from,  *)
(* and its count that of its rows with their dates.                            *)
SilverOf == [d \in Dates |-> {bar \in Content[d] : Good(bar) /\ First(bar, Content[d])}]
QuarantineOf == [d \in Dates |-> {bar \in Content[d] : ~Good(bar) \/ ~First(bar, Content[d])}]
Table(of, dates) == UNION {{d} \X of[d] : d \in dates}
Rows(of, dates) == Cardinality(Table(of, dates))
KeysOf == [d \in Dates |-> Tickers(SilverOf[d])]
TwiceOf ==
    [d \in Dates |->
       {t \in KeysOf[d] : Cardinality({bar \in SilverOf[d] : bar.ticker = t}) > 1}]

(* A date on which the market was open has more valid bars than all dates have *)
(* rejected ones; there are 188 of them in 1.2 million (docs/phase2/STATUS.md).*)
Valid == [d \in Dates |-> Tickers({bar \in Content[d] : Good(bar)})]
MostAreGood ==
    \A d \in Dates : \/ Content[d] = {}
                      \/ Cardinality(Valid[d]) > Rows(QuarantineOf, Dates)

Flows == {"bronze", "manifests", "silver", "quarantine", "ingestion",
          "reconciliation", "coverage", "performance", "comparison"}
Reads(flow) ==
    CASE flow \in {"silver", "quarantine"} -> {"bronze"}
      [] flow = "ingestion" -> {"bronze", "manifests"}
      [] flow = "reconciliation" -> {"bronze", "silver", "quarantine"}
      [] flow = "performance" -> {"silver"}
      [] flow = "comparison" -> {"performance"}
      [] flow = "coverage" -> {"bronze", "manifests", "silver", "quarantine"}
      [] OTHER -> {}

VARIABLES
    files,      \* files[d]: "none", "response" or "pair"; "torn" if no manifest comes
    bronze,     \* the dates whose bars bronze_market_daily holds
    manifests,  \* those bronze_market_manifests holds
    silver, quarantine,
    coverage,   \* the dates gold_market_data_coverage calls COMPLETE
    run,        \* the update of the pipeline
    outcome,    \* how the last one ended
    certify,    \* the measurement under way
    stops

qualityVars == <<files, bronze, manifests, silver, quarantine, coverage, run,
                 outcome, certify, stops>>

Measures == <<"manifests", "bronze", "silver", "quarantine", "distinct", "duplicates">>
NoRun == [on |-> FALSE, done |-> {}, failed |-> {}]
NoReport == [next |-> 1, dates |-> {}, audit |-> <<>>, status |-> "none",
             distinct |-> 0,
             count |-> [m \in {Measures[i] : i \in DOMAIN Measures} |-> 0]]

QualityInit ==
    /\ files = [d \in Dates |-> "none"]
    /\ bronze = {} /\ manifests = {} /\ silver = {} /\ quarantine = {} /\ coverage = {}
    /\ run = NoRun /\ outcome = "none"
    /\ certify = NoReport
    /\ stops = 0

Torn == {d \in Dates : files[d] = "torn"}

(* The landing job (MarketBackfill): the response, then its manifest, unless   *)
(* it is interrupted in between.                                               *)
LandFile(d) ==
    /\ \/ /\ files[d] = "none"
          /\ files' = [files EXCEPT ![d] = "response"]
       \/ /\ files[d] = "response"
          /\ files' = [files EXCEPT ![d] = "pair"]
       \/ /\ files[d] = "response" /\ Cardinality(Torn) < MaxTorn
          /\ files' = [files EXCEPT ![d] = "torn"]
    /\ UNCHANGED <<bronze, manifests, silver, quarantine, coverage, run, outcome, certify, stops>>

----------------------------------------------------------------------------
(* The daily refresh and the volume job start it once their landing has ended *)
(* well, and an operator at any time: so may it here.                         *)
UpdateStarts ==
    /\ ~run.on
    /\ run' = [NoRun EXCEPT !.on = TRUE]
    /\ UNCHANGED <<files, bronze, manifests, silver, quarantine, coverage, outcome, certify, stops>>

Runnable(flow) == run.on /\ flow \notin run.done \cup run.failed /\ Reads(flow) \subseteq run.done
Done(flow) == run' = [run EXCEPT !.done = @ \cup {flow}]

TakeResponses ==
    /\ Runnable("bronze") /\ Done("bronze")
    /\ bronze' = bronze \cup {d \in Dates : files[d] # "none"}
    /\ UNCHANGED <<files, manifests, silver, quarantine, coverage, outcome, certify, stops>>

(* A variant: a manifest is taken with its response or never.                  *)
TakeManifestsOnce ==
    /\ Runnable("manifests") /\ Done("manifests")
    /\ manifests' = manifests \cup {d \in Dates \ bronze : files[d] = "pair"}
    /\ UNCHANGED <<files, bronze, silver, quarantine, coverage, outcome, certify, stops>>

TakeManifests ==
    /\ Runnable("manifests") /\ Done("manifests")
    /\ manifests' = manifests \cup {d \in Dates : files[d] = "pair"}
    /\ UNCHANGED <<files, bronze, silver, quarantine, coverage, outcome, certify, stops>>

MakeSilver ==
    /\ Runnable("silver") /\ Done("silver")
    /\ silver' = bronze
    /\ UNCHANGED <<files, bronze, manifests, quarantine, coverage, outcome, certify, stops>>

MakeQuarantine ==
    /\ Runnable("quarantine") /\ Done("quarantine")
    /\ quarantine' = bronze
    /\ UNCHANGED <<files, bronze, manifests, silver, coverage, outcome, certify, stops>>

(* An expectation that is not met fails the flow; what does not read from it   *)
(* goes on.                                                                    *)
Expect(flow, met) ==
    /\ Runnable(flow)
    /\ run' = IF met THEN [run EXCEPT !.done = @ \cup {flow}]
              ELSE [run EXCEPT !.failed = @ \cup {flow}]
    /\ UNCHANGED <<files, bronze, manifests, silver, quarantine, coverage, outcome, certify, stops>>

On(d, table, dates) == IF d \in dates THEN Cardinality(table[d]) ELSE 0

(* market_ingestion_reconciliation: a full join, in which a date without bars  *)
(* or without a manifest counts 0.                                             *)
Matches(d) ==
    /\ d \in manifests
    /\ Cardinality(Content[d]) = On(d, Content, bronze)
Listed == manifests \cup {d \in bronze : Content[d] # {}}
ReconcileIngestion == Expect("ingestion", \A d \in Listed : Matches(d))

ReconcileSilver ==
    Expect("reconciliation",
           /\ Rows(Content, bronze) = Rows(SilverOf, silver) + Rows(QuarantineOf, quarantine)
           /\ Rows(TwiceOf, silver) = 0)

Complete(d) ==
    /\ On(d, Content, manifests) = On(d, Content, bronze)
    /\ On(d, Content, bronze) = On(d, SilverOf, silver) + On(d, QuarantineOf, quarantine)

PublishCoverage ==
    /\ Runnable("coverage") /\ Done("coverage")
    /\ coverage' = {d \in Listed : Complete(d)}
    /\ UNCHANGED <<files, bronze, manifests, silver, quarantine, outcome, certify, stops>>

(* gold_stock_performance and gold_market_peer_comparison: what they expect of *)
(* their rows holds by the windows they compute them with.  Nothing here reads *)
(* their tables.                                                               *)
KeepTables == UNCHANGED <<files, bronze, manifests, silver, quarantine, coverage, outcome,
                          certify, stops>>
MakePerformance == Runnable("performance") /\ Done("performance") /\ KeepTables
ComparePeers == Runnable("comparison") /\ Done("comparison") /\ KeepTables

UpdateEnds ==
    /\ run.on /\ \A flow \in Flows : ~Runnable(flow)
    /\ run' = NoRun
    /\ outcome' = IF run.done = Flows THEN "succeeded" ELSE "failed"
    /\ UNCHANGED <<files, bronze, manifests, silver, quarantine, coverage, certify, stops>>

(* What is committed stays.                                                    *)
UpdateStops ==
    /\ run.on /\ stops < MaxStops /\ stops' = stops + 1
    /\ run' = NoRun /\ outcome' = "failed"
    /\ UNCHANGED <<files, bronze, manifests, silver, quarantine, coverage, certify>>

----------------------------------------------------------------------------
(* certify_market_volume: one query after the other, then the verdict.         *)
Count(measure) ==
    CASE measure = "manifests" -> Rows(Content, manifests)
      [] measure = "bronze" -> Rows(Content, bronze)
      [] measure = "silver" -> Rows(SilverOf, silver)
      [] measure = "quarantine" -> Rows(QuarantineOf, quarantine)
      [] measure = "distinct" -> Rows(KeysOf, silver)
      [] measure = "duplicates" -> Rows(TwiceOf, silver)

Measure ==
    /\ certify.status = "none" /\ certify.next <= Len(Measures)
    /\ LET measure == Measures[certify.next]
       IN  certify' = [certify EXCEPT
             !.next = @ + 1,
             !.dates = IF measure = "bronze" THEN bronze ELSE @,
             !.count[measure] = Count(measure)]
    /\ UNCHANGED <<files, bronze, manifests, silver, quarantine, coverage, run, outcome, stops>>

(* max_events_in_rolling_window: the sweep over the ordered times.             *)
Sweep(ts) ==
    LET sweep[right \in 0 .. Len(ts)] ==
          IF right = 0 THEN [left |-> 1, maximum |-> 0]
          ELSE LET before == sweep[right - 1]
                   left == CHOOSE l \in before.left .. right :
                              /\ ts[right] - ts[l] < Minute
                              /\ \A k \in before.left .. l - 1 : ts[right] - ts[k] >= Minute
                   width == right - left + 1
               IN  [left |-> left,
                    maximum |-> IF width > before.maximum THEN width ELSE before.maximum]
    IN  sweep
MaxInWindow(ts) == Sweep(ts)[Len(ts)].maximum

(* A variant: the rows of silver and quarantine are not compared with bronze.  *)
PassedWithoutBronze(c, audit) ==
    /\ c["distinct"] > MinimumRows
    /\ c["manifests"] = c["bronze"]
    /\ c["duplicates"] = 0 /\ c["distinct"] = c["silver"]
    /\ MaxInWindow(audit) <= CallLimit

(* build_market_certification; that there is a range of dates follows.         *)
Passed(c, audit) ==
    /\ c["distinct"] > MinimumRows
    /\ c["manifests"] = c["bronze"]
    /\ c["silver"] + c["quarantine"] = c["bronze"]
    /\ c["duplicates"] = 0 /\ c["distinct"] = c["silver"]
    /\ MaxInWindow(audit) <= CallLimit

(* The report keeps what it certified; the audit, read after the manifests, is *)
(* no table of the pipeline.                                                   *)
Certify ==
    /\ certify.status = "none" /\ certify.next > Len(Measures)
    /\ \E audit \in Audits :
          certify' = IF Passed(certify.count, audit)
                     THEN [NoReport EXCEPT !.status = "PASSED", !.dates = certify.dates,
                             !.distinct = certify.count["distinct"], !.audit = audit]
                     ELSE [NoReport EXCEPT !.status = "FAILED"]
    /\ UNCHANGED <<files, bronze, manifests, silver, quarantine, coverage, run, outcome, stops>>

CertifyAgain ==
    /\ certify.status # "none"
    /\ certify' = NoReport
    /\ UNCHANGED <<files, bronze, manifests, silver, quarantine, coverage, run, outcome, stops>>

UpdateRuns == \/ UpdateStarts \/ TakeResponses \/ TakeManifests \/ MakeSilver \/ MakeQuarantine
              \/ ReconcileIngestion \/ ReconcileSilver \/ PublishCoverage
              \/ MakePerformance \/ ComparePeers \/ UpdateEnds

PipelineNext == \/ \E d \in Dates : LandFile(d)
                \/ UpdateRuns \/ UpdateStops
CertifyNext == Measure \/ Certify \/ CertifyAgain
QualityNext == PipelineNext \/ CertifyNext

QualitySpec == QualityInit /\ [][QualityNext]_qualityVars

----------------------------------------------------------------------------
(* Every bar of bronze is in silver or in quarantine and in one of them only,  *)
(* silver has one bar of a ticker and day, no ticker and day with a valid bar  *)
(* is missing from it, and what is COMPLETE is so (the counts of               *)
(* silver_market_reconciliation cannot tell a valid bar that was rejected).    *)
EveryRowAccounted ==
    /\ {"silver", "quarantine"} \subseteq run.done =>
          /\ silver = bronze /\ quarantine = bronze
          /\ \A d \in bronze :
                /\ SilverOf[d] \cup QuarantineOf[d] = Content[d]
                /\ SilverOf[d] \cap QuarantineOf[d] = {}
                /\ \A x, y \in SilverOf[d] : x.ticker = y.ticker => x = y
                /\ KeysOf[d] = Valid[d]
    /\ "coverage" \in run.done => \A d \in coverage : d \in bronze \/ Content[d] = {}

(* A passed certificate counts the valid bars of all the dates bronze had, and *)
(* of nothing else, although it reads table after table while an update may    *)
(* replace them, and no minute of the audit holds more than the limit.         *)
CertificateIsTrue ==
    certify.status = "PASSED" =>
       /\ certify.distinct = Rows(Valid, certify.dates)
       /\ \A start \in {certify.audit[i] : i \in DOMAIN certify.audit} :
             Cardinality({i \in DOMAIN certify.audit :
                            /\ start <= certify.audit[i]
                            /\ certify.audit[i] < start + Minute}) <= CallLimit

(* An update that met a response before its manifest fails, and a later one    *)
(* succeeds: as long as no manifest is missing for good, updates succeed again *)
(* and again (market_ingestion_reconciliation, "every row must report MATCH"). *)
UpdatesSucceed == [](Torn = {}) => []<>(outcome = "succeeded")
=============================================================================
