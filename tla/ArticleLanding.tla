--------------------------- MODULE ArticleLanding ---------------------------
(***************************************************************************)
(* The landing of news: ingestion/article_landing.py, as the job of        *)
(* research_article_ingestion.job.yml runs it, one run at a time.  A query *)
(* of a ticker is answered from the cache or by the provider; an answer    *)
(* lies in a directory named by its checksum, a response and a manifest,   *)
(* and cache.json of the ticker names the manifest.  Unlike SecLanding a   *)
(* response without its manifest is written again.                         *)
(***************************************************************************)
EXTENDS Integers, FiniteSets

CONSTANTS
    NQueries,          \* the distinct tickers of the job, in their order
    News,              \* what the provider may answer, by its checksum
    NoNews,            \* no answer
    MaxArticleFaults   \* bound: failed requests and writes, and kills

Queries == 1 .. NQueries

ASSUME ArticleAssumption ==
    NQueries \in Nat \ {0} /\ NoNews \notin News /\ MaxArticleFaults \in Nat

VARIABLES
    responses,      \* responses[q]: the answers that have their response.json
    described,      \* described[q]: ... and their manifest.json
    cache,          \* cache.json: the answer, and whether it is recent enough
    latest,         \* history: what the provider answered last
    landing,        \* the run
    articleFaults

articleVars == <<responses, described, cache, latest, landing, articleFaults>>

NoCache == [news |-> NoNews, fresh |-> FALSE]
NoLanding == [pc |-> "idle", query |-> 1, news |-> NoNews]

ArticlesInit ==
    /\ responses = [q \in Queries |-> {}] /\ described = responses
    /\ cache = [q \in Queries |-> NoCache]
    /\ latest = [q \in Queries |-> NoNews]
    /\ landing = NoLanding /\ articleFaults = 0

LandingTo(pc) == landing' = [landing EXCEPT !.pc = pc]
Query == landing.query
Answered == landing.news
NextTicker ==
    landing' = IF Query < NQueries
               THEN [pc |-> "cached", query |-> Query + 1, news |-> NoNews]
               ELSE NoLanding
Whole(q, n) == n \in responses[q] /\ n \in described[q]

StartLanding ==
    /\ landing.pc = "idle"
    /\ landing' = [NoLanding EXCEPT !.pc = "cached"]
    /\ UNCHANGED <<responses, described, cache, latest, articleFaults>>

(* cached(): a pointer that names half a pair raises.                          *)
Cached ==
    /\ landing.pc = "cached"
    /\ IF ~cache[Query].fresh THEN LandingTo("request")
       ELSE IF Whole(Query, cache[Query].news) THEN NextTicker
       ELSE landing' = NoLanding
    /\ UNCHANGED <<responses, described, cache, latest, articleFaults>>

RequestNews ==
    /\ landing.pc = "request"
    /\ \E n \in News :
          /\ landing' = [landing EXCEPT !.pc = "check", !.news = n]
          /\ latest' = [latest EXCEPT ![Query] = n]
    /\ UNCHANGED <<responses, described, cache, articleFaults>>

(* land(): whether the pair is there is a question for its manifest.  A        *)
(* variant asks for the response.                                              *)
CheckResponse ==
    /\ landing.pc = "check"
    /\ IF Answered \notin responses[Query] THEN LandingTo("response")
       ELSE IF Answered \in described[Query] THEN LandingTo("point")
       ELSE landing' = NoLanding
    /\ UNCHANGED <<responses, described, cache, latest, articleFaults>>

CheckManifest ==
    /\ landing.pc = "check"
    /\ IF Answered \notin described[Query] THEN LandingTo("response")
       ELSE IF Answered \in responses[Query] THEN LandingTo("point")
       ELSE landing' = NoLanding
    /\ UNCHANGED <<responses, described, cache, latest, articleFaults>>

WriteResponse ==
    /\ landing.pc = "response"
    /\ responses' = [responses EXCEPT ![Query] = @ \cup {Answered}]
    /\ LandingTo("manifest")
    /\ UNCHANGED <<described, cache, latest, articleFaults>>

WriteManifest ==
    /\ landing.pc = "manifest"
    /\ described' = [described EXCEPT ![Query] = @ \cup {Answered}]
    /\ LandingTo("point")
    /\ UNCHANGED <<responses, cache, latest, articleFaults>>

(* A variant: an answer that has landed before leaves the pointer as it is.    *)
PointOnce ==
    /\ landing.pc = "point"
    /\ cache' = [cache EXCEPT ![Query] =
                    [news |-> IF @.news = NoNews THEN Answered ELSE @.news, fresh |-> TRUE]]
    /\ NextTicker
    /\ UNCHANGED <<responses, described, latest, articleFaults>>

Point ==
    /\ landing.pc = "point"
    /\ cache' = [cache EXCEPT ![Query] = [news |-> Answered, fresh |-> TRUE]]
    /\ NextTicker
    /\ UNCHANGED <<responses, described, latest, articleFaults>>

(* A request or a write fails, or the run is killed.                           *)
LandingFails ==
    /\ landing.pc # "idle" /\ articleFaults < MaxArticleFaults
    /\ landing' = NoLanding /\ articleFaults' = articleFaults + 1
    /\ UNCHANGED <<responses, described, cache, latest>>

(* Six hours pass.                                                             *)
Expire(q) ==
    /\ cache[q].fresh
    /\ cache' = [cache EXCEPT ![q].fresh = FALSE]
    /\ UNCHANGED <<responses, described, latest, landing, articleFaults>>

LandNews == \/ StartLanding \/ Cached \/ RequestNews \/ CheckManifest
            \/ WriteResponse \/ WriteManifest \/ Point

ArticlesNext == LandNews \/ LandingFails \/ \E q \in Queries : Expire(q)

ArticlesSpec == ArticlesInit /\ [][ArticlesNext]_articleVars

----------------------------------------------------------------------------
(* While a query is answered from the cache it gets what the provider said    *)
(* last, from a pair that is whole, although answers come back that have      *)
(* landed before and runs end between any two files (land(), cached()).       *)
CacheServesLatest ==
    \A q \in Queries : cache[q].fresh => cache[q].news = latest[q] /\ Whole(q, latest[q])

(* No fault keeps a query from landing: half a pair is repaired.  Whatever    *)
(* has happened, each query has a fresh answer again and again.               *)
ArticlesLand == \A q \in Queries : []<>(cache[q].fresh /\ Whole(q, cache[q].news))
=============================================================================
