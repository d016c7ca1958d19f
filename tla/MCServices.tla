----------------------------- MODULE MCServices -----------------------------
(***************************************************************************)
(* Eight parts that share no state with one another: the migrations, the   *)
(* connection pools, the company profiles and the notable updates; the     *)
(* accounting of the market pipeline, the landing of articles, the SEC     *)
(* client and the chunks of a document.  One run checks them, each in the  *)
(* behaviours in which only it moves; the pipeline twice, with its         *)
(* failures and, without them and with the dates landed one after the      *)
(* other, as the job does it, beside the certification.                    *)
(***************************************************************************)
EXTENDS Migrations, ConnectionPool, CompanyProfiles, NotableUpdates,
        MarketQuality, ArticleLanding, SecClient, ResearchChunks, TLC

VARIABLE focus

(* Texts of up to nine tokens with up to two headings, any of them selected.   *)
EmptyText == [length |-> 0, heads |-> {}, selected |-> {}]
MCDocuments ==
    {EmptyText} \cup
    UNION {{[length |-> n, heads |-> heads, selected |-> chosen] : chosen \in SUBSET heads} :
             <<n, heads>> \in {m \in (1 .. 9) \X SUBSET (0 .. 8) :
                                 /\ m[2] \subseteq 0 .. m[1] - 1 /\ Cardinality(m[2]) <= 2}}

vars == <<focus, migrationVars, poolVars, profileVars, updateVars,
          qualityVars, articleVars, secVars, chunkVars>>

Init ==
    /\ focus \in {"migrations", "pool", "profiles", "updates", "quality", "certificate",
                  "articles", "sec client", "chunks"}
    /\ MigrationsInit /\ PoolInit /\ ProfilesInit /\ UpdatesInit
    /\ QualityInit /\ ArticlesInit /\ SecInit /\ ChunksInit
    /\ focus # "pool" => style = "serving"
    /\ focus # "chunks" => document = EmptyText

Next ==
    /\ UNCHANGED focus
    /\ IF focus = "migrations" THEN TRUE ELSE UNCHANGED migrationVars
    /\ IF focus = "pool"       THEN TRUE ELSE UNCHANGED poolVars
    /\ IF focus = "profiles"   THEN TRUE ELSE UNCHANGED profileVars
    /\ IF focus = "updates"    THEN TRUE ELSE UNCHANGED updateVars
    /\ IF focus \in {"quality", "certificate"} THEN TRUE ELSE UNCHANGED qualityVars
    /\ IF focus = "articles"   THEN TRUE ELSE UNCHANGED articleVars
    /\ IF focus = "sec client" THEN TRUE ELSE UNCHANGED secVars
    /\ IF focus = "chunks"     THEN TRUE ELSE UNCHANGED chunkVars
    /\ \/ focus = "migrations"  /\ MigrationsNext
       \/ focus = "pool"        /\ PoolNext
       \/ focus = "profiles"    /\ ProfilesNext
       \/ focus = "updates"     /\ UpdatesNext
       \/ focus = "quality"     /\ PipelineNext
       \/ focus = "certificate" /\ QualityNext /\ Torn' = {} /\ stops' = 0
                                /\ (files'[2] # "none" => files'[1] = "pair")
       \/ focus = "articles"    /\ ArticlesNext
       \/ focus = "sec client"  /\ SecClientNext
       \/ focus = "chunks"      /\ ChunksNext

(* The host starts a process again that ended, PostgreSQL answers every        *)
(* statement, and each reader reads the list again and again.  The schedule    *)
(* starts an update after the last one has ended, a manifest follows its       *)
(* response, and the landing of articles is run again by its operator and      *)
(* takes its steps.                                                            *)
Spec ==
    /\ Init /\ [][Next]_vars
    /\ \A p \in Processes : WF_migrationVars(focus = "migrations" /\ Migrate(p))
    /\ \A r \in Readers : WF_profileVars(focus = "profiles" /\ ReadList(r))
    /\ WF_qualityVars(focus = "quality" /\ UpdateRuns)
    /\ \A d \in Dates : WF_qualityVars(focus = "quality" /\ files[d] = "response" /\ LandFile(d))
    /\ WF_articleVars(focus = "articles" /\ LandNews)

(* ServersStart of Migrations, in the behaviours in which migrations move.     *)
MigrationsEnd == focus = "migrations" => ServersStart

(* UpdatesSucceed of MarketQuality, in the behaviours in which it moves.       *)
PipelineRecovers == focus = "quality" => UpdatesSucceed

(* ArticlesLand of ArticleLanding, in the behaviours in which it moves.        *)
QueriesAreAnswered == focus = "articles" => ArticlesLand

CONSTANTS p1, p2, p3

(* Two processes of one release, and one of the next.  Their checksums agree:  *)
(* a process with a changed file never serves (SkipFile).                      *)
MCFiles ==
    (p1 :> (1 :> "a" @@ 2 :> "b")) @@ (p2 :> (1 :> "a" @@ 2 :> "b" @@ 3 :> "c"))
        @@ (p3 :> (1 :> "a" @@ 2 :> "b"))

MCMoves == {[ticker |-> "A", at |-> 1]}
\* Two articles, of which the first may move to the next day.
MCArticles == {[ticker |-> "A", at |-> 1, id |-> 1], [ticker |-> "A", at |-> 2, id |-> 1],
               [ticker |-> "A", at |-> 2, id |-> 2]}

(* One date with a ticker twice, once valid, once not; one with two valid bars *)
(* of a ticker and three of others.                                            *)
Bar(ticker, bad, id) == [ticker |-> ticker, bad |-> bad, id |-> id]
Others == {Bar("B", FALSE, 3), Bar("C", FALSE, 4), Bar("D", FALSE, 5)}
MCContent ==
    (1 :> Others \cup {Bar("A", FALSE, 1), Bar("A", TRUE, 2)})
    @@ (2 :> Others \cup {Bar("A", FALSE, 1), Bar("A", FALSE, 2)})
MCAudits == {<<0, 2, 3, 4>>, <<0, 0, 3, 3>>, <<1, 1, 1>>}

ASSUME MostAreGood
=============================================================================
