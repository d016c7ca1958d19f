--------------------------- MODULE NotableUpdates ---------------------------
(***************************************************************************)
(* get_notable_updates of mcp_server/research_broker.py: the price moves   *)
(* and the articles about the tickers of a user's watchlists since the     *)
(* user's last visit, each read by a query of its own, and the visit       *)
(* marked at the end if the caller wants it.  Meanwhile other calls store  *)
(* bars and articles, which carry the provider's dates, the list changes,  *)
(* and other calls of the same user mark their visits.                     *)
(***************************************************************************)
EXTENDS Integers, FiniteSets

CONSTANTS
    Followable,     \* tickers
    Moves,          \* the days on which the price of a ticker moved notably
    Articles,       \* articles linked to a ticker, by the date they have
    Callers,
    Week,           \* how far the first visit looks back
    NewsLimit,      \* articles an answer holds at most
    Never,          \* last_visit_at of a user who never visited
    MaxNow,         \* bound: the clock
    MaxFollows      \* bound: changes of the list

Items == Moves \cup Articles

ASSUME UpdatesAssumption ==
    /\ \A i \in Items : i.ticker \in Followable /\ i.at \in Int
    /\ Articles \subseteq [ticker : Followable, at : Int, id : Nat]
    /\ \A i, j \in Articles : i.id = j.id => [j EXCEPT !.at = i.at] \in Articles
    /\ Week \in Nat /\ NewsLimit \in Nat /\ MaxNow \in Nat /\ MaxFollows \in Nat
    /\ Never \notin Int

VARIABLES
    now,
    followed,
    stored,     \* price_snapshots with a notable change, and news_article_tickers
    visit,      \* users.last_visit_at
    call,       \* what each call of get_notable_updates is doing
    seen,       \* what calls showed that marked their visit
    follows

updateVars == <<now, followed, stored, visit, call, seen, follows>>

(* before: what was in seen when the call began.                               *)
NoCall == [pc |-> "idle", since |-> 0, shown |-> {}, at |-> 0, before |-> {}]

UpdatesInit ==
    /\ now = 0
    /\ followed = {} /\ stored = {} /\ seen = {}
    /\ visit = Never
    /\ call = [c \in Callers |-> NoCall]
    /\ follows = 0

Tick ==
    /\ now < MaxNow /\ now' = now + 1
    /\ UNCHANGED <<followed, stored, visit, call, seen, follows>>

Follow(t) ==
    /\ follows < MaxFollows /\ follows' = follows + 1
    /\ followed' = IF t \in followed THEN followed \ {t} ELSE followed \cup {t}
    /\ UNCHANGED <<now, stored, visit, call, seen>>

(* _save_bars of a series that begins on a day: its first bar has no bar       *)
(* before it and is stored without a change, over what was there.  Each bar is *)
(* a transaction of its own, and the call may end after any of them.           *)
SaveBars(t, first, last) ==
    /\ first <= last /\ last <= now
    /\ stored' = (stored \ {i \in Moves : i.ticker = t /\ i.at = first})
                   \cup {i \in Moves : i.ticker = t /\ first < i.at /\ i.at <= last}
    /\ UNCHANGED <<now, followed, visit, call, seen, follows>>

(* _save_news: an article and then a link of it, in two transactions.  The     *)
(* first gives an article that is there the date it comes with now, and with   *)
(* it all its links: to the queries each is another item.                      *)
SaveNews(i) ==
    /\ i.at <= now
    /\ \E links \in SUBSET {i} :
          LET there == {j \in stored \cap Articles : j.id = i.id}
          IN  stored' = (stored \ there) \cup {[j EXCEPT !.at = i.at] : j \in there} \cup links
    /\ UNCHANGED <<now, followed, visit, call, seen, follows>>

Begin(c) ==
    /\ call[c].pc = "idle"
    /\ call' = [call EXCEPT ![c] = [NoCall EXCEPT
         !.pc = "moves",
         !.since = IF visit = Never THEN now - Week ELSE visit,
         !.before = seen]]
    /\ UNCHANGED <<now, followed, stored, visit, seen, follows>>

(* A variant: what is as old as the visit is new.                              *)
NewToVisited(c, kind) == {i \in stored \cap kind : i.ticker \in followed /\ i.at >= call[c].since}

NewTo(c, kind) == {i \in stored \cap kind : i.ticker \in followed /\ i.at > call[c].since}

(* DISTINCT ON: the last move of each ticker.                                  *)
QueryMoves(c) ==
    /\ call[c].pc = "moves"
    /\ call' = [call EXCEPT
         ![c].pc = "news",
         ![c].shown = {i \in NewTo(c, Moves) :
                         \A j \in NewTo(c, Moves) : j.ticker = i.ticker => j.at <= i.at}]
    /\ UNCHANGED <<now, followed, stored, visit, seen, follows>>

(* ORDER BY published_at DESC LIMIT 50.                                        *)
QueryNews(c) ==
    /\ call[c].pc = "news"
    /\ \E news \in SUBSET NewTo(c, Articles) :
          /\ \A i \in news, j \in NewTo(c, Articles) \ news : j.at <= i.at
          /\ news = NewTo(c, Articles) \/ Cardinality(news) = NewsLimit
          /\ Cardinality(news) <= NewsLimit
          /\ call' = [call EXCEPT ![c].pc = "mark", ![c].shown = @ \cup news]
    /\ UNCHANGED <<now, followed, stored, visit, seen, follows>>

(* mark_visited is false: the call ends with its answer.                       *)
Unmarked(c) ==
    /\ call[c].pc = "mark"
    /\ call' = [call EXCEPT ![c] = NoCall]
    /\ UNCHANGED <<now, followed, stored, visit, seen, follows>>

(* The transaction of the UPDATE: its now() is the moment it began.            *)
BeginMark(c) ==
    /\ call[c].pc = "mark"
    /\ call' = [call EXCEPT ![c].pc = "update", ![c].at = now]
    /\ UNCHANGED <<now, followed, stored, visit, seen, follows>>

(* A mark may be overtaken by one that began later; the visit then goes back,  *)
(* and what the others showed counts as new again.                             *)
Mark(c) ==
    /\ call[c].pc = "update"
    /\ visit' = call[c].at
    /\ seen' = call[c].shown \cup IF visit # Never /\ visit > call[c].at THEN {} ELSE seen
    /\ call' = [call EXCEPT ![c] = NoCall]
    /\ UNCHANGED <<now, followed, stored, follows>>

(* A query fails: the caller gets an error and nothing is marked.              *)
Fail(c) ==
    /\ call[c].pc # "idle"
    /\ call' = [call EXCEPT ![c] = NoCall]
    /\ UNCHANGED <<now, followed, stored, visit, seen, follows>>

UpdatesNext ==
    \/ Tick
    \/ \E t \in Followable :
          \/ Follow(t)
          \/ \E first, last \in 0 .. MaxNow : SaveBars(t, first, last)
    \/ \E i \in Articles : SaveNews(i)
    \/ \E c \in Callers : \/ Begin(c) \/ QueryMoves(c) \/ QueryNews(c)
                          \/ Unmarked(c) \/ BeginMark(c) \/ Mark(c) \/ Fail(c)

UpdatesSpec == UpdatesInit /\ [][UpdatesNext]_updateVars

----------------------------------------------------------------------------
(* What a call showed that marked its visit is not shown to a call that begins *)
(* after the mark, whatever was stored or followed in between and although     *)
(* each query of a call sees another database ("since last visit",             *)
(* stock_research_mcp_server.py:404).  Calls at the same time may show the     *)
(* same, and a mark that was overtaken makes what the later one showed new.    *)
(* An article that the provider gives a new date is a new item.                *)
NothingShownTwice ==
    /\ \A c \in Callers : call[c].shown \cap call[c].before = {}
    /\ \A i \in seen : visit # Never /\ i.at <= visit
=============================================================================
