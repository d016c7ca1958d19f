--------------------------- MODULE ActivityMetrics --------------------------
(***************************************************************************)
(* The usage metrics: changes committed in Lakebase reach five history     *)
(* tables through Lakehouse Sync, which may deliver them late, again and   *)
(* out of order; the activity pipeline appends them to                     *)
(* bronze_lakebase_changes, keeps one row of each operation in             *)
(* silver_agent_activity and counts these in five gold tables.  An update  *)
(* of the pipeline commits table after table and may stop between any two. *)
(*                                                                         *)
(* Of a row the model keeps who, when and what was done; one row per       *)
(* source table but agent_tool_events is enough for every kind of change.  *)
(***************************************************************************)
EXTENDS Integers, FiniteSets, Sequences

CONSTANTS
    Tables,       \* the source tables, of the five of CDC_SOURCE_TABLES
    Users,
    Nobody,       \* the user of an event whose caller was not identified
    Inputs,       \* what the application may commit: [table, op, user, status]
    LastDay,      \* bound: days are 1 .. LastDay
    MaxChanges,   \* bound: committed operations
    MaxAgain,     \* bound: deliveries of a change delivered before
    MaxFaults     \* bound: failed updates of the pipeline

Sources == {"agent_tool_events", "agent_sessions", "watchlist_tickers",
            "research_notes", "analysis_reports"}
Effective == {"insert", "update_postimage", "delete"}
Actions == {"create", "update", "delete"}
Families == {"daily", "tools", "errors", "watchlist", "saves"}
Days == 1 .. LastDay

ASSUME ActivityAssumption ==
    /\ Tables \subseteq Sources
    /\ Nobody \notin Users
    /\ Inputs \subseteq [table : Tables, op : {"insert", "update", "delete"},
                         user : Users \cup {Nobody}, status : {"success", "error"}]
    /\ LastDay \in Nat \ {0} /\ MaxChanges \in Nat /\ MaxAgain \in Nat
    /\ MaxFaults \in Nat

VARIABLES
    wal,      \* the committed changes; the place of one is its _pg_lsn
    history,  \* history[t]: the copies Lakehouse Sync has appended
    read,     \* read[t]: how many of them the append flow has taken
    silver,   \* the copies that silver_agent_activity holds
    gold,     \* the metrics, by family
    update,   \* the update of the pipeline: the tables it has still to do
    day,
    faults

vars == <<wal, history, read, silver, gold, update, day, faults>>

(* bronze_lakebase_changes: the copies taken so far, by table and place.     *)
Bronze == UNION {{t} \X (1 .. read[t]) : t \in Tables}
Copy(p) == history[p[1]][p[2]]
Row(p) == wal[Copy(p).lsn]

----------------------------------------------------------------------------
(* The application and Lakehouse Sync.                                       *)

(* The rows of t that have been inserted and not deleted.  The key of a row   *)
(* is the place of its insert.                                                *)
Live(t) ==
    {i \in DOMAIN wal : /\ wal[i].table = t /\ wal[i].type = "insert"
                        /\ \A j \in DOMAIN wal : wal[j].type = "delete" => wal[j].key # i}

Types(op) == IF op = "update" THEN <<"update_preimage", "update_postimage">> ELSE <<op>>

(* The day that a row names itself: of its last update (updated_at,           *)
(* last_activity_at, last_viewed_at), or of its creation where the flow takes *)
(* created_at.                                                                *)
KeepsItsDay == {"agent_tool_events", "analysis_reports"}
DayOf(input, key) ==
    IF input.op # "insert" /\ input.table \in KeepsItsDay THEN wal[key].day ELSE day

Commit(input) ==
    /\ Len(wal) < MaxChanges
    /\ \E key \in IF input.op = "insert" THEN {Len(wal) + 1} ELSE Live(input.table) :
          wal' = wal \o [i \in DOMAIN Types(input.op) |->
                            [table |-> input.table, key |-> key, type |-> Types(input.op)[i],
                             user |-> input.user, status |-> input.status,
                             day |-> DayOf(input, key)]]
    /\ UNCHANGED <<history, read, silver, gold, update, day, faults>>

Again == {p \in UNION {{t} \X DOMAIN history[t] : t \in Tables} :
            \E i \in 1 .. p[2] - 1 : history[p[1]][i].lsn = Copy(p).lsn}
Copies(lsn) == {i \in DOMAIN history[wal[lsn].table] : history[wal[lsn].table][i].lsn = lsn}

Deliver(lsn) ==
    /\ Copies(lsn) # {} => Cardinality(Again) < MaxAgain
    /\ history' = [history EXCEPT ![wal[lsn].table] =
                      Append(@, [lsn |-> lsn, synced |-> day])]
    /\ UNCHANGED <<wal, read, silver, gold, update, day, faults>>

NextDay ==
    /\ day < LastDay /\ day' = day + 1
    /\ UNCHANGED <<wal, history, read, silver, gold, update, faults>>

----------------------------------------------------------------------------
(* silver_agent_activity.                                                    *)

(* Two variants: the identity of a change without its row and its place in    *)
(* the log, and rank() in place of row_number().                              *)
ChangeIdOfRow(p) == <<Row(p).table, Row(p).type>>
OutrankedTied(q, p) == Copy(q).synced > Copy(p).synced

ChangeId(p) == <<Row(p).table, Row(p).key, Row(p).type, Copy(p).lsn>>

(* The window orders the copies of a change, latest first (their sort key is  *)
(* the same); of equal copies it takes any one.                               *)
Outranked(q, p) == \/ Copy(q).synced > Copy(p).synced
                   \/ Copy(q).synced = Copy(p).synced /\ q[2] > p[2]

Silver ==
    LET effective == {p \in Bronze : Row(p).type \in Effective}
    IN  {p \in effective :
           \A q \in effective : ChangeId(q) = ChangeId(p) => ~Outranked(q, p)}

(* A deletion has no time of its own: it is dated when it was delivered.  Any *)
(* other change has the day its row names.                                    *)
EventDay(p) == IF Row(p).type = "delete" THEN Copy(p).synced ELSE Row(p).day

ActionType(p) == CASE Row(p).type = "insert" -> "create"
                   [] Row(p).type = "update_postimage" -> "update"
                   [] Row(p).type = "delete" -> "delete"

----------------------------------------------------------------------------
(* The five gold tables, of a set of silver rows.  A group without rows is a  *)
(* zero here.                                                                 *)

Researchers(rows) == Cardinality({Row(p).user : p \in rows} \ {Nobody})

Invocations(rows, d) ==
    {p \in rows : /\ Row(p).table = "agent_tool_events"
                  /\ Row(p).type = "insert"
                  /\ EventDay(p) = d}

With(rows, status) == Cardinality({p \in rows : Row(p).status = status})

Daily(rows) ==
    [d \in Days |->
       LET known == {p \in Invocations(rows, d) : Row(p).user # Nobody}
       IN  [researchers |-> Researchers(known), invocations |-> Cardinality(known)]]

Tools(rows) ==
    [d \in Days |-> LET calls == Invocations(rows, d)
                    IN  [success |-> With(calls, "success"), error |-> With(calls, "error")]]

Errors(rows) ==
    [d \in Days |-> LET calls == Invocations(rows, d)
                    IN  [invocations |-> Cardinality(calls), error |-> With(calls, "error")]]

Watchlist(rows) ==
    [g \in Days \X Actions |->
       Cardinality({p \in rows : /\ Row(p).table = "watchlist_tickers"
                                 /\ EventDay(p) = g[1] /\ ActionType(p) = g[2]})]

Saves(rows) ==
    [g \in Days \X {"research_notes", "analysis_reports"} \X Actions |->
       LET group == {p \in rows : /\ Row(p).table = g[2]
                                  /\ EventDay(p) = g[1] /\ ActionType(p) = g[3]}
       IN  [changes |-> Cardinality(group), researchers |-> Researchers(group)]]

Metrics(rows) == [daily |-> Daily(rows), tools |-> Tools(rows), errors |-> Errors(rows),
                  watchlist |-> Watchlist(rows), saves |-> Saves(rows)]

----------------------------------------------------------------------------
(* One update of the pipeline, started every half hour, never two at a time.  *)

Off == [pc |-> "off", todo |-> {}]

Init ==
    /\ wal = <<>>
    /\ history = [t \in Tables |-> <<>>]
    /\ read = [t \in Tables |-> 0]
    /\ silver = {}
    /\ gold = Metrics({})
    /\ update = Off
    /\ day = 1
    /\ faults = 0

Start ==
    /\ update = Off
    /\ update' = [pc |-> "bronze", todo |-> Tables]
    /\ UNCHANGED <<wal, history, read, silver, gold, day, faults>>

(* The rows of one flow and its place in the history commit together.         *)
AppendFlow(t) ==
    /\ update.pc = "bronze" /\ t \in update.todo
    /\ read' = [read EXCEPT ![t] = Len(history[t])]
    /\ update' = IF update.todo = {t} THEN [pc |-> "silver", todo |-> {}]
                 ELSE [update EXCEPT !.todo = @ \ {t}]
    /\ UNCHANGED <<wal, history, silver, gold, day, faults>>

RefreshSilver ==
    /\ update.pc = "silver"
    /\ silver' = Silver
    /\ update' = [pc |-> "gold", todo |-> Families]
    /\ UNCHANGED <<wal, history, read, gold, day, faults>>

(* The five tables read nothing of each other: one order stands for all.      *)
RefreshGold ==
    /\ update.pc = "gold" /\ update.todo # {}
    /\ LET f == CHOOSE g \in update.todo : TRUE
       IN  /\ gold' = [gold EXCEPT ![f] = Metrics(silver)[f]]
           /\ update' = [update EXCEPT !.todo = @ \ {f}]
    /\ UNCHANGED <<wal, history, read, silver, day, faults>>

End ==
    /\ update.pc = "gold" /\ update.todo = {}
    /\ update' = Off
    /\ UNCHANGED <<wal, history, read, silver, gold, day, faults>>

(* A variant: the failed update is left as it is and nothing starts anew.     *)
FailStuck ==
    /\ update # Off /\ faults < MaxFaults
    /\ update' = [pc |-> "failed", todo |-> {}]
    /\ faults' = faults + 1
    /\ UNCHANGED <<wal, history, read, silver, gold, day>>

(* What it has committed stays; the next update goes on from there.           *)
Fail ==
    /\ update # Off /\ faults < MaxFaults
    /\ update' = Off
    /\ faults' = faults + 1
    /\ UNCHANGED <<wal, history, read, silver, gold, day>>

Pipeline == \/ Start \/ RefreshSilver \/ RefreshGold \/ End
            \/ \E t \in Tables : AppendFlow(t)

Next == \/ Pipeline \/ Fail \/ NextDay
        \/ \E input \in Inputs : Commit(input)
        \/ \E lsn \in DOMAIN wal : Deliver(lsn)

Spec == Init /\ [][Next]_vars

(* The schedule starts an update after the last one has ended; every change   *)
(* is delivered at least once.                                                *)
Delivery(lsn) == lsn \in DOMAIN wal /\ Copies(lsn) = {} /\ Deliver(lsn)
FairSpec ==
    /\ Spec
    /\ WF_vars(Pipeline)
    /\ \A lsn \in 1 .. MaxChanges + 1 : WF_vars(Delivery(lsn))

----------------------------------------------------------------------------
(* How many operations of one kind were committed.                            *)
Committed(t, type) == {i \in DOMAIN wal : wal[i].table = t /\ wal[i].type = type}
CommittedCalls(d) == {i \in Committed("agent_tool_events", "insert") : wal[i].day = d}

(* No metric counts an operation twice, nor on a day it was not made, however *)
(* often and in whatever order its changes are delivered (the row_number of   *)
(* silver_agent_activity over change_id).                                     *)
NothingCountedTwice ==
    /\ \A d \in Days :
         /\ gold.errors[d].invocations <= Cardinality(CommittedCalls(d))
         /\ gold.tools[d].success + gold.tools[d].error <= Cardinality(CommittedCalls(d))
         /\ gold.daily[d].invocations <= Cardinality(CommittedCalls(d))
    /\ \A d \in Days, t \in {"research_notes", "analysis_reports"} :
         /\ gold.saves[<<d, t, "create">>].changes
              <= Cardinality({i \in Committed(t, "insert") : wal[i].day = d})
         /\ gold.saves[<<d, t, "delete">>].changes <= Cardinality(Committed(t, "delete"))
    /\ \A d \in Days :
         gold.watchlist[<<d, "create">>]
           <= Cardinality({i \in Committed("watchlist_tickers", "insert") : wal[i].day = d})

(* What a day's metrics have counted once stays counted, whatever arrives     *)
(* later: only a deletion delivered again may move to a later day.            *)
PublishedCountsStand ==
    [][\A d \in Days :
         /\ gold'.errors[d].invocations >= gold.errors[d].invocations
         /\ gold'.tools[d].success >= gold.tools[d].success
         /\ gold'.daily[d].researchers >= gold.daily[d].researchers
         /\ \A a \in {"create", "update"} :
              /\ gold'.watchlist[<<d, a>>] >= gold.watchlist[<<d, a>>]
              /\ \A t \in {"research_notes", "analysis_reports"} :
                   gold'.saves[<<d, t, a>>].changes >= gold.saves[<<d, t, a>>].changes]_vars

(* When changes stop, the metrics come to count every one of them: no history *)
(* row is skipped by a failed update.                                         *)
Complete ==
    \A d \in Days :
       /\ gold.errors[d].invocations = Cardinality(CommittedCalls(d))
       /\ \A t \in {"research_notes", "analysis_reports"} :
            gold.saves[<<d, t, "create">>].changes
              = Cardinality({i \in Committed(t, "insert") : wal[i].day = d})
       /\ gold.watchlist[<<d, "create">>]
            = Cardinality({i \in Committed("watchlist_tickers", "insert") : wal[i].day = d})
MetricsCatchUp == <>[]Complete
=============================================================================
