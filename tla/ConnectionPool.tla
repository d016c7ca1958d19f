--------------------------- MODULE ConnectionPool ---------------------------
(***************************************************************************)
(* The bounded connection pools through which the services read Lakebase:  *)
(* get_connection of mcp_server/lakebase.py (the dashboard has a copy) and *)
(* serving_connection of mcp_server/lakebase_serving.py, over psycopg2's   *)
(* ThreadedConnectionPool, which never waits for a free connection and     *)
(* keeps no more than its minimum when they come back.  The database may   *)
(* end all its connections at any moment; a client finds out when it uses  *)
(* one.                                                                    *)
(***************************************************************************)
EXTENDS Integers, FiniteSets, Sequences

CONSTANTS
    Threads,
    MinConn, MaxConn,
    NoConn,         \* what a thread without a connection holds
    MaxDeaths,      \* bound: times the database ends its connections
    MaxErrors       \* bound: statements that fail by themselves

(* alive: the database still has it; open: in a transaction; closed: the       *)
(* client knows that it is gone.                                               *)
Connection == [alive : BOOLEAN, open : BOOLEAN, closed : BOOLEAN]
New == [alive |-> TRUE, open |-> FALSE, closed |-> FALSE]

ASSUME PoolAssumption ==
    /\ IsFiniteSet(Threads) /\ NoConn \notin Connection
    /\ MinConn \in Nat \ {0} /\ MaxConn \in Nat /\ MinConn <= MaxConn
    /\ MaxDeaths \in Nat /\ MaxErrors \in Nat

VARIABLES
    style,      \* which of the two pools it is
    idle,       \* the connections the pool has at hand, the next one last
    thread,     \* what each thread is doing
    conn,       \* the connection it has checked out
    leaked,     \* slots of the pool that nobody will give back
    killed,     \* connections that the database has ended
    spoiled,    \* calls that failed by a connection that had been ended
    deaths, errors

poolVars == <<style, idle, thread, conn, leaked, killed, spoiled, deaths, errors>>

Busy == {t \in Threads : conn[t] # NoConn}
Full == Cardinality(Busy) + leaked >= MaxConn

PoolInit ==
    /\ style \in {"lakebase", "serving"}
    /\ idle = [i \in 1 .. MinConn |-> New]
    /\ thread = [t \in Threads |-> "idle"]
    /\ conn = [t \in Threads |-> NoConn]
    /\ leaked = 0 /\ killed = 0 /\ spoiled = 0 /\ deaths = 0 /\ errors = 0

To(t, label) == thread' = [thread EXCEPT ![t] = label]

Call(t) ==
    /\ thread[t] = "idle"
    /\ To(t, "checkout")
    /\ UNCHANGED <<style, idle, conn, leaked, killed, spoiled, deaths, errors>>

(* getconn: what is at hand, else a new one, else PoolError at once.           *)
GetConn(t, label) ==
    IF idle # <<>>
    THEN /\ conn' = [conn EXCEPT ![t] = idle[Len(idle)]]
         /\ idle' = SubSeq(idle, 1, Len(idle) - 1)
         /\ To(t, label)
    ELSE IF ~Full
    THEN /\ conn' = [conn EXCEPT ![t] = New]
         /\ To(t, label)
         /\ UNCHANGED idle
    ELSE /\ To(t, "idle")
         /\ UNCHANGED <<idle, conn>>

Checkout(t) ==
    /\ thread[t] = "checkout"
    /\ GetConn(t, "ping")
    /\ UNCHANGED <<style, leaked, killed, spoiled, deaths, errors>>

(* SELECT 1 opens a transaction, or finds that the connection is stale.        *)
Ping(t) ==
    /\ thread[t] = "ping"
    /\ IF conn[t].alive
       THEN /\ conn' = [conn EXCEPT ![t].open = TRUE]
            /\ To(t, "read")
       ELSE /\ conn' = [conn EXCEPT ![t] = NoConn]
            /\ To(t, "replace")
    /\ UNCHANGED <<style, idle, leaked, killed, spoiled, deaths, errors>>

(* It is replaced once, by one that is not tried.                              *)
Replace(t) ==
    /\ thread[t] = "replace"
    /\ GetConn(t, "read")
    /\ UNCHANGED <<style, leaked, killed, spoiled, deaths, errors>>

(* The statement of the call; a dead connection is found out and closed.       *)
Read(t) ==
    /\ thread[t] = "read"
    /\ IF conn[t].alive
       THEN /\ conn' = [conn EXCEPT ![t].open = TRUE]
            /\ To(t, "answered")
            /\ UNCHANGED spoiled
       ELSE /\ conn' = [conn EXCEPT ![t].closed = TRUE]
            /\ To(t, "failed")
            /\ spoiled' = spoiled + 1
    /\ UNCHANGED <<style, idle, leaked, killed, deaths, errors>>

StatementFails(t) ==
    /\ thread[t] = "read" /\ conn[t].alive /\ errors < MaxErrors
    /\ conn' = [conn EXCEPT ![t].open = TRUE]
    /\ To(t, "failed")
    /\ errors' = errors + 1
    /\ UNCHANGED <<style, idle, leaked, killed, spoiled, deaths>>

(* A variant: the connection is kept without ending its transaction.           *)
PutBackOpen(c) == IF Len(idle) < MinConn /\ ~c.closed
                  THEN idle' = Append(idle, c) ELSE UNCHANGED idle

(* putconn of a connection that works: it ends the transaction and keeps the   *)
(* connection if there are fewer than the minimum.                             *)
PutBack(c) == IF Len(idle) < MinConn /\ ~c.closed
              THEN idle' = Append(idle, [c EXCEPT !.open = FALSE]) ELSE UNCHANGED idle

(* Does giving the connection back raise, so that its slot stays taken: the    *)
(* rollback finds the connection dead.  serving_connection rolls back always,  *)
(* outside of any handler, before putconn; get_connection rolls back after an  *)
(* error, with putconn in a finally, and else leaves it to putconn, which only *)
(* does so when it keeps the connection.                                       *)
RollbackRaises(t) ==
    /\ ~conn[t].alive /\ ~conn[t].closed
    /\ IF style = "serving" THEN TRUE
       ELSE thread[t] = "answered" /\ conn[t].open /\ Len(idle) < MinConn

(* A variant: putconn is not in a finally.                                     *)
ReturnUnlessFailed(t) ==
    /\ thread[t] \in {"answered", "failed"}
    /\ conn' = [conn EXCEPT ![t] = NoConn]
    /\ To(t, "idle")
    /\ IF thread[t] = "failed"
       THEN /\ leaked' = leaked + 1
            /\ UNCHANGED idle
       ELSE /\ PutBack(conn[t])
            /\ UNCHANGED leaked
    /\ UNCHANGED <<style, killed, spoiled, deaths, errors>>

Return(t) ==
    /\ thread[t] \in {"answered", "failed"}
    /\ conn' = [conn EXCEPT ![t] = NoConn]
    /\ To(t, "idle")
    /\ IF RollbackRaises(t)
       THEN /\ leaked' = leaked + 1
            /\ spoiled' = spoiled + 1
            /\ UNCHANGED idle
       ELSE /\ PutBack(IF conn[t].alive THEN conn[t] ELSE [conn[t] EXCEPT !.closed = TRUE])
            /\ UNCHANGED <<leaked, spoiled>>
    /\ UNCHANGED <<style, killed, deaths, errors>>

(* The database restarts or ends idle sessions.                                *)
Die ==
    /\ deaths < MaxDeaths
    /\ deaths' = deaths + 1
    /\ killed' = killed + Cardinality({t \in Busy : conn[t].alive})
                        + Cardinality({i \in DOMAIN idle : idle[i].alive})
    /\ idle' = [i \in DOMAIN idle |-> [idle[i] EXCEPT !.alive = FALSE]]
    /\ conn' = [t \in Threads |-> IF conn[t] = NoConn THEN NoConn
                                  ELSE [conn[t] EXCEPT !.alive = FALSE]]
    /\ UNCHANGED <<style, thread, leaked, spoiled, errors>>

PoolNext ==
    \/ Die
    \/ \E t \in Threads : \/ Call(t) \/ Checkout(t) \/ Ping(t) \/ Replace(t)
                          \/ Read(t) \/ StatementFails(t) \/ Return(t)

PoolSpec == PoolInit /\ [][PoolNext]_poolVars

----------------------------------------------------------------------------
(* Type correctness, and what a pool may hold: no more connections and lost    *)
(* slots than its maximum, no more idle ones than its minimum, and none of     *)
(* these with a transaction of the call before (lakebase_serving.py:109,       *)
(* "later reads do not inherit an idle or aborted transaction").               *)
IdleIsClean ==
    /\ style \in {"lakebase", "serving"}
    /\ thread \in [Threads -> {"idle", "checkout", "ping", "replace", "read",
                               "answered", "failed"}]
    /\ conn \in [Threads -> Connection \cup {NoConn}]
    /\ \A t \in Threads : conn[t] # NoConn <=> thread[t] \in {"ping", "read", "answered", "failed"}
    /\ idle \in Seq(Connection) /\ Len(idle) <= MinConn
    /\ Cardinality(Busy) + leaked <= MaxConn
    /\ \A i \in DOMAIN idle : ~idle[i].open /\ ~idle[i].closed

(* A connection that the database has ended spoils one call at most and costs  *)
(* one slot at most: a stale one never comes back to the pool after it was     *)
(* found out, and no slot is lost otherwise.                                   *)
DeadConnectionsSpoilOnce == spoiled <= killed /\ leaked <= spoiled
=============================================================================
