-------------------------- MODULE ConfirmedWrites --------------------------
(***************************************************************************)
(* The write tools of the MCP server: mcp_server/action_service.py, whose  *)
(* _execute runs every write and its idempotency record in one PostgreSQL  *)
(* transaction, with the tracing wrapper of stock_research_mcp_server.py   *)
(* around it and the clients that call it, time out and try again.         *)
(*                                                                         *)
(* The transaction starts by upserting the user's row, so it holds that    *)
(* row's lock until it commits or rolls back; what it wrote is invisible   *)
(* to the others until it commits.  A note, a report and the change of a   *)
(* watchlist are the bodies a request may carry.                           *)
(***************************************************************************)
EXTENDS Integers, FiniteSets

CONSTANTS
    Users,
    Sessions,    \* browser tabs and agents
    Owner,       \* Owner[s]: the user a session is authenticated as
    Workers,     \* the server's threads
    Keys,        \* idempotency keys
    Bodies,      \* the writes that may be requested: [op, verb, item]
    StableKeys,  \* does a client retry with the key it used first
    NoRecord,    \* a row that does not exist
    NoRequest,   \* the request of an idle worker or client
    Nobody,      \* the holder of a free row lock
    MaxSends,    \* bound: MaxSends[s] is how many requests a session sends
    MaxFaults    \* bound: database errors and restarts together

Ops   == {b.op : b \in Bodies}
Verbs == {"add", "remove", "create"}
Items == {b.item : b \in Bodies}
Slots == Users \X Ops \X Keys

ASSUME WritesAssumption ==
    /\ Owner \in [Sessions -> Users]
    /\ \A b \in Bodies : /\ b = [op |-> b.op, verb |-> b.verb, item |-> b.item]
                         /\ b.op \in {"update_watchlist", "save_research_note",
                                     "save_analysis_report"}
                         /\ b.verb \in Verbs
                         /\ b.verb = "create" <=> b.op # "update_watchlist"
    /\ Keys # {} /\ Bodies # {}
    /\ StableKeys \in BOOLEAN
    /\ Nobody \notin Workers
    /\ MaxSends \in [Sessions -> Nat] /\ MaxFaults \in Nat

Results == [id : Nat, changed : BOOLEAN, tickers : SUBSET Items]
NoResult == [id |-> 0, changed |-> FALSE, tickers |-> {}]
Requests == [session : Sessions, action : Nat, send : Nat, key : Keys, body : Bodies]

ASSUME NullAssumption == NoRequest \notin Requests /\ NoRecord \notin Bodies

VARIABLES
    client,    \* what each session waits for: its last request, how many it sent
    network,   \* requests on their way to the server
    work,      \* what each worker is doing
    holder,    \* the worker whose transaction has locked the user's row
    used,      \* idempotency_records: the request each committed row is for
    stored,    \* ... and the result it holds
    saved,     \* research_notes and analysis_reports: the committed rows
    lists,     \* watchlist_tickers: the committed membership of each user's list
    nextId,    \* the sequence of the ids, which no rollback returns
    audit,     \* agent_tool_events: the calls reported successful
    acks,      \* history: the successes the clients were told of
    faults     \* the number of faults so far

db == <<holder, used, stored, saved, lists, nextId>>
vars == <<client, network, work, db, audit, acks, faults>>

Ledger == INSTANCE ActionLedger WITH None <- NoRecord, done <- used

IdleWorker == [pc |-> "idle", req |-> NoRequest, status |-> "error", result |-> NoResult]

Init ==
    /\ client = [s \in Sessions |-> [sends |-> 0, last |-> NoRequest]]
    /\ network = {}
    /\ work = [w \in Workers |-> IdleWorker]
    /\ holder = [u \in Users |-> Nobody]
    /\ used = [slot \in Slots |-> NoRecord]
    /\ stored = [slot \in Slots |-> NoResult]
    /\ saved = {}
    /\ lists = [u \in Users |-> {}]
    /\ nextId = 1
    /\ audit = {} /\ acks = {} /\ faults = 0

Fault == faults < MaxFaults /\ faults' = faults + 1
User(q) == Owner[q.session]
Slot(q) == <<User(q), q.body.op, q.key>>

----------------------------------------------------------------------------
(* The clients.  A client waits for the answer to its last request until it   *)
(* gives up, after twenty seconds in the MCP client; the server does not learn *)
(* of it.  A request that is lost is one that no worker ever takes.            *)

Waits(s) == client[s].last # NoRequest

(* An action of the user is named by the first request sent for it. *)
Send(s, action, k, b) ==
    LET q == [session |-> s, action |-> action, send |-> client[s].sends + 1,
              key |-> k, body |-> b]
    IN  /\ client[s].sends < MaxSends[s]
        /\ network' = network \cup {q}
        /\ client' = [client EXCEPT ![s] = [sends |-> q.send, last |-> q]]
        /\ UNCHANGED <<work, db, audit, acks, faults>>

(* The user confirms a write.  Nothing keeps a client from using a key again. *)
Submit(s) ==
    /\ ~Waits(s)
    /\ \E k \in Keys, b \in Bodies : Send(s, client[s].sends + 1, k, b)

(* The same write once more, after an error or no answer.  An agent keeps the *)
(* key; the browser's form draws a new one each time it is submitted.         *)
RetryKeys(s) == IF StableKeys THEN {client[s].last.key} ELSE Keys \ {client[s].last.key}

Retry(s) ==
    /\ Waits(s)
    /\ \E k \in RetryKeys(s) : Send(s, client[s].last.action, k, client[s].last.body)

Settle(s) == client' = [client EXCEPT ![s].last = NoRequest]

GiveUp(s) ==
    /\ Waits(s)
    /\ Settle(s)
    /\ UNCHANGED <<network, work, db, audit, acks, faults>>

----------------------------------------------------------------------------
(* A call of a write tool on the server.                                     *)

InTransaction == {"reserve", "replay", "act", "commit"}
Phases == {"idle", "begin", "audit", "reply"} \cup InTransaction

Works(w, pc) == work[w].pc = pc
Step(w, pc) == work' = [work EXCEPT ![w].pc = pc]
Answer(w, status, result) ==
    work' = [work EXCEPT ![w].pc = "audit", ![w].status = status, ![w].result = result]
Release(w) == holder' = [u \in Users |-> IF holder[u] = w THEN Nobody ELSE holder[u]]

Take(w) ==
    /\ Works(w, "idle")
    /\ \E q \in network :
          /\ network' = network \ {q}
          /\ work' = [work EXCEPT ![w] = [IdleWorker EXCEPT !.pc = "begin", !.req = q]]
    /\ UNCHANGED <<client, db, audit, acks, faults>>

(* No connection: the pool is exhausted or the database does not answer.     *)
CannotConnect(w) ==
    /\ Works(w, "begin") /\ Fault
    /\ Answer(w, "error", NoResult)
    /\ UNCHANGED <<client, network, db, audit, acks>>

(* INSERT INTO users ... ON CONFLICT DO UPDATE waits for the row's lock.     *)
LockUser(w) ==
    LET u == User(work[w].req)
    IN  /\ Works(w, "begin") /\ holder[u] = Nobody
        /\ holder' = [holder EXCEPT ![u] = w]
        /\ Step(w, "reserve")
        /\ UNCHANGED <<client, network, used, stored, saved, lists, nextId, audit, acks, faults>>

(* INSERT INTO idempotency_records ... ON CONFLICT DO NOTHING: the pending    *)
(* row is the transaction's own until it commits.  A variant: a reservation   *)
(* that never conflicts.                                                       *)
ReserveAnyway(w) ==
    /\ Works(w, "reserve")
    /\ Step(w, "act")
    /\ UNCHANGED <<client, network, db, audit, acks, faults>>

Reserve(w) ==
    /\ Works(w, "reserve")
    /\ Step(w, IF used[Slot(work[w].req)] = NoRecord THEN "act" ELSE "replay")
    /\ UNCHANGED <<client, network, db, audit, acks, faults>>

(* The key was used before: the stored result if the request is the same one, *)
(* and otherwise a ValueError.  Two variants: no comparison, no rollback.      *)
ReplayUnchecked(w) ==
    /\ Works(w, "replay")
    /\ Answer(w, "success", stored[Slot(work[w].req)])
    /\ Release(w)
    /\ UNCHANGED <<client, network, used, stored, saved, lists, nextId, audit, acks, faults>>

ReplayKeepingLock(w) ==
    LET q == work[w].req
    IN  /\ Works(w, "replay")
        /\ IF used[Slot(q)] = q.body
           THEN Answer(w, "success", stored[Slot(q)]) /\ Release(w)
           ELSE Answer(w, "error", NoResult) /\ UNCHANGED holder
        /\ UNCHANGED <<client, network, used, stored, saved, lists, nextId, audit, acks, faults>>

Replay(w) ==
    LET q == work[w].req
    IN  /\ Works(w, "replay")
        /\ IF used[Slot(q)] = q.body
           THEN Answer(w, "success", stored[Slot(q)])
           ELSE Answer(w, "error", NoResult)
        /\ Release(w)
        /\ UNCHANGED <<client, network, used, stored, saved, lists, nextId, audit, acks, faults>>

(* The write itself and the update of the record, in the same transaction: a  *)
(* saved document takes an id, a list is read back after its change.          *)
IsSave(b) == b.op # "update_watchlist"

Act(w) ==
    LET q == work[w].req
        list == Ledger!Change(q.body, lists[User(q)])
    IN  /\ Works(w, "act")
        /\ IF IsSave(q.body)
           THEN /\ nextId' = nextId + 1
                /\ work' = [work EXCEPT ![w].pc = "commit",
                       ![w].result = [id |-> nextId, changed |-> TRUE, tickers |-> {}]]
           ELSE /\ UNCHANGED nextId
                /\ work' = [work EXCEPT ![w].pc = "commit",
                       ![w].result = [id |-> 0, changed |-> list # lists[User(q)],
                                      tickers |-> list]]
        /\ UNCHANGED <<client, network, holder, used, stored, saved, lists, audit, acks, faults>>

(* What the commit makes visible.  Of a saved document, slot and action are   *)
(* history: the row itself keeps neither the key nor the user's action.       *)
Publish(w) ==
    LET q == work[w].req
    IN  /\ used' = [used EXCEPT ![Slot(q)] = q.body]
        /\ stored' = [stored EXCEPT ![Slot(q)] = work[w].result]
        /\ lists' = [lists EXCEPT ![User(q)] = Ledger!Change(q.body, @)]
        /\ saved' = IF IsSave(q.body)
                    THEN saved \cup {[id |-> work[w].result.id, slot |-> Slot(q),
                                      item |-> q.body.item, session |-> q.session,
                                      action |-> q.action]}
                    ELSE saved
        /\ Release(w) /\ UNCHANGED nextId

Commit(w) ==
    /\ Works(w, "commit")
    /\ Publish(w)
    /\ Answer(w, "success", work[w].result)
    /\ UNCHANGED <<client, network, audit, acks, faults>>

(* The connection breaks in the transaction, and with it the transaction ...  *)
Abort(w) ==
    /\ work[w].pc \in InTransaction /\ Fault
    /\ Release(w)
    /\ Answer(w, "error", NoResult)
    /\ UNCHANGED <<client, network, used, stored, saved, lists, nextId, audit, acks>>

(* ... or the database commits and its answer is lost.                        *)
CommitUnseen(w) ==
    /\ Works(w, "commit") /\ Fault
    /\ Publish(w)
    /\ Answer(w, "error", NoResult)
    /\ UNCHANGED <<client, network, audit, acks>>

(* The tracing wrapper writes its event in a transaction of its own, which    *)
(* upserts the user's row too; when that fails nobody is told.  Only the      *)
(* events of successful calls are kept here.                                   *)
WriteAudit(w) ==
    /\ Works(w, "audit") /\ holder[User(work[w].req)] = Nobody
    /\ audit' = IF work[w].status = "success"
                THEN audit \cup {[slot |-> Slot(work[w].req), body |-> work[w].req.body]}
                ELSE audit
    /\ Step(w, "reply")
    /\ UNCHANGED <<client, network, db, acks, faults>>

AuditFails(w) ==
    /\ Works(w, "audit") /\ Fault
    /\ Step(w, "reply")
    /\ UNCHANGED <<client, network, db, audit, acks>>

(* A success ends the client's wait, unless it gave up on this request; on an *)
(* error it may try again.                                                    *)
Reply(w) ==
    LET q == work[w].req
        heard == client[q.session].last = q /\ work[w].status = "success"
    IN  /\ Works(w, "reply")
        /\ IF heard
           THEN /\ Settle(q.session)
                /\ acks' = acks \cup {[slot |-> Slot(q), body |-> q.body,
                                       result |-> work[w].result]}
           ELSE UNCHANGED <<client, acks>>
        /\ work' = [work EXCEPT ![w] = IdleWorker]
        /\ UNCHANGED <<network, db, audit, faults>>

(* The service is restarted: open transactions are rolled back.               *)
Restart ==
    /\ Fault
    /\ work' = [w \in Workers |-> IdleWorker]
    /\ holder' = [u \in Users |-> Nobody]
    /\ UNCHANGED <<client, network, used, stored, saved, lists, nextId, audit, acks>>

Proceed(w) ==
    \/ Take(w) \/ LockUser(w) \/ Reserve(w) \/ Replay(w) \/ Act(w) \/ Commit(w)
    \/ WriteAudit(w) \/ Reply(w)

Next ==
    \/ \E s \in Sessions : Submit(s) \/ Retry(s) \/ GiveUp(s)
    \/ \E w \in Workers : \/ Proceed(w) \/ CannotConnect(w) \/ Abort(w)
                          \/ CommitUnseen(w) \/ AuditFails(w)
    \/ Restart

Spec == Init /\ [][Next]_vars

(* The server's threads run and the database grants its row locks.            *)
FairSpec == Spec /\ \A w \in Workers : WF_vars(Proceed(w))

----------------------------------------------------------------------------

(* Types, and a row lock belongs to an open transaction of its user. *)
TypeOK ==
    /\ client \in [Sessions -> [sends : Nat, last : Requests \cup {NoRequest}]]
    /\ network \subseteq Requests
    /\ work \in [Workers -> [pc : Phases, req : Requests \cup {NoRequest},
                             status : {"success", "error"}, result : Results]]
    /\ holder \in [Users -> Workers \cup {Nobody}]
    /\ used \in [Slots -> Bodies \cup {NoRecord}]
    /\ stored \in [Slots -> Results]
    /\ saved \subseteq [id : Nat, slot : Slots, item : Items, session : Sessions,
                        action : Nat]
    /\ lists \in [Users -> SUBSET Items]
    /\ nextId \in Nat \ {0}
    /\ audit \subseteq [slot : Slots, body : Bodies]
    /\ acks \subseteq [slot : Slots, body : Bodies, result : Results]
    /\ faults \in 0..MaxFaults
    /\ \A w \in Workers : work[w].pc # "idle" => work[w].req \in Requests
    /\ \A u \in Users : holder[u] # Nobody =>
          work[holder[u]].pc \in InTransaction /\ User(work[holder[u]].req) = u

(* The record of a save and the document it reports are committed together:   *)
(* every document is the one its record names, and every record of a save     *)
(* names exactly one document.                                                *)
RecordsMatchDocuments ==
    /\ \A x \in saved : /\ used[x.slot] # NoRecord /\ used[x.slot].item = x.item
                        /\ stored[x.slot].id = x.id
    /\ \A slot \in Slots : used[slot] # NoRecord /\ IsSave(used[slot]) =>
          \E x \in saved : x.slot = slot
    /\ \A x, y \in saved : x.id = y.id \/ x.slot = y.slot => x = y

(* A success that a client heard or that the audit trail reports is a commit  *)
(* of this very request, with this very result, for this very user.           *)
SuccessIsCommitted ==
    /\ \A a \in acks : used[a.slot] = a.body /\ stored[a.slot] = a.result
    /\ \A e \in audit : used[e.slot] = e.body

(* One confirmed action of the user saves at most one document, however often *)
(* the client tries again ("a stable idempotency key so retries do not        *)
(* duplicate changes").                                                        *)
AtMostOncePerAction ==
    \A x, y \in saved : x.session = y.session /\ x.action = y.action => x = y

(* The transactions implement the ledger: a key is good for one write, and no *)
(* write is lost, applied twice or applied to an old list.                    *)
ImplementsLedger == Ledger!Spec

(* Every call the server takes up comes to its end: nobody waits for ever for *)
(* the lock of a user's row.                                                  *)
CallsEnd == \A w \in Workers : []<>(work[w].pc = "idle")
=============================================================================
