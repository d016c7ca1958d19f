----------------------- MODULE ConfirmedWritesProofs -----------------------
(***************************************************************************)
(* Proofs about ConfirmedWrites, for any number of users, sessions, server *)
(* threads, keys, requests and faults.                                     *)
(***************************************************************************)
EXTENDS ConfirmedWrites, TLAPS

Worker == [pc : Phases, req : Requests \cup {NoRequest},
           status : {"success", "error"}, result : Results]

(* A transaction about to commit a document. *)
Saves(x) == x.pc = "commit" /\ IsSave(x.req.body)

(* What the worker w, in the state x, knows of the row locks ho, the records  *)
(* us with their results st, the documents sa and the sequence ni.            *)
Knows(x, w, ho, us, st, sa, ni) ==
    /\ x.pc # "idle" => x.req \in Requests
    /\ x.pc \in InTransaction => ho[User(x.req)] = w
    /\ x.pc \in {"act", "commit"} => us[Slot(x.req)] = NoRecord
    /\ x.pc = "replay" => us[Slot(x.req)] # NoRecord
    /\ Saves(x) => x.result.id < ni /\ \A d \in sa : d.id # x.result.id
    /\ x.pc \in {"audit", "reply"} /\ x.status = "success" =>
          us[Slot(x.req)] = x.req.body /\ st[Slot(x.req)] = x.result

DistinctIds ==
    \A v, w \in Workers : Saves(work[v]) /\ Saves(work[w])
                          /\ work[v].result.id = work[w].result.id => v = w

(* The server's part of the inductive invariant. *)
Server ==
    /\ TypeOK /\ DistinctIds /\ RecordsMatchDocuments /\ SuccessIsCommitted
    /\ \A d \in saved : d.id < nextId
    /\ \A w \in Workers : Knows(work[w], w, holder, used, stored, saved, nextId)

----------------------------------------------------------------------------
(* Requests name a slot of their user. *)

LEMMA SlotOK ==
  ASSUME NEW q \in Requests
  PROVE  /\ User(q) \in Users /\ Slot(q) \in Slots /\ q.body \in Bodies
         /\ q.body # NoRecord /\ q.body.item \in Items
         /\ q.session \in Sessions /\ q.action \in Nat
BY WritesAssumption, NullAssumption DEF Requests, User, Slot, Slots, Ops, Items

LEMMA SlotOfUser ==
  ASSUME NEW q, NEW r, Slot(q) = Slot(r)
  PROVE  User(q) = User(r)
BY DEF Slot

LEMMA InitServer == Init => Server
<1> SUFFICES ASSUME Init PROVE Server
  OBVIOUS
<1>1. NoResult \in Results
  BY DEF NoResult, Results
<1>2. IdleWorker \in Worker /\ \A w \in Workers : work[w] = IdleWorker
  BY <1>1 DEF Init, IdleWorker, Worker, Phases
<1>3. TypeOK
  BY <1>1, <1>2, WritesAssumption DEF Init, TypeOK, Worker, IdleWorker
<1>4. DistinctIds /\ \A w \in Workers : Knows(work[w], w, holder, used, stored, saved, nextId)
  BY <1>2 DEF DistinctIds, Knows, Saves, IdleWorker, InTransaction
<1>5. RecordsMatchDocuments /\ SuccessIsCommitted
  BY DEF Init, RecordsMatchDocuments, SuccessIsCommitted
<1>6. \A d \in saved : d.id < nextId
  BY DEF Init
<1>7. QED
  BY <1>3, <1>4, <1>5, <1>6 DEF Server

(* A step of one worker that commits nothing. *)
LEMMA WorkerStep ==
  ASSUME Server, NEW w \in Workers, NEW x \in Worker,
         work' = [work EXCEPT ![w] = x],
         UNCHANGED <<used, stored, saved, lists>>,
         nextId' \in Nat, nextId <= nextId', faults' \in 0..MaxFaults,
         network' \subseteq Requests,
         client' \in [Sessions -> [sends : Nat, last : Requests \cup {NoRequest}]],
         audit' \subseteq [slot : Slots, body : Bodies],
         acks' \subseteq [slot : Slots, body : Bodies, result : Results],
         SuccessIsCommitted',
         holder' \in [Users -> Workers \cup {Nobody}],
         \A u \in Users, v \in Workers : v # w => (holder'[u] = v <=> holder[u] = v),
         \A u \in Users : holder'[u] = w => x.pc \in InTransaction /\ User(x.req) = u,
         Knows(x, w, holder', used, stored, saved, nextId'),
         Saves(x) => \A v \in Workers : Saves(work[v]) => work[v].result.id # x.result.id
  PROVE  Server'
<1>1. \A v \in Workers : work'[v] = IF v = w THEN x ELSE work[v]
  BY DEF Server, TypeOK
<1>2. work' \in [Workers -> Worker] /\ nextId' \in Nat \ {0}
  BY DEF Server, TypeOK, Worker
<1>3. \A v \in Workers : work'[v].pc # "idle" => work'[v].req \in Requests
  BY <1>1 DEF Server, TypeOK, Knows
<1>4. ASSUME NEW u \in Users, holder'[u] # Nobody
      PROVE  work'[holder'[u]].pc \in InTransaction /\ User(work'[holder'[u]].req) = u
  <2>1. holder'[u] \in Workers
    BY <1>4
  <2>2. CASE holder'[u] = w
    BY <2>2, <1>1
  <2>3. CASE holder'[u] # w
    <3>1. holder[u] = holder'[u]
      BY <2>1, <2>3
    <3>2. work[holder[u]].pc \in InTransaction /\ User(work[holder[u]].req) = u
      BY <3>1, <1>4 DEF Server, TypeOK
    <3>3. QED
      BY <3>1, <3>2, <2>1, <2>3, <1>1
  <2>4. QED
    BY <2>2, <2>3
<1>5. TypeOK'
  BY <1>2, <1>3, <1>4 DEF Server, TypeOK, Worker
<1>6. DistinctIds'
  BY <1>1 DEF Server, DistinctIds
<1>7. RecordsMatchDocuments' /\ \A d \in saved' : d.id < nextId'
  BY DEF Server, RecordsMatchDocuments, TypeOK
<1>8. ASSUME NEW v \in Workers
      PROVE  Knows(work'[v], v, holder', used', stored', saved', nextId')
  <2>1. CASE v = w
    BY <2>1, <1>1
  <2>2. CASE v # w
    <3>1. Knows(work[v], v, holder, used, stored, saved, nextId) /\ work'[v] = work[v]
          /\ work[v] \in Worker
      BY <2>2, <1>1 DEF Server, TypeOK, Worker
    <3>2. work[v].pc \in InTransaction => holder'[User(work[v].req)] = v
      <4>1. work[v].pc \in InTransaction => work[v].req \in Requests
        BY <3>1 DEF Knows, InTransaction
      <4>2. QED
        BY <3>1, <4>1, <2>2, SlotOK DEF Knows
    <3>3. Saves(work[v]) => work[v].result.id < nextId'
      BY <3>1 DEF Knows, Worker, Results, Server, TypeOK
    <3>4. QED
      BY <3>1, <3>2, <3>3 DEF Knows
  <2>3. QED
    BY <2>1, <2>2
<1>9. QED
  BY <1>5, <1>6, <1>7, <1>8 DEF Server

----------------------------------------------------------------------------
(* The commit of a transaction, whether its worker hears of it or not. *)

(* Releasing a transaction's lock touches no other transaction. *)
LEMMA ReleaseOK ==
  ASSUME TypeOK, NEW w \in Workers, Release(w)
  PROVE  /\ holder' \in [Users -> Workers \cup {Nobody}]
         /\ \A u \in Users, v \in Workers : v # w => (holder'[u] = v <=> holder[u] = v)
         /\ \A u \in Users : holder'[u] # w
BY WritesAssumption DEF TypeOK, Release

LEMMA PublishStep ==
  ASSUME Server, NEW w \in Workers, Works(w, "commit"), Publish(w),
         NEW x \in Worker, work' = [work EXCEPT ![w] = x],
         x.pc = "audit", x.req = work[w].req,
         x.status = "success" => x.result = work[w].result,
         UNCHANGED <<client, network, audit, acks>>, faults' \in 0..MaxFaults
  PROVE  Server'
<1> DEFINE q == work[w].req
           s == Slot(q)
           doc == [id |-> work[w].result.id, slot |-> s, item |-> q.body.item,
                   session |-> q.session, action |-> q.action]
<1>1. /\ work[w] \in Worker /\ work[w].pc = "commit" /\ q \in Requests
      /\ Knows(work[w], w, holder, used, stored, saved, nextId)
  BY DEF Server, TypeOK, Works, Worker
<1>2. /\ s \in Slots /\ User(q) \in Users /\ q.body \in Bodies /\ q.body # NoRecord
      /\ q.body.item \in Items /\ q.session \in Sessions /\ q.action \in Nat
  BY <1>1, SlotOK
<1>3. /\ used[s] = NoRecord /\ holder[User(q)] = w
      /\ work[w].result \in Results
      /\ IsSave(q.body) => /\ work[w].result.id < nextId
                           /\ \A d \in saved : d.id # work[w].result.id
  BY <1>1 DEF Knows, InTransaction, Saves, Worker
<1>4. /\ used' = [used EXCEPT ![s] = q.body] /\ stored' = [stored EXCEPT ![s] = work[w].result]
      /\ lists' = [lists EXCEPT ![User(q)] = Ledger!Change(q.body, @)]
      /\ saved' = IF IsSave(q.body) THEN saved \cup {doc} ELSE saved
      /\ Release(w) /\ nextId' = nextId
  BY DEF Publish
<1>5. \A v \in Workers : work'[v] = IF v = w THEN x ELSE work[v]
  BY DEF Server, TypeOK
<1>6. doc \in [id : Nat, slot : Slots, item : Items, session : Sessions, action : Nat]
  BY <1>2, <1>3 DEF Results
<1> HIDE DEF q, s
<1>7. /\ used' \in [Slots -> Bodies \cup {NoRecord}] /\ stored' \in [Slots -> Results]
      /\ \A t \in Slots : /\ used'[t] = IF t = s THEN q.body ELSE used[t]
                          /\ stored'[t] = IF t = s THEN work[w].result ELSE stored[t]
  BY <1>2, <1>3, <1>4 DEF Server, TypeOK
<1>8. /\ doc.id = work[w].result.id /\ doc.slot = s /\ doc.item = q.body.item
  OBVIOUS
<1> HIDE DEF doc
<1>9. lists' \in [Users -> SUBSET Items]
  <2>1. lists[User(q)] \subseteq Items
    BY <1>2 DEF Server, TypeOK
  <2>2. Ledger!Change(q.body, lists[User(q)]) \subseteq Items
    BY <2>1, <1>2 DEF Ledger!Change
  <2>3. QED
    BY <2>2, <1>2, <1>4 DEF Server, TypeOK
<1>10. /\ \A a \in audit : a.slot \in Slots /\ a.slot # s
       /\ \A a \in acks : a.slot \in Slots /\ a.slot # s
       /\ \A d \in saved : d.slot \in Slots /\ d.slot # s
  <2>1. /\ \A a \in audit : a.slot \in Slots /\ a.body \in Bodies /\ used[a.slot] = a.body
        /\ \A a \in acks : a.slot \in Slots /\ a.body \in Bodies /\ used[a.slot] = a.body
        /\ \A d \in saved : d.slot \in Slots /\ used[d.slot] # NoRecord
    BY DEF Server, TypeOK, SuccessIsCommitted, RecordsMatchDocuments
  <2>2. QED
    BY <2>1, <1>3, NullAssumption
<1>11. TypeOK'
  <2>1. work' \in [Workers -> Worker] /\ saved' \subseteq [id : Nat, slot : Slots,
            item : Items, session : Sessions, action : Nat]
    BY <1>4, <1>6 DEF Server, TypeOK, Worker
  <2>2. \A v \in Workers : work'[v].pc # "idle" => work'[v].req \in Requests
    BY <1>1, <1>5 DEF Server, TypeOK, q
  <2>3. holder' \in [Users -> Workers \cup {Nobody}]
    BY <1>4, ReleaseOK DEF Server
  <2>4. ASSUME NEW u \in Users, holder'[u] # Nobody
        PROVE  work'[holder'[u]].pc \in InTransaction /\ User(work'[holder'[u]].req) = u
    <3>1. holder'[u] \in Workers /\ holder'[u] # w /\ holder[u] = holder'[u]
      BY <2>3, <2>4, <1>4, ReleaseOK DEF Server
    <3>2. work[holder[u]].pc \in InTransaction /\ User(work[holder[u]].req) = u
      BY <3>1, <2>4 DEF Server, TypeOK
    <3>3. QED
      BY <3>1, <3>2, <1>5
  <2>5. QED
    BY <2>1, <2>2, <2>3, <2>4, <1>4, <1>7, <1>9 DEF Server, TypeOK, Worker
<1>12. DistinctIds'
  <2>1. ~Saves(x)
    BY DEF Saves
  <2>2. QED
    BY <2>1, <1>5 DEF Server, DistinctIds
<1>13. SuccessIsCommitted'
  BY <1>7, <1>10 DEF Server, SuccessIsCommitted
<1>14. RecordsMatchDocuments'
  <2>1. ASSUME NEW d \in saved'
        PROVE  used'[d.slot] # NoRecord /\ used'[d.slot].item = d.item /\ stored'[d.slot].id = d.id
    <3>1. CASE d \in saved
      BY <3>1, <1>7, <1>10 DEF Server, RecordsMatchDocuments
    <3>2. CASE d \notin saved
      <4>1. d = doc
        BY <3>2, <2>1, <1>4
      <4>2. QED
        BY <4>1, <1>2, <1>7, <1>8
    <3>3. QED
      BY <3>1, <3>2
  <2>2. ASSUME NEW t \in Slots, used'[t] # NoRecord, IsSave(used'[t])
        PROVE  \E d \in saved' : d.slot = t
    <3>1. CASE t = s
      BY <3>1, <2>2, <1>4, <1>7, <1>8
    <3>2. CASE t # s
      BY <3>2, <2>2, <1>4, <1>7 DEF Server, RecordsMatchDocuments
    <3>3. QED
      BY <3>1, <3>2
  <2>3. ASSUME NEW c \in saved', NEW d \in saved', c.id = d.id \/ c.slot = d.slot
        PROVE  c = d
    BY <2>3, <1>3, <1>4, <1>8, <1>10 DEF Server, RecordsMatchDocuments
  <2>4. QED
    BY <2>1, <2>2, <2>3 DEF RecordsMatchDocuments
<1>15. \A d \in saved' : d.id < nextId'
  BY <1>3, <1>4, <1>8 DEF Server
<1>16. ASSUME NEW v \in Workers
       PROVE  Knows(work'[v], v, holder', used', stored', saved', nextId')
  <2>1. CASE v = w
    <3>1. work'[v] = x
      BY <2>1, <1>5
    <3>2. x.status = "success" => used'[Slot(x.req)] = x.req.body /\ stored'[Slot(x.req)] = x.result
      BY <1>2, <1>7 DEF q, s
    <3>3. x.req \in Requests
      BY <1>1 DEF q
    <3>4. QED
      BY <3>1, <3>2, <3>3 DEF Knows, InTransaction, Saves
  <2>2. CASE v # w
    <3> DEFINE y == work[v]
    <3>1. /\ y \in Worker /\ work'[v] = y
          /\ Knows(y, v, holder, used, stored, saved, nextId)
      BY <2>2, <1>5 DEF Server, TypeOK, Worker
    <3> HIDE DEF y
    <3>2. CASE y.pc \in InTransaction
      <4>1. y.req \in Requests /\ holder[User(y.req)] = v
        BY <3>1, <3>2 DEF Knows, InTransaction
      <4>2. User(y.req) \in Users /\ Slot(y.req) \in Slots
        BY <4>1, SlotOK
      <4>3. User(y.req) # User(q) /\ Slot(y.req) # s
        BY <4>1, <1>3, <2>2, SlotOfUser DEF s
      <4>4. holder'[User(y.req)] = v
        BY <4>1, <4>2, <2>2, <1>4, ReleaseOK DEF Server
      <4>5. used'[Slot(y.req)] = used[Slot(y.req)] /\ stored'[Slot(y.req)] = stored[Slot(y.req)]
        BY <4>2, <4>3, <1>7
      <4>6. Saves(y) => y.result.id < nextId' /\ \A d \in saved' : d.id # y.result.id
        <5> SUFFICES ASSUME Saves(y)
                     PROVE  y.result.id < nextId' /\ \A d \in saved' : d.id # y.result.id
          OBVIOUS
        <5>1. y.result.id < nextId /\ \A d \in saved : d.id # y.result.id
          BY <3>1 DEF Knows
        <5>2. IsSave(q.body) => doc.id # y.result.id
          <6>1. IsSave(q.body) => Saves(work[w])
            BY <1>1 DEF Saves, q
          <6>2. QED
            BY <6>1, <1>8, <2>2 DEF Server, DistinctIds, y
        <5>3. QED
          BY <5>1, <5>2, <1>4
      <4>7. QED
        BY <3>1, <3>2, <4>1, <4>4, <4>5, <4>6 DEF Knows, InTransaction
    <3>3. CASE y.pc \notin InTransaction
      <4>1. y.pc \in {"audit", "reply"} /\ y.status = "success" =>
               used'[Slot(y.req)] = y.req.body /\ stored'[Slot(y.req)] = y.result
        <5> SUFFICES ASSUME y.pc \in {"audit", "reply"}, y.status = "success"
                     PROVE  used'[Slot(y.req)] = y.req.body /\ stored'[Slot(y.req)] = y.result
          OBVIOUS
        <5>1. /\ y.req \in Requests
              /\ used[Slot(y.req)] = y.req.body /\ stored[Slot(y.req)] = y.result
          BY <3>1 DEF Knows
        <5>2. Slot(y.req) \in Slots /\ Slot(y.req) # s
          BY <5>1, <1>3, SlotOK
        <5>3. QED
          BY <5>1, <5>2, <1>7
      <4>2. QED
        BY <3>1, <3>3, <4>1 DEF Knows, InTransaction, Saves
    <3>4. QED
      BY <3>1, <3>2, <3>3
  <2>3. QED
    BY <2>1, <2>2
<1>17. QED
  BY <1>11, <1>12, <1>13, <1>14, <1>15, <1>16 DEF Server

----------------------------------------------------------------------------
(* The clients and the restart. *)

(* A step that leaves the server alone. *)
LEMMA ServerUntouched ==
  ASSUME Server, UNCHANGED <<work, db, audit, acks, faults>>,
         network' \subseteq Requests,
         client' \in [Sessions -> [sends : Nat, last : Requests \cup {NoRequest}]]
  PROVE  Server'
<1>1. UNCHANGED <<holder, used, stored, saved, lists, nextId>>
  BY DEF db
<1>2. TypeOK'
  BY <1>1 DEF Server, TypeOK
<1>3. DistinctIds' /\ RecordsMatchDocuments' /\ SuccessIsCommitted'
  BY <1>1 DEF Server, DistinctIds, RecordsMatchDocuments, SuccessIsCommitted
<1>4. \A d \in saved' : d.id < nextId'
  BY <1>1 DEF Server
<1>5. \A w \in Workers : Knows(work'[w], w, holder', used', stored', saved', nextId')
  BY <1>1 DEF Server
<1>6. QED
  BY <1>2, <1>3, <1>4, <1>5 DEF Server

LEMMA SendOK ==
  ASSUME Server, NEW s \in Sessions, NEW a \in Nat, NEW k \in Keys, NEW b \in Bodies,
         Send(s, a, k, b)
  PROVE  Server'
<1> DEFINE q == [session |-> s, action |-> a, send |-> client[s].sends + 1,
                 key |-> k, body |-> b]
           c == [sends |-> q.send, last |-> q]
<1>1. client[s].sends + 1 \in Nat
  BY DEF Server, TypeOK
<1>2. q \in Requests
  BY <1>1 DEF Requests
<1>3. c \in [sends : Nat, last : Requests \cup {NoRequest}]
  BY <1>1, <1>2
<1>4. network' = network \cup {q} /\ client' = [client EXCEPT ![s] = c]
      /\ UNCHANGED <<work, db, audit, acks, faults>>
  BY DEF Send
<1> HIDE DEF q, c
<1>5. network' \subseteq Requests
      /\ client' \in [Sessions -> [sends : Nat, last : Requests \cup {NoRequest}]]
  BY <1>2, <1>3, <1>4 DEF Server, TypeOK
<1>6. QED
  BY <1>4, <1>5, ServerUntouched

LEMMA ClientStep ==
  ASSUME Server, NEW s \in Sessions, Submit(s) \/ Retry(s) \/ GiveUp(s)
  PROVE  Server'
<1>1. CASE Submit(s)
  <2>1. PICK k \in Keys, b \in Bodies : Send(s, client[s].sends + 1, k, b)
    BY <1>1 DEF Submit
  <2>2. client[s].sends + 1 \in Nat
    BY DEF Server, TypeOK
  <2>3. QED
    BY <2>1, <2>2, SendOK
<1>2. CASE Retry(s)
  <2>1. client[s].last \in Requests
    BY <1>2 DEF Retry, Waits, Server, TypeOK
  <2>2. RetryKeys(s) \subseteq Keys /\ client[s].last.action \in Nat
        /\ client[s].last.body \in Bodies
    BY <2>1 DEF RetryKeys, Requests
  <2>3. PICK k \in RetryKeys(s) : Send(s, client[s].last.action, k, client[s].last.body)
    BY <1>2 DEF Retry
  <2>4. QED
    BY <2>2, <2>3, SendOK
<1>3. CASE GiveUp(s)
  <2>1. client' = [client EXCEPT ![s].last = NoRequest]
        /\ UNCHANGED <<network, work, db, audit, acks, faults>>
    BY <1>3 DEF GiveUp, Settle
  <2>2. network' \subseteq Requests
        /\ client' \in [Sessions -> [sends : Nat, last : Requests \cup {NoRequest}]]
    BY <2>1 DEF Server, TypeOK
  <2>3. QED
    BY <2>1, <2>2, ServerUntouched
<1>4. QED
  BY <1>1, <1>2, <1>3

LEMMA IdleOK ==
  /\ NoResult \in Results /\ IdleWorker \in Worker
  /\ IdleWorker.pc = "idle" /\ IdleWorker.status = "error"
<1>1. NoResult \in Results
  BY DEF NoResult, Results
<1>2. QED
  BY <1>1 DEF IdleWorker, Worker, Phases

LEMMA RestartOK == Server /\ Restart => Server'
<1> SUFFICES ASSUME Server, Restart PROVE Server'
  OBVIOUS
<1>1. /\ \A w \in Workers : work'[w] = IdleWorker
      /\ work' \in [Workers -> Worker]
      /\ holder' = [u \in Users |-> Nobody] /\ faults' \in 0..MaxFaults
      /\ UNCHANGED <<client, network, used, stored, saved, lists, nextId, audit, acks>>
  BY IdleOK, WritesAssumption DEF Restart, Fault, Server, TypeOK
<1>2. TypeOK'
  BY <1>1, IdleOK DEF Server, TypeOK, Worker
<1>3. DistinctIds' /\ \A w \in Workers : Knows(work'[w], w, holder', used', stored', saved', nextId')
  BY <1>1, IdleOK DEF DistinctIds, Knows, Saves, InTransaction
<1>4. RecordsMatchDocuments' /\ SuccessIsCommitted' /\ \A d \in saved' : d.id < nextId'
  BY <1>1 DEF Server, RecordsMatchDocuments, SuccessIsCommitted
<1>5. QED
  BY <1>2, <1>3, <1>4 DEF Server

----------------------------------------------------------------------------
(* The steps of a worker. *)

LEMMA WorkerFacts ==
  ASSUME Server, NEW w \in Workers
  PROVE  /\ work[w] \in Worker
         /\ Knows(work[w], w, holder, used, stored, saved, nextId)
         /\ \A u \in Users : holder[u] = w =>
               work[w].pc \in InTransaction /\ User(work[w].req) = u
         /\ nextId \in Nat /\ faults \in 0..MaxFaults
         /\ network \subseteq Requests
         /\ client \in [Sessions -> [sends : Nat, last : Requests \cup {NoRequest}]]
         /\ audit \subseteq [slot : Slots, body : Bodies]
         /\ acks \subseteq [slot : Slots, body : Bodies, result : Results]
         /\ holder \in [Users -> Workers \cup {Nobody}]
         /\ SuccessIsCommitted
BY WritesAssumption DEF Server, TypeOK, Worker

LEMMA StepIs ==
  ASSUME Server, NEW w \in Workers, NEW pc \in Phases, Step(w, pc)
  PROVE  \E x \in Worker : /\ work' = [work EXCEPT ![w] = x]
                           /\ x.pc = pc /\ x.req = work[w].req
                           /\ x.status = work[w].status /\ x.result = work[w].result
<1> DEFINE x == [work[w] EXCEPT !.pc = pc]
<1>1. work' = [work EXCEPT ![w] = x]
  BY DEF Step
<1>2. x \in Worker /\ x.pc = pc /\ x.req = work[w].req
      /\ x.status = work[w].status /\ x.result = work[w].result
  BY WorkerFacts DEF Worker
<1>3. QED
  BY <1>1, <1>2

LEMMA AnswerIs ==
  ASSUME Server, NEW w \in Workers, NEW status \in {"success", "error"},
         NEW result \in Results, Answer(w, status, result)
  PROVE  \E x \in Worker : /\ work' = [work EXCEPT ![w] = x]
                           /\ x.pc = "audit" /\ x.req = work[w].req
                           /\ x.status = status /\ x.result = result
<1> DEFINE x == [pc |-> "audit", req |-> work[w].req, status |-> status, result |-> result]
<1>1. work[w] \in Worker /\ work \in [Workers -> Worker]
  BY WorkerFacts DEF Server, TypeOK, Worker
<1>2. x \in Worker
  BY <1>1 DEF Worker, Phases
<1>3. work' = [work EXCEPT ![w] = x]
  <2> DEFINE f == [work EXCEPT ![w].pc = "audit"]
             g == [f EXCEPT ![w].status = status]
             h == [g EXCEPT ![w].result = result]
  <2>1. work' = h
    BY DEF Answer
  <2>2. /\ f \in [Workers -> Worker] /\ \A v \in Workers \ {w} : f[v] = work[v]
        /\ f[w].pc = "audit" /\ f[w].req = work[w].req
    BY <1>1 DEF Worker, Phases
  <2> HIDE DEF f
  <2>3. /\ g \in [Workers -> Worker] /\ \A v \in Workers \ {w} : g[v] = work[v]
        /\ g[w].pc = "audit" /\ g[w].req = work[w].req /\ g[w].status = status
    BY <2>2 DEF Worker
  <2> HIDE DEF g
  <2>4. /\ h \in [Workers -> Worker] /\ \A v \in Workers \ {w} : h[v] = work[v]
        /\ h[w].pc = "audit" /\ h[w].req = work[w].req /\ h[w].status = status
        /\ h[w].result = result
    BY <2>3 DEF Worker
  <2> HIDE DEF h
  <2>5. h[w] = x
    BY <2>4 DEF Worker
  <2> HIDE DEF x
  <2>6. h = [work EXCEPT ![w] = x]
    BY <2>4, <2>5, <1>1
  <2>7. QED
    BY <2>1, <2>6
<1>4. QED
  BY <1>2, <1>3

LEMMA TakeOK == ASSUME Server, NEW w \in Workers, Take(w) PROVE Server'
<1>1. PICK q \in network : /\ network' = network \ {q}
                           /\ work' = [work EXCEPT ![w] = [IdleWorker EXCEPT !.pc = "begin",
                                                                            !.req = q]]
  BY DEF Take
<1> DEFINE x == [IdleWorker EXCEPT !.pc = "begin", !.req = q]
<1>2. /\ work[w].pc = "idle"
      /\ UNCHANGED <<client, holder, used, stored, saved, lists, nextId, audit, acks, faults>>
  BY DEF Take, Works, db
<1>3. q \in Requests
  BY <1>1, WorkerFacts
<1>4. "begin" \in Phases
  BY DEF Phases
<1>5. x \in Worker /\ x.pc = "begin" /\ x.req = q
  BY <1>3, <1>4, IdleOK DEF Worker
<1>6. work' = [work EXCEPT ![w] = x]
  BY <1>1
<1> HIDE DEF x
<1>7. Knows(x, w, holder', used, stored, saved, nextId') /\ ~Saves(x)
  BY <1>3, <1>5 DEF Knows, InTransaction, Saves
<1>8. \A u \in Users : holder'[u] # w
  BY <1>2, WorkerFacts DEF InTransaction
<1>9. SuccessIsCommitted'
  BY <1>2, WorkerFacts DEF SuccessIsCommitted
<1>10. network' \subseteq Requests /\ UNCHANGED <<used, stored, saved, lists>>
       /\ nextId' \in Nat /\ nextId <= nextId'
  BY <1>1, <1>2, WorkerFacts
<1>11. QED
  BY <1>2, <1>5, <1>6, <1>7, <1>8, <1>9, <1>10, WorkerFacts, WorkerStep

(* A transaction that fails, or a call that never had one. *)
LEMMA FailStep ==
  ASSUME Server, NEW w \in Workers, Answer(w, "error", NoResult),
         work[w].pc # "idle",
         Release(w) \/ (work[w].pc = "begin" /\ UNCHANGED holder),
         faults' \in 0..MaxFaults,
         UNCHANGED <<client, network, used, stored, saved, lists, nextId, audit, acks>>
  PROVE  Server'
<1>1. PICK x \in Worker : /\ work' = [work EXCEPT ![w] = x]
                          /\ x.pc = "audit" /\ x.req = work[w].req
                          /\ x.status = "error" /\ x.result = NoResult
  BY AnswerIs, IdleOK
<1>2. x.req \in Requests
  BY <1>1, WorkerFacts DEF Knows
<1>3. Knows(x, w, holder', used, stored, saved, nextId') /\ ~Saves(x)
  BY <1>1, <1>2 DEF Knows, InTransaction, Saves
<1>4. /\ holder' \in [Users -> Workers \cup {Nobody}]
      /\ \A u \in Users, v \in Workers : v # w => (holder'[u] = v <=> holder[u] = v)
      /\ \A u \in Users : holder'[u] # w
  <2>1. CASE Release(w)
    BY <2>1, ReleaseOK DEF Server
  <2>2. CASE work[w].pc = "begin" /\ UNCHANGED holder
    BY <2>2, WorkerFacts DEF InTransaction
  <2>3. QED
    BY <2>1, <2>2
<1>5. SuccessIsCommitted' /\ nextId' \in Nat /\ nextId <= nextId'
  BY WorkerFacts DEF SuccessIsCommitted
<1>6. QED
  BY <1>1, <1>3, <1>4, <1>5, WorkerFacts, WorkerStep

LEMMA FailOK ==
  ASSUME Server, NEW w \in Workers, CannotConnect(w) \/ Abort(w)
  PROVE  Server'
<1>1. faults' \in 0..MaxFaults
  BY WorkerFacts, WritesAssumption DEF CannotConnect, Abort, Fault
<1>2. CASE CannotConnect(w)
  BY <1>1, <1>2, FailStep DEF CannotConnect, Works, db
<1>3. CASE Abort(w)
  BY <1>1, <1>3, FailStep DEF Abort, InTransaction
<1>4. QED
  BY <1>2, <1>3

LEMMA LockUserOK == ASSUME Server, NEW w \in Workers, LockUser(w) PROVE Server'
<1> DEFINE u == User(work[w].req)
<1>1. /\ work[w].pc = "begin" /\ holder[u] = Nobody /\ holder' = [holder EXCEPT ![u] = w]
      /\ Step(w, "reserve")
      /\ UNCHANGED <<client, network, used, stored, saved, lists, nextId, audit, acks, faults>>
  BY DEF LockUser, Works
<1>2. PICK x \in Worker : /\ work' = [work EXCEPT ![w] = x]
                          /\ x.pc = "reserve" /\ x.req = work[w].req
  BY <1>1, StepIs DEF Phases, InTransaction
<1>3. x.req \in Requests /\ u \in Users /\ User(x.req) = u
  BY <1>1, <1>2, WorkerFacts, SlotOK DEF Knows
<1> HIDE DEF u
<1>4. holder' \in [Users -> Workers \cup {Nobody}] /\ holder'[u] = w
  BY <1>1, <1>3, WorkerFacts
<1>5. Knows(x, w, holder', used, stored, saved, nextId') /\ ~Saves(x)
  BY <1>2, <1>3, <1>4 DEF Knows, InTransaction, Saves
<1>6. \A t \in Users, v \in Workers : v # w => (holder'[t] = v <=> holder[t] = v)
  BY <1>1, <1>3, WorkerFacts, WritesAssumption
<1>7. \A t \in Users : holder'[t] = w => t = u
  BY <1>1, <1>3, WorkerFacts DEF InTransaction
<1>8. SuccessIsCommitted' /\ nextId' \in Nat /\ nextId <= nextId'
  BY <1>1, WorkerFacts DEF SuccessIsCommitted
<1>9. \A t \in Users : holder'[t] = w => x.pc \in InTransaction /\ User(x.req) = t
  BY <1>2, <1>3, <1>7 DEF InTransaction
<1>10. /\ network' \subseteq Requests /\ faults' \in 0..MaxFaults
       /\ client' \in [Sessions -> [sends : Nat, last : Requests \cup {NoRequest}]]
       /\ audit' \subseteq [slot : Slots, body : Bodies]
       /\ acks' \subseteq [slot : Slots, body : Bodies, result : Results]
       /\ UNCHANGED <<used, stored, saved, lists>>
  BY <1>1, WorkerFacts
<1>11. QED
  BY <1>2, <1>4, <1>5, <1>6, <1>8, <1>9, <1>10, WorkerStep

LEMMA ReserveOK == ASSUME Server, NEW w \in Workers, Reserve(w) PROVE Server'
<1> DEFINE pc == IF used[Slot(work[w].req)] = NoRecord THEN "act" ELSE "replay"
<1>1. /\ work[w].pc = "reserve" /\ Step(w, pc)
      /\ UNCHANGED <<client, network, holder, used, stored, saved, lists, nextId, audit,
                     acks, faults>>
  BY DEF Reserve, Works, db
<1>2. pc \in {"act", "replay"} /\ pc \in Phases /\ pc \in InTransaction
  BY DEF Phases, InTransaction
<1>3. pc = "act" <=> used[Slot(work[w].req)] = NoRecord
  OBVIOUS
<1> HIDE DEF pc
<1>4. PICK x \in Worker : /\ work' = [work EXCEPT ![w] = x]
                          /\ x.pc = pc /\ x.req = work[w].req
  BY <1>1, <1>2, StepIs
<1>5. x.req \in Requests /\ holder[User(x.req)] = w
  BY <1>1, <1>4, WorkerFacts DEF Knows, InTransaction
<1>6. Knows(x, w, holder', used, stored, saved, nextId') /\ ~Saves(x)
  BY <1>1, <1>2, <1>3, <1>4, <1>5 DEF Knows, Saves
<1>7. \A u \in Users : holder'[u] = w => x.pc \in InTransaction /\ User(x.req) = u
  BY <1>1, <1>2, <1>4, WorkerFacts
<1>8. SuccessIsCommitted'
  BY <1>1, WorkerFacts DEF SuccessIsCommitted
<1>9. /\ network' \subseteq Requests /\ faults' \in 0..MaxFaults
      /\ client' \in [Sessions -> [sends : Nat, last : Requests \cup {NoRequest}]]
      /\ audit' \subseteq [slot : Slots, body : Bodies]
      /\ acks' \subseteq [slot : Slots, body : Bodies, result : Results]
      /\ holder' \in [Users -> Workers \cup {Nobody}] /\ holder' = holder
      /\ nextId' \in Nat /\ nextId <= nextId'
      /\ UNCHANGED <<used, stored, saved, lists>>
  BY <1>1, WorkerFacts
<1>10. QED
  BY <1>4, <1>6, <1>7, <1>8, <1>9, WorkerStep

LEMMA ReplayOK == ASSUME Server, NEW w \in Workers, Replay(w) PROVE Server'
<1> DEFINE q == work[w].req
<1>1. /\ work[w].pc = "replay" /\ Release(w)
      /\ UNCHANGED <<client, network, used, stored, saved, lists, nextId, audit, acks, faults>>
  BY DEF Replay, Works
<1>2. q \in Requests /\ Slot(q) \in Slots
  BY <1>1, WorkerFacts, SlotOK DEF Knows
<1>3. CASE used[Slot(q)] = q.body
  <2>1. Answer(w, "success", stored[Slot(q)]) /\ stored[Slot(q)] \in Results
    BY <1>2, <1>3 DEF Replay, Server, TypeOK
  <2>2. PICK x \in Worker : /\ work' = [work EXCEPT ![w] = x]
                            /\ x.pc = "audit" /\ x.req = q
                            /\ x.status = "success" /\ x.result = stored[Slot(q)]
    BY <2>1, AnswerIs
  <2>3. Knows(x, w, holder', used, stored, saved, nextId') /\ ~Saves(x)
    BY <1>2, <1>3, <2>2 DEF Knows, InTransaction, Saves
  <2>4. /\ holder' \in [Users -> Workers \cup {Nobody}]
        /\ \A u \in Users, v \in Workers : v # w => (holder'[u] = v <=> holder[u] = v)
        /\ \A u \in Users : holder'[u] # w
    BY <1>1, ReleaseOK DEF Server
  <2>5. SuccessIsCommitted'
    BY <1>1, WorkerFacts DEF SuccessIsCommitted
  <2>6. /\ network' \subseteq Requests /\ faults' \in 0..MaxFaults
        /\ client' \in [Sessions -> [sends : Nat, last : Requests \cup {NoRequest}]]
        /\ audit' \subseteq [slot : Slots, body : Bodies]
        /\ acks' \subseteq [slot : Slots, body : Bodies, result : Results]
        /\ nextId' \in Nat /\ nextId <= nextId'
        /\ UNCHANGED <<used, stored, saved, lists>>
    BY <1>1, WorkerFacts
  <2>7. QED
    BY <2>2, <2>3, <2>4, <2>5, <2>6, WorkerStep
<1>4. CASE used[Slot(q)] # q.body
  <2>1. Answer(w, "error", NoResult) /\ faults' \in 0..MaxFaults
    BY <1>1, <1>4, WorkerFacts DEF Replay
  <2>2. QED
    BY <1>1, <2>1, FailStep
<1>5. QED
  BY <1>3, <1>4

(* A document takes an id that no committed and no open one has. *)
LEMMA ActOK == ASSUME Server, NEW w \in Workers, Act(w) PROVE Server'
<1> DEFINE q == work[w].req
           list == Ledger!Change(q.body, lists[User(q)])
           r == IF IsSave(q.body)
                THEN [id |-> nextId, changed |-> TRUE, tickers |-> {}]
                ELSE [id |-> 0, changed |-> list # lists[User(q)], tickers |-> list]
<1>1. /\ work[w].pc = "act"
      /\ UNCHANGED <<client, network, holder, used, stored, saved, lists, audit, acks, faults>>
  BY DEF Act, Works
<1>2. /\ q \in Requests /\ holder[User(q)] = w /\ used[Slot(q)] = NoRecord
      /\ work[w] \in Worker
  BY <1>1, WorkerFacts DEF Knows, InTransaction
<1>3. /\ User(q) \in Users /\ q.body.item \in Items
  BY <1>2, SlotOK
<1>4. list \subseteq Items
  <2>1. lists[User(q)] \subseteq Items
    BY <1>3 DEF Server, TypeOK
  <2>2. QED
    BY <1>3, <2>1 DEF Ledger!Change
<1>5. nextId \in Nat /\ 0 \in Nat /\ {} \in SUBSET Items /\ list \in SUBSET Items
  BY <1>4, WorkerFacts
<1>6. r \in Results
  BY <1>5 DEF Results
<1>7. IsSave(q.body) => r.id = nextId
  OBVIOUS
<1>8. /\ IsSave(q.body) => nextId' = nextId + 1
      /\ ~IsSave(q.body) => nextId' = nextId
  BY DEF Act
<1>9. \E y \in Worker : /\ work' = [work EXCEPT ![w] = y]
                        /\ y.pc = "commit" /\ y.req = q /\ y.result = r
  <2> DEFINE f == [work EXCEPT ![w].pc = "commit"]
             g == [f EXCEPT ![w].result = r]
             y == [pc |-> "commit", req |-> q, status |-> work[w].status, result |-> r]
  <2>1. work' = g
    BY DEF Act
  <2> HIDE DEF r
  <2>2. work \in [Workers -> Worker] /\ "commit" \in Phases
    BY DEF Server, TypeOK, Worker, Phases, InTransaction
  <2>3. /\ f \in [Workers -> Worker] /\ \A v \in Workers \ {w} : f[v] = work[v]
        /\ f[w].pc = "commit" /\ f[w].req = q /\ f[w].status = work[w].status
    BY <2>2 DEF Worker
  <2> HIDE DEF f
  <2>4. /\ g \in [Workers -> Worker] /\ \A v \in Workers \ {w} : g[v] = work[v]
        /\ g[w].pc = "commit" /\ g[w].req = q /\ g[w].status = work[w].status
        /\ g[w].result = r
    BY <1>6, <2>3 DEF Worker
  <2> HIDE DEF g
  <2>5. g[w] = y /\ y.pc = "commit" /\ y.req = q /\ y.result = r
    BY <2>4 DEF Worker
  <2> HIDE DEF y, q
  <2>6. g = [work EXCEPT ![w] = y] /\ y \in Worker
    BY <2>2, <2>4, <2>5
  <2>7. QED
    BY <2>1, <2>5, <2>6
<1>10. PICK y \in Worker : /\ work' = [work EXCEPT ![w] = y]
                           /\ y.pc = "commit" /\ y.req = q /\ y.result = r
  BY <1>9
<1> HIDE DEF r, list
<1>11. nextId' \in Nat /\ nextId <= nextId' /\ nextId \in Nat
  BY <1>8, WorkerFacts
<1>12. Saves(y) => y.result.id = nextId /\ nextId < nextId'
  BY <1>7, <1>8, <1>10, <1>11 DEF Saves
<1>13. \A d \in saved : d.id # nextId
  BY <1>11 DEF Server, TypeOK
<1>14. Knows(y, w, holder', used, stored, saved, nextId')
  BY <1>1, <1>2, <1>10, <1>12, <1>13 DEF Knows, InTransaction
<1>15. Saves(y) => \A v \in Workers : Saves(work[v]) => work[v].result.id # y.result.id
  <2>1. \A v \in Workers : Saves(work[v]) => work[v].result.id < nextId
                                             /\ work[v].result.id \in Nat
    BY WorkerFacts DEF Knows, Worker, Results
  <2>2. QED
    BY <1>11, <1>12, <2>1
<1>16. \A u \in Users : holder'[u] = w => y.pc \in InTransaction /\ User(y.req) = u
  BY <1>1, <1>10, WorkerFacts DEF InTransaction
<1>17. SuccessIsCommitted'
  BY <1>1, WorkerFacts DEF SuccessIsCommitted
<1>18. /\ network' \subseteq Requests /\ faults' \in 0..MaxFaults
       /\ client' \in [Sessions -> [sends : Nat, last : Requests \cup {NoRequest}]]
       /\ audit' \subseteq [slot : Slots, body : Bodies]
       /\ acks' \subseteq [slot : Slots, body : Bodies, result : Results]
       /\ holder' \in [Users -> Workers \cup {Nobody}] /\ holder' = holder
       /\ UNCHANGED <<used, stored, saved, lists>>
  BY <1>1, WorkerFacts
<1>19. QED
  BY <1>10, <1>11, <1>14, <1>15, <1>16, <1>17, <1>18, WorkerStep

LEMMA CommitOK ==
  ASSUME Server, NEW w \in Workers, Commit(w) \/ CommitUnseen(w)
  PROVE  Server'
<1>1. /\ Works(w, "commit") /\ Publish(w)
      /\ UNCHANGED <<client, network, audit, acks>>
  BY DEF Commit, CommitUnseen
<1>2. faults' \in 0..MaxFaults
  BY WorkerFacts, WritesAssumption DEF Commit, CommitUnseen, Fault
<1>3. work[w].result \in Results /\ NoResult \in Results
  BY IdleOK, WorkerFacts DEF Worker
<1>4. PICK x \in Worker : /\ work' = [work EXCEPT ![w] = x]
                          /\ x.pc = "audit" /\ x.req = work[w].req
                          /\ x.status = "success" => x.result = work[w].result
  <2>1. CASE Commit(w)
    BY <2>1, <1>3, AnswerIs DEF Commit
  <2>2. CASE CommitUnseen(w)
    BY <2>2, <1>3, AnswerIs DEF CommitUnseen
  <2>3. QED
    BY <2>1, <2>2
<1>5. QED
  BY <1>1, <1>2, <1>4, PublishStep

(* The wrapper reports a success that its worker knows to be committed. *)
LEMMA AuditOK ==
  ASSUME Server, NEW w \in Workers, WriteAudit(w) \/ AuditFails(w)
  PROVE  Server'
<1> DEFINE q == work[w].req
           e == [slot |-> Slot(q), body |-> q.body]
<1>1. /\ work[w].pc = "audit" /\ Step(w, "reply")
      /\ UNCHANGED <<client, network, holder, used, stored, saved, lists, nextId, acks>>
  BY DEF WriteAudit, AuditFails, Works, db
<1>2. faults' \in 0..MaxFaults
  BY WorkerFacts, WritesAssumption DEF WriteAudit, AuditFails, Fault
<1>3. PICK x \in Worker : /\ work' = [work EXCEPT ![w] = x]
                          /\ x.pc = "reply" /\ x.req = q
                          /\ x.status = work[w].status /\ x.result = work[w].result
  BY <1>1, StepIs DEF Phases
<1>4. /\ q \in Requests
      /\ work[w].status = "success" =>
            used[Slot(q)] = q.body /\ stored[Slot(q)] = work[w].result
  BY <1>1, WorkerFacts DEF Knows
<1>5. Slot(q) \in Slots /\ q.body \in Bodies
  BY <1>4, SlotOK
<1>6. /\ audit' = audit \/ (work[w].status = "success" /\ audit' = audit \cup {e})
  BY DEF WriteAudit, AuditFails
<1>7. e.slot = Slot(q) /\ e.body = q.body /\ e \in [slot : Slots, body : Bodies]
  BY <1>5
<1> HIDE DEF e, q
<1>8. audit' \subseteq [slot : Slots, body : Bodies] /\ SuccessIsCommitted'
  BY <1>1, <1>4, <1>6, <1>7, WorkerFacts DEF SuccessIsCommitted
<1>9. Knows(x, w, holder', used, stored, saved, nextId') /\ ~Saves(x)
  BY <1>3, <1>4 DEF Knows, InTransaction, Saves
<1>10. \A u \in Users : holder'[u] # w
  BY <1>1, WorkerFacts DEF InTransaction
<1>11. /\ network' \subseteq Requests
       /\ client' \in [Sessions -> [sends : Nat, last : Requests \cup {NoRequest}]]
       /\ acks' \subseteq [slot : Slots, body : Bodies, result : Results]
       /\ holder' \in [Users -> Workers \cup {Nobody}] /\ holder' = holder
       /\ nextId' \in Nat /\ nextId <= nextId'
       /\ UNCHANGED <<used, stored, saved, lists>>
  BY <1>1, WorkerFacts
<1>12. QED
  BY <1>2, <1>3, <1>8, <1>9, <1>10, <1>11, WorkerStep

(* And so does the reply. *)
LEMMA ReplyOK == ASSUME Server, NEW w \in Workers, Reply(w) PROVE Server'
<1> DEFINE q == work[w].req
           a == [slot |-> Slot(q), body |-> q.body, result |-> work[w].result]
           s == q.session
           heard == client[s].last = q /\ work[w].status = "success"
<1>1. /\ work[w].pc = "reply" /\ work' = [work EXCEPT ![w] = IdleWorker]
      /\ UNCHANGED <<network, holder, used, stored, saved, lists, nextId, audit, faults>>
      /\ IF heard THEN client' = [client EXCEPT ![s].last = NoRequest] /\ acks' = acks \cup {a}
                  ELSE UNCHANGED <<client, acks>>
  BY DEF Reply, Works, Settle, db
<1>2. /\ q \in Requests
      /\ work[w].status = "success" =>
            used[Slot(q)] = q.body /\ stored[Slot(q)] = work[w].result
      /\ work[w].result \in Results
  BY <1>1, WorkerFacts DEF Knows, Worker
<1>3. Slot(q) \in Slots /\ q.body \in Bodies /\ s \in Sessions
  BY <1>2, SlotOK
<1>4. /\ a \in [slot : Slots, body : Bodies, result : Results]
      /\ a.slot = Slot(q) /\ a.body = q.body /\ a.result = work[w].result
  BY <1>2, <1>3
<1> HIDE DEF a
<1>5. client' \in [Sessions -> [sends : Nat, last : Requests \cup {NoRequest}]]
  BY <1>1, <1>3, WorkerFacts
<1>6. acks' = acks \/ (work[w].status = "success" /\ acks' = acks \cup {a})
  BY <1>1
<1> HIDE DEF q, s, heard
<1>7. acks' \subseteq [slot : Slots, body : Bodies, result : Results] /\ SuccessIsCommitted'
  BY <1>1, <1>2, <1>4, <1>6, WorkerFacts DEF SuccessIsCommitted
<1>8. Knows(IdleWorker, w, holder', used, stored, saved, nextId') /\ ~Saves(IdleWorker)
  BY IdleOK DEF Knows, InTransaction, Saves
<1>9. \A u \in Users : holder'[u] # w
  BY <1>1, WorkerFacts DEF InTransaction
<1>10. /\ network' \subseteq Requests /\ faults' \in 0..MaxFaults
       /\ audit' \subseteq [slot : Slots, body : Bodies]
       /\ holder' \in [Users -> Workers \cup {Nobody}] /\ holder' = holder
       /\ nextId' \in Nat /\ nextId <= nextId'
       /\ UNCHANGED <<used, stored, saved, lists>>
  BY <1>1, WorkerFacts
<1>11. IdleWorker \in Worker /\ work' = [work EXCEPT ![w] = IdleWorker]
  BY <1>1, IdleOK
<1>12. QED
  BY <1>5, <1>7, <1>8, <1>9, <1>10, <1>11, WorkerStep

----------------------------------------------------------------------------
(* The theorems. *)

LEMMA StutterServer == Server /\ UNCHANGED vars => Server'
<1> SUFFICES ASSUME Server, UNCHANGED vars PROVE Server'
  OBVIOUS
<1>1. UNCHANGED <<client, network, work, db, audit, acks, faults>>
  BY DEF vars
<1>2. /\ network' \subseteq Requests
      /\ client' \in [Sessions -> [sends : Nat, last : Requests \cup {NoRequest}]]
  BY <1>1 DEF Server, TypeOK
<1>3. QED
  BY <1>1, <1>2, ServerUntouched

LEMMA NextServer == Server /\ [Next]_vars => Server'
<1> SUFFICES ASSUME Server, [Next]_vars PROVE Server'
  OBVIOUS
<1>1. CASE \E s \in Sessions : Submit(s) \/ Retry(s) \/ GiveUp(s)
  BY <1>1, ClientStep
<1>2. ASSUME NEW w \in Workers,
             \/ Proceed(w) \/ CannotConnect(w) \/ Abort(w) \/ CommitUnseen(w) \/ AuditFails(w)
      PROVE  Server'
  BY <1>2, TakeOK, LockUserOK, ReserveOK, ReplayOK, ActOK, CommitOK, AuditOK, ReplyOK, FailOK
     DEF Proceed
<1>3. CASE Restart
  BY <1>3, RestartOK
<1>4. CASE UNCHANGED vars
  BY <1>4, StutterServer
<1>5. QED
  BY <1>1, <1>2, <1>3, <1>4 DEF Next

(* The server's invariant: what every open transaction knows of its user's    *)
(* records stays true until it ends, because nobody else holds that user's    *)
(* row; and no two documents, written or about to be, share an id.            *)
THEOREM ServerInductive == Spec => []Server
BY InitServer, NextServer, PTL DEF Spec

(* Types, and a row lock belongs to an open transaction of its user: what the *)
(* upsert of the users row at the start of every write gives.                 *)
THEOREM TypeCorrect == Spec => []TypeOK
<1>1. Server => TypeOK
  BY DEF Server
<1>2. QED
  BY <1>1, ServerInductive, PTL

(* Every document committed by save_research_note or save_analysis_report is  *)
(* the one its idempotency record names, and conversely.                      *)
THEOREM DocumentsMatchRecords == Spec => []RecordsMatchDocuments
<1>1. Server => RecordsMatchDocuments
  BY DEF Server
<1>2. QED
  BY <1>1, ServerInductive, PTL

(* A success that a client or the audit trail was told of is the commit of    *)
(* this request with this result, whatever crashed, was lost or came late.    *)
THEOREM SuccessMeansCommitted == Spec => []SuccessIsCommitted
<1>1. Server => SuccessIsCommitted
  BY DEF Server
<1>2. QED
  BY <1>1, ServerInductive, PTL

----------------------------------------------------------------------------
(* The refinement: a commit applies the write to the ledger, and every other  *)
(* step leaves the ledger alone.                                              *)

LEMMA PublishApplies ==
  ASSUME Server, NEW w \in Workers, Works(w, "commit"), Publish(w)
  PROVE  Ledger!Next
<1> DEFINE q == work[w].req
<1>1. work[w].pc = "commit"
  BY DEF Works
<1>2. q \in Requests /\ used[Slot(q)] = NoRecord
  BY <1>1, WorkerFacts DEF Knows
<1>3. /\ User(q) \in Users /\ q.key \in Keys /\ q.body \in Bodies
      /\ Slot(q) = <<User(q), q.body.op, q.key>>
  BY <1>2, SlotOK DEF Requests, Slot
<1>4. Ledger!Apply(User(q), q.key, q.body)
  BY <1>2, <1>3 DEF Publish, Ledger!Apply
<1>5. QED
  BY <1>3, <1>4 DEF Ledger!Next

LEMMA LedgerStep == Server /\ [Next]_vars => [Ledger!Next]_(Ledger!vars)
<1> SUFFICES ASSUME Server, [Next]_vars PROVE [Ledger!Next]_(Ledger!vars)
  OBVIOUS
<1> USE DEF db, Ledger!vars
<1>1. ASSUME NEW s \in Sessions, Submit(s) \/ Retry(s) \/ GiveUp(s)
      PROVE  UNCHANGED Ledger!vars
  BY <1>1 DEF Submit, Retry, GiveUp, Send
<1>2. ASSUME NEW w \in Workers, Commit(w) \/ CommitUnseen(w)
      PROVE  Ledger!Next
  BY <1>2, PublishApplies DEF Commit, CommitUnseen
<1>3. ASSUME NEW w \in Workers,
             \/ Take(w) \/ LockUser(w) \/ Reserve(w) \/ Replay(w) \/ Act(w)
             \/ WriteAudit(w) \/ Reply(w) \/ CannotConnect(w) \/ Abort(w) \/ AuditFails(w)
      PROVE  UNCHANGED Ledger!vars
  BY <1>3 DEF Take, LockUser, Reserve, Replay, Act, WriteAudit, Reply, CannotConnect, Abort,
              AuditFails
<1>4. CASE Restart
  BY <1>4 DEF Restart
<1>5. CASE UNCHANGED vars
  BY <1>5 DEF vars
<1>6. QED
  BY <1>1, <1>2, <1>3, <1>4, <1>5 DEF Next, Proceed

(* The write tools implement the ledger: a key is good for one write of each  *)
(* operation, and a watchlist is what the committed writes, one after the     *)
(* other, make of it; none is lost, applied twice or applied to an old list.  *)
THEOREM WritesImplementLedger == Spec => ImplementsLedger
<1>1. Init => Ledger!Init
  BY DEF Init, Ledger!Init, Slots
<1>2. QED
  BY <1>1, ServerInductive, LedgerStep, PTL DEF Spec, ImplementsLedger, Ledger!Spec

----------------------------------------------------------------------------
(* A client that keeps its key: one action saves one document. *)

(* The requests that a client, the network or a worker still holds. *)
Pending == {q \in Requests : \/ q \in network
                             \/ \E w \in Workers : work[w].req = q
                             \/ \E s \in Sessions : client[s].last = q}

SameAction(x, y) == x.session = y.session /\ x.action = y.action

(* All requests of an action ask for the same thing under the same key, and   *)
(* so under the key of the document the action saved, if it did; no action is *)
(* ahead of what its session has sent.                                        *)
Actions ==
    /\ \A q \in Pending : q.action <= client[q.session].sends
    /\ \A d \in saved : d.action <= client[d.session].sends
    /\ \A q, r \in Pending : SameAction(q, r) => q.key = r.key /\ q.body = r.body
    /\ \A d \in saved, q \in Pending : SameAction(d, q) => d.slot = Slot(q)
    /\ \A s \in Sessions : client[s].last \in Requests => client[s].last.session = s
    /\ AtMostOncePerAction

LEMMA InitActions == Init => Actions
<1> SUFFICES ASSUME Init PROVE Actions
  OBVIOUS
<1>1. Pending = {} /\ saved = {} /\ \A s \in Sessions : client[s].last = NoRequest
  BY NullAssumption DEF Init, Pending, IdleWorker
<1>2. QED
  BY <1>1, NullAssumption DEF Actions, AtMostOncePerAction

(* A step that sends nothing and saves nothing. *)
LEMMA NothingSent ==
  ASSUME Server, Actions, saved' = saved, Pending' \subseteq Pending,
         \A s \in Sessions : /\ client'[s].sends = client[s].sends
                             /\ client'[s].last \in {client[s].last, NoRequest}
  PROVE  Actions'
<1>1. /\ \A q \in Pending : q.session \in Sessions
      /\ \A d \in saved : d.session \in Sessions
  BY DEF Pending, Requests, Server, TypeOK
<1>2. QED
  BY <1>1, NullAssumption DEF Actions, AtMostOncePerAction

(* A request is sent: the first of a new action, or one more of the last. *)
LEMMA SendActions ==
  ASSUME Server, Actions, NEW s \in Sessions, NEW a \in Nat, NEW k \in Keys, NEW b \in Bodies,
         Send(s, a, k, b),
         \/ a = client[s].sends + 1
         \/ \E r \in Pending : r.session = s /\ r.action = a /\ r.key = k /\ r.body = b
  PROVE  Actions'
<1> DEFINE q == [session |-> s, action |-> a, send |-> client[s].sends + 1,
                 key |-> k, body |-> b]
           c == [sends |-> q.send, last |-> q]
<1>1. client[s].sends \in Nat /\ \A t \in Sessions : client[t].sends \in Nat
  BY DEF Server, TypeOK
<1>2. /\ q \in Requests /\ q.session = s /\ q.action = a /\ q.key = k /\ q.body = b
      /\ c.sends = client[s].sends + 1 /\ c.last = q
  BY <1>1 DEF Requests
<1>3. network' = network \cup {q} /\ client' = [client EXCEPT ![s] = c]
      /\ UNCHANGED <<work, saved>>
  BY DEF Send, db
<1> HIDE DEF q, c
<1>4. \A t \in Sessions : client'[t] = IF t = s THEN c ELSE client[t]
  BY <1>3 DEF Server, TypeOK
<1>5. Pending' \subseteq Pending \cup {q}
  BY <1>2, <1>3, <1>4 DEF Pending
<1>6. \A t \in Sessions : client[t].sends <= client'[t].sends
  BY <1>1, <1>2, <1>4
<1>7. /\ \A r \in Pending : r.session \in Sessions /\ r.action \in Nat
      /\ \A d \in saved : d.session \in Sessions /\ d.action \in Nat
  BY DEF Pending, Requests, Server, TypeOK
<1>8. /\ \A r \in Pending : SameAction(q, r) => r.key = k /\ r.body = b
      /\ \A d \in saved : SameAction(d, q) => d.slot = Slot(q)
      /\ a <= client[s].sends + 1
  <2>1. CASE a = client[s].sends + 1
    <3>1. \A r \in Pending : ~SameAction(q, r)
      BY <1>1, <1>2, <1>7, <2>1 DEF Actions, SameAction
    <3>2. \A d \in saved : ~SameAction(d, q)
      BY <1>1, <1>2, <1>7, <2>1 DEF Actions, SameAction
    <3>3. QED
      BY <1>1, <2>1, <3>1, <3>2
  <2>2. ASSUME NEW r \in Pending, r.session = s, r.action = a, r.key = k, r.body = b
        PROVE  /\ \A p \in Pending : SameAction(q, p) => p.key = k /\ p.body = b
               /\ \A d \in saved : SameAction(d, q) => d.slot = Slot(q)
               /\ a <= client[s].sends + 1
    <3>1. Slot(r) = Slot(q)
      BY <2>2, <1>2 DEF Slot, User
    <3>2. a <= client[s].sends
      BY <2>2 DEF Actions
    <3>3. \A p \in Pending : SameAction(q, p) => SameAction(r, p)
      BY <2>2, <1>2 DEF SameAction
    <3>4. \A d \in saved : SameAction(d, q) => SameAction(d, r)
      BY <2>2, <1>2 DEF SameAction
    <3>5. QED
      BY <3>1, <3>2, <3>3, <3>4, <2>2, <1>1 DEF Actions
  <2>3. QED
    BY <2>1, <2>2
<1>9. \A r \in Pending' : r.action <= client'[r.session].sends
  BY <1>1, <1>2, <1>4, <1>5, <1>6, <1>7, <1>8 DEF Actions
<1>10. \A d \in saved' : d.action <= client'[d.session].sends
  <2>1. \A d \in saved : d.action <= client[d.session].sends
    BY DEF Actions
  <2>2. \A t \in Sessions : client'[t].sends \in Nat
    BY <1>1, <1>2, <1>4
  <2>3. QED
    BY <2>1, <2>2, <1>1, <1>3, <1>6, <1>7
<1>11. \A p, r \in Pending' : SameAction(p, r) => p.key = r.key /\ p.body = r.body
  BY <1>2, <1>5, <1>8 DEF Actions, SameAction
<1>12. \A d \in saved', r \in Pending' : SameAction(d, r) => d.slot = Slot(r)
  BY <1>3, <1>5, <1>8 DEF Actions
<1>13. \A t \in Sessions : client'[t].last \in Requests => client'[t].last.session = t
  BY <1>2, <1>4 DEF Actions
<1>14. AtMostOncePerAction'
  BY <1>3 DEF Actions, AtMostOncePerAction
<1>15. QED
  BY <1>9, <1>10, <1>11, <1>12, <1>13, <1>14 DEF Actions

LEMMA ClientActions ==
  ASSUME StableKeys, Server, Actions, NEW s \in Sessions, Submit(s) \/ Retry(s) \/ GiveUp(s)
  PROVE  Actions'
<1>1. CASE Submit(s)
  <2>1. PICK k \in Keys, b \in Bodies : Send(s, client[s].sends + 1, k, b)
    BY <1>1 DEF Submit
  <2>2. client[s].sends + 1 \in Nat
    BY DEF Server, TypeOK
  <2>3. QED
    BY <2>1, <2>2, SendActions
<1>2. CASE Retry(s)
  <2> DEFINE r == client[s].last
  <2>1. r \in Requests
    BY <1>2 DEF Retry, Waits, Server, TypeOK
  <2>2. r \in Pending /\ r.session = s
    BY <2>1 DEF Pending, Actions
  <2>3. Send(s, r.action, r.key, r.body)
    BY <1>2 DEF Retry, RetryKeys
  <2>4. r.action \in Nat /\ r.key \in Keys /\ r.body \in Bodies
    BY <2>1 DEF Requests
  <2> HIDE DEF r
  <2>5. QED
    BY <2>2, <2>3, <2>4, SendActions
<1>3. CASE GiveUp(s)
  <2>1. client' = [client EXCEPT ![s].last = NoRequest] /\ UNCHANGED <<network, work, saved>>
    BY <1>3 DEF GiveUp, Settle, db
  <2>2. \A t \in Sessions : /\ client'[t].sends = client[t].sends
                            /\ client'[t].last \in {client[t].last, NoRequest}
    BY <2>1 DEF Server, TypeOK
  <2>3. Pending' \subseteq Pending
    BY <2>1, <2>2, NullAssumption DEF Pending
  <2>4. QED
    BY <2>1, <2>2, <2>3, NothingSent
<1>4. QED
  BY <1>1, <1>2, <1>3

(* A worker holds the request it held, one of the network's, or none. *)
LEMMA HeldRequests ==
  ASSUME Server, network' \subseteq network,
         \A s \in Sessions : client'[s].last \in {client[s].last, NoRequest},
         \A w \in Workers : \/ work'[w].req \in {work[w].req, NoRequest}
                            \/ work'[w].req \in network
  PROVE  Pending' \subseteq Pending
BY NullAssumption DEF Pending

LEMMA CommitActions ==
  ASSUME Server, Actions, NEW w \in Workers, Works(w, "commit"), Publish(w),
         Pending' \subseteq Pending, UNCHANGED client
  PROVE  Actions'
<1> DEFINE q == work[w].req
           doc == [id |-> work[w].result.id, slot |-> Slot(q), item |-> q.body.item,
                   session |-> q.session, action |-> q.action]
<1>1. q \in Requests /\ used[Slot(q)] = NoRecord
  BY WorkerFacts DEF Knows, Works
<1>2. q \in Pending
  BY <1>1 DEF Pending
<1>3. saved' = saved \/ saved' = saved \cup {doc}
  BY DEF Publish
<1>4. doc.slot = Slot(q) /\ doc.session = q.session /\ doc.action = q.action
  OBVIOUS
<1> HIDE DEF doc, q
<1>5. \A d \in saved : ~SameAction(d, q)
  BY <1>1, <1>2 DEF Actions, Server, RecordsMatchDocuments
<1>6. \A r \in Pending : SameAction(q, r) => Slot(q) = Slot(r)
  BY <1>2 DEF Actions, SameAction, Slot, User
<1>7. q.action <= client[q.session].sends
  BY <1>2 DEF Actions
<1>8. \A d \in saved' : d \in saved \/ d = doc
  BY <1>3
<1>9. \A d \in saved' : d.action <= client'[d.session].sends
  BY <1>4, <1>7, <1>8 DEF Actions
<1>10. \A d \in saved', r \in Pending' : SameAction(d, r) => d.slot = Slot(r)
  BY <1>4, <1>6, <1>8 DEF Actions, SameAction
<1>11. AtMostOncePerAction'
  BY <1>4, <1>5, <1>8 DEF Actions, AtMostOncePerAction, SameAction
<1>12. QED
  BY <1>9, <1>10, <1>11 DEF Actions

LEMMA NextActions == StableKeys /\ Server /\ Actions /\ [Next]_vars => Actions'
<1> SUFFICES ASSUME StableKeys, Server, Actions, [Next]_vars PROVE Actions'
  OBVIOUS
<1> USE DEF db
<1>1. ASSUME NEW s \in Sessions, Submit(s) \/ Retry(s) \/ GiveUp(s)
      PROVE  Actions'
  BY <1>1, ClientActions
<1>2. work \in [Workers -> Worker]
  BY DEF Server, TypeOK, Worker
<1>3. ASSUME NEW w \in Workers, Commit(w) \/ CommitUnseen(w)
      PROVE  Actions'
  <2>1. Works(w, "commit") /\ Publish(w) /\ UNCHANGED <<client, network>>
    BY <1>3 DEF Commit, CommitUnseen
  <2>2. \A v \in Workers : work'[v].req = work[v].req
    <3>1. work[w].result \in Results /\ NoResult \in Results
      BY IdleOK, WorkerFacts DEF Worker
    <3>2. \E x \in Worker : work' = [work EXCEPT ![w] = x] /\ x.req = work[w].req
      <4>1. CASE Commit(w)
        BY <4>1, <3>1, AnswerIs DEF Commit
      <4>2. CASE CommitUnseen(w)
        BY <4>2, <3>1, AnswerIs DEF CommitUnseen
      <4>3. QED
        BY <4>1, <4>2, <1>3
    <3>3. QED
      BY <3>2, <1>2
  <2>3. Pending' \subseteq Pending
    BY <2>1, <2>2, HeldRequests
  <2>4. QED
    BY <2>1, <2>3, CommitActions
<1>4. ASSUME NEW w \in Workers,
             \/ Take(w) \/ LockUser(w) \/ Reserve(w) \/ Replay(w) \/ Act(w)
             \/ WriteAudit(w) \/ Reply(w) \/ CannotConnect(w) \/ Abort(w) \/ AuditFails(w)
      PROVE  Actions'
  <2>1. saved' = saved /\ network' \subseteq network
    BY <1>4 DEF Take, LockUser, Reserve, Replay, Act, WriteAudit, Reply, CannotConnect, Abort,
                AuditFails
  <2>2. \A s \in Sessions : /\ client'[s].sends = client[s].sends
                            /\ client'[s].last \in {client[s].last, NoRequest}
    <3>1. \/ UNCHANGED client
          \/ \E s \in Sessions : client' = [client EXCEPT ![s].last = NoRequest]
      <4>1. CASE Reply(w)
        <5>1. work[w].req \in Requests
          BY <4>1, WorkerFacts DEF Reply, Works, Knows
        <5>2. QED
          BY <4>1, <5>1, SlotOK DEF Reply, Settle
      <4>2. CASE ~Reply(w)
        BY <1>4, <4>2 DEF Take, LockUser, Reserve, Replay, Act, WriteAudit, CannotConnect, Abort,
                          AuditFails
      <4>3. QED
        BY <4>1, <4>2
    <3>2. QED
      BY <3>1 DEF Server, TypeOK
  <2>3. \A v \in Workers : \/ work'[v].req \in {work[v].req, NoRequest}
                           \/ work'[v].req \in network
    <3>1. CASE Take(w)
      BY <1>2, <3>1 DEF Take, IdleWorker
    <3>2. CASE LockUser(w) \/ Reserve(w) \/ WriteAudit(w) \/ AuditFails(w)
      BY <1>2, <3>2 DEF LockUser, Reserve, WriteAudit, AuditFails, Step, Worker
    <3>3. CASE Replay(w) \/ CannotConnect(w) \/ Abort(w)
      BY <1>2, <3>3 DEF Replay, CannotConnect, Abort, Answer, Worker
    <3>4. CASE Act(w)
      BY <1>2, <3>4 DEF Act, Worker
    <3>5. CASE Reply(w)
      BY <1>2, <3>5 DEF Reply, IdleWorker
    <3>6. QED
      BY <1>4, <3>1, <3>2, <3>3, <3>4, <3>5
  <2>4. QED
    BY <2>1, <2>2, <2>3, HeldRequests, NothingSent
<1>5. CASE Restart
  <2>1. UNCHANGED <<client, network, saved>>
    BY <1>5 DEF Restart
  <2>2. \A v \in Workers : work'[v].req = NoRequest
    BY <1>5 DEF Restart, IdleWorker
  <2>3. QED
    BY <2>1, <2>2, HeldRequests, NothingSent
<1>6. CASE UNCHANGED vars
  BY <1>6, HeldRequests, NothingSent DEF vars
<1>7. QED
  BY <1>1, <1>3, <1>4, <1>5, <1>6 DEF Next, Proceed

(* With a client that retries under the key it used first, one confirmed      *)
(* action saves at most one document, whatever is lost, late, sent again or   *)
(* crashes in between.                                                        *)
THEOREM StableKeysSaveOnce == ASSUME StableKeys PROVE Spec => []AtMostOncePerAction
<1>1. Server /\ Actions /\ [Next]_vars => Actions'
  BY NextActions
<1>2. Actions => AtMostOncePerAction
  BY DEF Actions
<1>3. QED
  BY <1>1, <1>2, InitActions, ServerInductive, PTL DEF Spec
=============================================================================
