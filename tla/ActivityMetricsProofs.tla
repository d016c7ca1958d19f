------------------------ MODULE ActivityMetricsProofs ----------------------
(***************************************************************************)
(* Proofs about ActivityMetrics and the reference it is compared with, for *)
(* any sources, users, inputs, days and bounds.                            *)
(***************************************************************************)
EXTENDS ActivityReference, TLAPS, NaturalsInduction, WellFoundedInduction,
        FiniteSetTheorems, SequenceTheorems

(* A set of numbers that is not empty has a least one: induction, without an   *)
(* operator for the formula.                                                   *)
LEMMA Least ==
  ASSUME NEW T \in SUBSET Nat, T # {}
  PROVE  \E v \in T : \A w \in T : v <= w
<1>1. PICK v \in T : \A w \in T : ~ (<<w, v>> \in OpToRel(<, Nat))
  BY WFMin, NatLessThanWellFounded
<1>2. ASSUME NEW w \in T PROVE v <= w
  <2>1. w \in Nat /\ v \in Nat
    OBVIOUS
  <2>2. ~ (w < v)
    BY <1>1, <2>1, Zenon DEF OpToRel
  <2>3. QED
    BY <2>1, <2>2
<1>3. QED
  BY <1>2

----------------------------------------------------------------------------
(* The log and the histories.                                                  *)
Change == [table : Tables, key : Nat, type : {"insert", "update_preimage", "update_postimage", "delete"},
           user : Users \cup {Nobody}, status : {"success", "error"}, day : Days]
Delivered == [lsn : Nat, synced : Days]

Updates == [pc : {"off", "bronze", "silver"}, todo : SUBSET Tables]
             \cup [pc : {"gold"}, todo : SUBSET Families]

(* Each history holds copies of committed changes of its table, and the append *)
(* flows are not ahead of it.                                                  *)
HistoryInv ==
    /\ wal \in Seq(Change)
    /\ history \in [Tables -> Seq(Delivered)]
    /\ \A t \in Tables : \A i \in DOMAIN history[t] :
          history[t][i].lsn \in DOMAIN wal /\ wal[history[t][i].lsn].table = t
    /\ read \in [Tables -> Nat] /\ \A t \in Tables : read[t] <= Len(history[t])
    /\ day \in Days
    /\ update \in Updates

(* Silver has effective changes only, and each once.                           *)
Effects == {p \in Bronze : Row(p).type \in Effective}
Lsns(rows) == {Copy(p).lsn : p \in rows}
OneEach(rows) == \A p, q \in rows : Copy(p).lsn = Copy(q).lsn => p = q

SilverInv == HistoryInv /\ silver \subseteq Effects /\ OneEach(silver)

LEMMA TypesOK ==
  ASSUME NEW op \in {"insert", "update", "delete"}
  PROVE  /\ Types(op) \in Seq({"insert", "update_preimage", "update_postimage", "delete"})
         /\ DOMAIN Types(op) = 1 .. Len(Types(op))
<1>1. CASE op = "update"
  BY <1>1 DEF Types
<1>2. CASE op # "update"
  BY <1>2 DEF Types
<1>3. QED
  BY <1>1, <1>2

LEMMA InBronze ==
  ASSUME NEW p
  PROVE  p \in Bronze <=> \E t, i : t \in Tables /\ i \in 1 .. read[t] /\ p = <<t, i>>
BY DEF Bronze

LEMMA CopyOK ==
  ASSUME HistoryInv, NEW p \in Bronze
  PROVE  /\ p = <<p[1], p[2]>> /\ p[1] \in Tables /\ p[2] \in 1 .. read[p[1]]
         /\ p[2] \in DOMAIN history[p[1]]
         /\ Copy(p) \in Delivered /\ Copy(p).lsn \in DOMAIN wal
         /\ Row(p) \in Change /\ Row(p) = wal[Copy(p).lsn] /\ Row(p).table = p[1]
<1>1. PICK t, i : t \in Tables /\ i \in 1 .. read[t] /\ p = <<t, i>>
  BY InBronze
<1>2. history[t] \in Seq(Delivered) /\ read[t] \in Nat /\ read[t] <= Len(history[t])
  BY <1>1 DEF HistoryInv
<1>3. i \in DOMAIN history[t] /\ history[t][i] \in Delivered
  BY <1>1, <1>2
<1>4. /\ history[t][i].lsn \in DOMAIN wal /\ wal[history[t][i].lsn].table = t
      /\ wal[history[t][i].lsn] \in Change
  BY <1>1, <1>3 DEF HistoryInv
<1>5. p[1] = t /\ p[2] = i
  BY <1>1
<1>6. QED
  BY <1>1, <1>3, <1>4, <1>5 DEF Copy, Row

----------------------------------------------------------------------------
(* Steps.                                                                      *)

(* The log and the histories only grow, and bronze with them.                  *)
LEMMA CommitOK ==
  ASSUME HistoryInv, NEW input \in Inputs, Commit(input)
  PROVE  /\ wal' \in Seq(Change) /\ DOMAIN wal \subseteq DOMAIN wal'
         /\ \A l \in DOMAIN wal : wal'[l] = wal[l]
<1>0. PICK key \in IF input.op = "insert" THEN {Len(wal) + 1} ELSE Live(input.table) :
         wal' = wal \o [i \in DOMAIN Types(input.op) |->
                          [table |-> input.table, key |-> key, type |-> Types(input.op)[i],
                           user |-> input.user, status |-> input.status,
                           day |-> DayOf(input, key)]]
  BY DEF Commit
<1> DEFINE n == Len(Types(input.op))
           more == [i \in DOMAIN Types(input.op) |->
                        [table |-> input.table, key |-> key, type |-> Types(input.op)[i],
                         user |-> input.user, status |-> input.status,
                         day |-> DayOf(input, key)]]
<1>1. /\ input.table \in Tables /\ input.op \in {"insert", "update", "delete"}
      /\ input.user \in Users \cup {Nobody} /\ input.status \in {"success", "error"}
      /\ day \in Days /\ wal \in Seq(Change)
  BY ActivityAssumption DEF HistoryInv
<1>2. /\ n \in Nat /\ DOMAIN Types(input.op) = 1 .. n
      /\ \A i \in 1 .. n : Types(input.op)[i]
            \in {"insert", "update_preimage", "update_postimage", "delete"}
  BY <1>1, TypesOK
<1>3. key \in Nat /\ DayOf(input, key) \in Days
  <2>1. CASE input.op = "insert"
    BY <1>1, <2>1 DEF DayOf
  <2>2. CASE input.op # "insert"
    <3>1. key \in Live(input.table)
      BY <1>0, <2>2
    <3>2. key \in DOMAIN wal
      BY <3>1 DEF Live
    <3>3. key \in Nat /\ wal[key] \in Change
      BY <1>1, <3>2
    <3>4. wal[key].day \in Days
      BY <3>3 DEF Change
    <3>5. QED
      BY <1>1, <3>3, <3>4 DEF DayOf
  <2>3. QED
    BY <2>1, <2>2
<1>4. \A i \in 1 .. n : more[i] \in Change
  BY <1>1, <1>2, <1>3 DEF Change
<1>5. more \in Seq(Change)
  <2>1. more \in [1 .. n -> Change]
    BY <1>2, <1>4
  <2> HIDE DEF more, n
  <2>2. QED
    BY <1>2, <2>1, SeqDef
<1>6. wal' = wal \o more
  BY <1>0
<1> HIDE DEF more
<1>7. QED
  BY <1>1, <1>5, <1>6

LEMMA DeliverOK ==
  ASSUME HistoryInv, NEW lsn \in DOMAIN wal, Deliver(lsn)
  PROVE  /\ history' \in [Tables -> Seq(Delivered)]
         /\ \A t \in Tables : /\ Len(history[t]) <= Len(history'[t])
                              /\ \A i \in DOMAIN history[t] : history'[t][i] = history[t][i]
         /\ \A t \in Tables : \A i \in DOMAIN history'[t] :
               /\ history'[t][i].lsn \in DOMAIN wal
               /\ wal[history'[t][i].lsn].table = t
<1> DEFINE u == wal[lsn].table
           copy == [lsn |-> lsn, synced |-> day]
<1>1. /\ u \in Tables /\ copy \in Delivered /\ lsn \in Nat
      /\ history' = [history EXCEPT ![u] = Append(history[u], copy)]
      /\ history \in [Tables -> Seq(Delivered)]
  <2>1. wal[lsn] \in Change /\ lsn \in Nat /\ day \in Days
    BY DEF HistoryInv
  <2>2. QED
    BY <2>1 DEF HistoryInv, Deliver, Change, Delivered
<1>2. copy.lsn = lsn
  OBVIOUS
<1> HIDE DEF u, copy
<1>3. history' \in [Tables -> Seq(Delivered)]
  BY <1>1
<1>4. ASSUME NEW t \in Tables
      PROVE  /\ Len(history[t]) <= Len(history'[t])
             /\ \A i \in DOMAIN history[t] : history'[t][i] = history[t][i]
             /\ \A i \in DOMAIN history'[t] : i \in DOMAIN history[t] \/ (t = u /\ history'[t][i] = copy)
  <2>1. CASE t = u
    <3>1. history'[t] = Append(history[t], copy) /\ history[t] \in Seq(Delivered)
      BY <1>1, <2>1
    <3>2. QED
      BY <1>1, <2>1, <3>1
  <2>2. CASE t # u
    <3>1. history'[t] = history[t] /\ history[t] \in Seq(Delivered)
      BY <1>1, <2>2
    <3>2. QED
      BY <3>1
  <2>3. QED
    BY <2>1, <2>2
<1>5. ASSUME NEW t \in Tables, NEW i \in DOMAIN history'[t]
      PROVE  history'[t][i].lsn \in DOMAIN wal /\ wal[history'[t][i].lsn].table = t
  <2>1. CASE i \in DOMAIN history[t]
    BY <1>4, <2>1 DEF HistoryInv
  <2>2. CASE t = u /\ history'[t][i] = copy
    BY <1>2, <2>2 DEF u
  <2>3. QED
    BY <1>4, <2>1, <2>2
<1>6. QED
  BY <1>3, <1>4, <1>5

LEMMA HistoryGrows ==
  ASSUME HistoryInv, [Next]_vars
  PROVE  /\ HistoryInv'
         /\ DOMAIN wal \subseteq DOMAIN wal' /\ \A l \in DOMAIN wal : wal'[l] = wal[l]
         /\ \A t \in Tables : /\ read[t] <= read'[t]
                              /\ \A i \in DOMAIN history[t] : history'[t][i] = history[t][i]
<1>0. /\ \A t \in Tables : read[t] \in Nat /\ read[t] <= read[t]
      /\ \A t \in Tables : Len(history[t]) \in Nat
  BY DEF HistoryInv
<1>1. ASSUME NEW input \in Inputs, Commit(input)
      PROVE  /\ HistoryInv'
             /\ DOMAIN wal \subseteq DOMAIN wal' /\ \A l \in DOMAIN wal : wal'[l] = wal[l]
             /\ UNCHANGED <<history, read>>
  <2>1. UNCHANGED <<history, read, day, update>>
    BY <1>1 DEF Commit
  <2>2. QED
    BY <1>1, <2>1, CommitOK DEF HistoryInv
<1>2. ASSUME NEW lsn \in DOMAIN wal, Deliver(lsn)
      PROVE  /\ HistoryInv' /\ UNCHANGED <<wal, read>>
             /\ \A t \in Tables : \A i \in DOMAIN history[t] : history'[t][i] = history[t][i]
  <2>1. UNCHANGED <<wal, read, day, update>>
    BY <1>2 DEF Deliver
  <2>2. \A t \in Tables : read[t] <= Len(history'[t])
    <3> SUFFICES ASSUME NEW t \in Tables PROVE read[t] <= Len(history'[t])
      OBVIOUS
    <3>1. Len(history[t]) <= Len(history'[t]) /\ Len(history'[t]) \in Nat
      BY <1>2, DeliverOK
    <3>2. read[t] <= Len(history[t])
      BY DEF HistoryInv
    <3>3. QED
      BY <1>0, <3>1, <3>2
  <2>3. QED
    BY <1>2, <2>1, <2>2, DeliverOK DEF HistoryInv
<1>3. ASSUME NEW t \in Tables, AppendFlow(t)
      PROVE  HistoryInv' /\ UNCHANGED <<wal, history>> /\ \A u \in Tables : read[u] <= read'[u]
  <2>1. UNCHANGED <<wal, history, day>> /\ read' = [read EXCEPT ![t] = Len(history[t])]
    BY <1>3 DEF AppendFlow
  <2>11. update' \in Updates
    <3>1. update \in Updates /\ update.pc = "bronze"
      BY <1>3 DEF AppendFlow, HistoryInv
    <3>2. update \in [pc : {"off", "bronze", "silver"}, todo : SUBSET Tables]
      BY <3>1 DEF Updates
    <3>3. [update EXCEPT !.todo = update.todo \ {t}]
            \in [pc : {"off", "bronze", "silver"}, todo : SUBSET Tables]
      BY <3>2
    <3>4. [pc |-> "silver", todo |-> {}] \in [pc : {"off", "bronze", "silver"}, todo : SUBSET Tables]
      OBVIOUS
    <3>5. QED
      BY <1>3, <3>3, <3>4 DEF AppendFlow, Updates
  <2>2. \A u \in Tables : read'[u] \in Nat /\ read[u] <= read'[u] /\ read'[u] <= Len(history[u])
    BY <1>0, <2>1 DEF HistoryInv
  <2>3. read' \in [Tables -> Nat]
    BY <1>0, <2>1 DEF HistoryInv
  <2>4. QED
    BY <2>1, <2>11, <2>2, <2>3 DEF HistoryInv
<1>4. CASE NextDay
  <2>1. day' \in Days
    BY <1>4, ActivityAssumption DEF NextDay, HistoryInv, Days
  <2>2. QED
    BY <1>0, <1>4, <2>1 DEF NextDay, HistoryInv
<1>5. ASSUME UNCHANGED <<wal, history, read, day>>, update' \in Updates
      PROVE  HistoryInv'
  BY <1>5 DEF HistoryInv
<1>6. CASE Start \/ RefreshSilver \/ RefreshGold \/ End \/ Fail \/ UNCHANGED vars
  <2>1. UNCHANGED <<wal, history, read, day>>
    BY <1>6 DEF Start, RefreshSilver, RefreshGold, End, Fail, vars
  <2>2. update' \in Updates
    <3>1. CASE RefreshGold
      <4>1. PICK f : update' = [update EXCEPT !.todo = update.todo \ {f}]
        BY <3>1 DEF RefreshGold
      <4>2. update \in [pc : {"gold"}, todo : SUBSET Families]
        BY <3>1 DEF RefreshGold, HistoryInv, Updates
      <4>3. [update EXCEPT !.todo = update.todo \ {f}] \in [pc : {"gold"}, todo : SUBSET Families]
        BY <4>2
      <4>4. QED
        BY <4>1, <4>3 DEF Updates
    <3>2. CASE Start \/ RefreshSilver \/ End \/ Fail
      BY <3>2 DEF Start, RefreshSilver, End, Fail, Off, Updates
    <3>3. CASE UNCHANGED vars
      BY <3>3 DEF vars, HistoryInv
    <3>4. QED
      BY <1>6, <3>1, <3>2, <3>3
  <2>3. QED
    BY <1>0, <1>5, <2>1, <2>2
<1>7. QED
  BY <1>0, <1>1, <1>2, <1>3, <1>4, <1>6 DEF Next, Pipeline

----------------------------------------------------------------------------
(* Silver.                                                                     *)

(* A copy that bronze holds stays what it is.                                  *)
LEMMA BronzeGrows ==
  ASSUME HistoryInv, [Next]_vars, NEW p \in Bronze
  PROVE  p \in Bronze' /\ Copy(p)' = Copy(p) /\ Row(p)' = Row(p)
<1>1. /\ p = <<p[1], p[2]>> /\ p[1] \in Tables /\ p[2] \in 1 .. read[p[1]]
      /\ p[2] \in DOMAIN history[p[1]] /\ Copy(p).lsn \in DOMAIN wal
  BY CopyOK
<1>2. /\ HistoryInv' /\ \A l \in DOMAIN wal : wal'[l] = wal[l]
      /\ read[p[1]] <= read'[p[1]] /\ history'[p[1]][p[2]] = history[p[1]][p[2]]
  BY <1>1, HistoryGrows
<1>3. read[p[1]] \in Nat /\ read'[p[1]] \in Nat
  BY <1>1, <1>2 DEF HistoryInv
<1>4. p[2] \in 1 .. read'[p[1]]
  BY <1>1, <1>2, <1>3
<1>5. p \in Bronze'
  BY <1>1, <1>4 DEF Bronze
<1>6. Copy(p)' = Copy(p)
  BY <1>2 DEF Copy
<1>7. QED
  BY <1>1, <1>2, <1>5, <1>6 DEF Row

(* The window takes one copy of each change ...                                *)
LEMMA SilverIsOneEach ==
  ASSUME HistoryInv
  PROVE  Silver \subseteq Effects /\ OneEach(Silver)
<1>1. Silver \subseteq Effects
  BY DEF Silver, Effects
<1>2. ASSUME NEW p \in Silver, NEW q \in Silver, Copy(p).lsn = Copy(q).lsn
      PROVE  p = q
  <2>1. p \in Bronze /\ q \in Bronze /\ p \in Effects /\ q \in Effects
    BY <1>1 DEF Effects
  <2>2. /\ p = <<p[1], p[2]>> /\ Row(p).table = p[1] /\ Row(p) = wal[Copy(p).lsn]
        /\ p[2] \in 1 .. read[p[1]] /\ Copy(p).synced \in Days
    BY <2>1, CopyOK DEF Delivered
  <2>3. /\ q = <<q[1], q[2]>> /\ Row(q).table = q[1] /\ Row(q) = wal[Copy(q).lsn]
        /\ q[2] \in 1 .. read[q[1]] /\ Copy(q).synced \in Days
    BY <2>1, CopyOK DEF Delivered
  <2>4. ChangeId(p) = ChangeId(q)
    BY <1>2, <2>2, <2>3 DEF ChangeId
  <2>5. ~Outranked(q, p) /\ ~Outranked(p, q)
    BY <2>1, <2>4 DEF Silver, Effects
  <2>6. p[2] = q[2]
    BY <2>2, <2>3, <2>5, ActivityAssumption DEF Outranked, Days
  <2>7. QED
    BY <1>2, <2>2, <2>3, <2>6
<1>3. QED
  BY <1>1, <1>2 DEF OneEach

(* ... and of every effective change that bronze holds.                        *)
LEMMA SilverHasAll ==
  ASSUME HistoryInv, NEW p \in Effects
  PROVE  Copy(p).lsn \in Lsns(Silver)
<1> DEFINE same == {q \in Effects : ChangeId(q) = ChangeId(p)}
           t == p[1]
           n == read[t]
           ages == {LastDay - Copy(q).synced : q \in same}
<1>1. p \in same /\ p \in Bronze
  BY DEF Effects
<1>2. t \in Tables /\ n \in Nat /\ LastDay \in Nat /\ Row(p).table = t
  BY <1>1, CopyOK, ActivityAssumption DEF HistoryInv
<1>3. ASSUME NEW q \in same
      PROVE  /\ q \in Bronze /\ q = <<t, q[2]>> /\ q[2] \in 1 .. n /\ Copy(q).lsn = Copy(p).lsn
             /\ Copy(q).synced \in 1 .. LastDay
  <2>1. q \in Bronze /\ Row(q).table = Row(p).table /\ Copy(q).lsn = Copy(p).lsn
    BY DEF Effects, ChangeId
  <2>2. q = <<q[1], q[2]>> /\ q[2] \in 1 .. read[q[1]] /\ Copy(q).synced \in Days
        /\ Row(q).table = q[1]
    BY <2>1, CopyOK DEF Delivered
  <2>3. QED
    BY <1>2, <2>1, <2>2 DEF Days
<1>4. ages \in SUBSET Nat /\ ages # {}
  BY <1>1, <1>2, <1>3
<1>5. PICK a \in ages : \A b \in ages : a <= b
  BY <1>4, Least
<1>6. PICK r \in same : a = LastDay - Copy(r).synced
  BY <1>5
<1> DEFINE latest == {q \in same : Copy(q).synced = Copy(r).synced}
           left == {n - q[2] : q \in latest}
<1>7. left \in SUBSET Nat /\ left # {}
  BY <1>2, <1>3, <1>6
<1>8. PICK k \in left : \A b \in left : k <= b
  BY <1>7, Least
<1>9. PICK s \in latest : k = n - s[2]
  BY <1>8
<1>10. ASSUME NEW q \in Effects, ChangeId(q) = ChangeId(s), Outranked(q, s) PROVE FALSE
  <2>1. q \in same /\ s \in same /\ Copy(s).synced = Copy(r).synced
    BY <1>9, <1>10
  <2>2. /\ Copy(q).synced \in 1 .. LastDay /\ Copy(s).synced \in 1 .. LastDay
        /\ q[2] \in 1 .. n /\ s[2] \in 1 .. n
    BY <1>3, <2>1
  <2>3. a <= LastDay - Copy(q).synced
    BY <1>5, <2>1
  <2>4. ~(Copy(q).synced > Copy(s).synced)
    BY <1>2, <1>6, <2>1, <2>2, <2>3
  <2>5. Copy(q).synced = Copy(s).synced /\ q[2] > s[2]
    BY <1>10, <2>4 DEF Outranked
  <2>6. k <= n - q[2]
    BY <1>8, <2>1, <2>5
  <2>7. QED
    BY <1>2, <1>9, <2>2, <2>5, <2>6
<1>11. s \in Silver
  BY <1>9, <1>10 DEF Silver, Effects
<1>12. Copy(s).lsn = Copy(p).lsn
  BY <1>3, <1>9
<1>13. QED
  BY <1>11, <1>12 DEF Lsns

LEMMA SilverStep ==
  ASSUME SilverInv, [Next]_vars
  PROVE  SilverInv' /\ \A p \in silver : Copy(p).lsn \in Lsns(silver)'
<1>1. HistoryInv /\ HistoryInv'
  BY HistoryGrows DEF SilverInv
<1>2. CASE UNCHANGED silver
  <2>1. ASSUME NEW p \in silver
        PROVE  p \in Effects' /\ Copy(p)' = Copy(p)
    <3>1. p \in Bronze /\ Row(p).type \in Effective
      BY DEF SilverInv, Effects
    <3>2. p \in Bronze' /\ Copy(p)' = Copy(p) /\ Row(p)' = Row(p)
      BY <1>1, <3>1, BronzeGrows
    <3>3. QED
      BY <3>1, <3>2 DEF Effects
  <2>2. silver' \subseteq Effects'
    BY <1>2, <2>1
  <2>3. ASSUME NEW p \in silver', NEW q \in silver', (Copy(p).lsn)' = (Copy(q).lsn)'
        PROVE  p = q
    BY <1>2, <2>1, <2>3 DEF SilverInv, OneEach
  <2>4. \A p \in silver : Copy(p).lsn \in Lsns(silver)'
    BY <1>2, <2>1 DEF Lsns
  <2>5. QED
    BY <1>1, <2>2, <2>3, <2>4 DEF SilverInv, OneEach
<1>3. CASE RefreshSilver
  <2>1. silver' = Silver /\ UNCHANGED <<wal, history, read>>
    BY <1>3 DEF RefreshSilver
  <2>2. silver' \subseteq Effects /\ OneEach(silver')
    BY <1>1, <2>1, SilverIsOneEach
  <2>3. Effects' = Effects
    BY <2>1 DEF Effects, Bronze, Row, Copy
  <2>4. \A p : Copy(p)' = Copy(p)
    BY <2>1 DEF Copy
  <2>5. OneEach(silver)'
    BY <2>2, <2>4 DEF OneEach
  <2>6. ASSUME NEW p \in silver PROVE Copy(p).lsn \in Lsns(silver)'
    <3>1. Copy(p).lsn \in Lsns(silver')
      BY <1>1, <2>1, SilverHasAll DEF SilverInv
    <3>2. QED
      BY <2>4, <3>1 DEF Lsns
  <2>7. QED
    BY <1>1, <2>2, <2>3, <2>5, <2>6 DEF SilverInv
<1>4. silver' = silver \/ RefreshSilver
  BY DEF Next, Pipeline, vars, Start, AppendFlow, RefreshGold, End, Fail, NextDay, Commit, Deliver
<1>5. QED
  BY <1>2, <1>3, <1>4

----------------------------------------------------------------------------
(* The metrics of silver.                                                      *)
Saved == {"research_notes", "analysis_reports"}
MetricsType ==
    [daily : [Days -> [researchers : Nat, invocations : Nat]],
     tools : [Days -> [success : Nat, error : Nat]],
     errors : [Days -> [invocations : Nat, error : Nat]],
     watchlist : [Days \X Actions -> Nat],
     saves : [Days \X Saved \X Actions -> [changes : Nat, researchers : Nat]]]

(* NothingCountedTwice and PublishedCountsStand, of any metrics.               *)
CountedOnce(g) ==
    /\ \A d \in Days :
         /\ g.errors[d].invocations <= Cardinality(CommittedCalls(d))
         /\ g.tools[d].success + g.tools[d].error <= Cardinality(CommittedCalls(d))
         /\ g.daily[d].invocations <= Cardinality(CommittedCalls(d))
    /\ \A d \in Days, t \in Saved :
         /\ g.saves[<<d, t, "create">>].changes
              <= Cardinality({i \in Committed(t, "insert") : wal[i].day = d})
         /\ g.saves[<<d, t, "delete">>].changes <= Cardinality(Committed(t, "delete"))
    /\ \A d \in Days :
         g.watchlist[<<d, "create">>]
           <= Cardinality({i \in Committed("watchlist_tickers", "insert") : wal[i].day = d})

NoMore(g, h) ==
    \A d \in Days :
       /\ h.errors[d].invocations >= g.errors[d].invocations
       /\ h.tools[d].success >= g.tools[d].success
       /\ h.daily[d].researchers >= g.daily[d].researchers
       /\ \A a \in {"create", "update"} :
            /\ h.watchlist[<<d, a>>] >= g.watchlist[<<d, a>>]
            /\ \A t \in Saved : h.saves[<<d, t, a>>].changes >= g.saves[<<d, t, a>>].changes

(* A set of rows is counted by the places in the log of what they did.         *)
LEMMA RowsOnce ==
  ASSUME HistoryInv, NEW rows \in SUBSET Bronze, OneEach(rows)
  PROVE  /\ IsFiniteSet(rows) /\ Cardinality(rows) \in Nat
         /\ Lsns(rows) \subseteq DOMAIN wal /\ IsFiniteSet(Lsns(rows))
         /\ Cardinality(rows) = Cardinality(Lsns(rows))
         /\ Researchers(rows) \in Nat
<1>1. \A p \in rows : Copy(p).lsn \in DOMAIN wal
  BY CopyOK
<1>2. Lsns(rows) \subseteq DOMAIN wal
  BY <1>1 DEF Lsns
<1>3. IsFiniteSet(DOMAIN wal)
  <2>1. DOMAIN wal = 1 .. Len(wal) /\ Len(wal) \in Nat
    BY DEF HistoryInv
  <2>2. QED
    BY <2>1, FS_Interval
<1>4. IsFiniteSet(Lsns(rows))
  BY <1>2, <1>3, FS_Subset
<1> DEFINE f == [l \in Lsns(rows) |-> CHOOSE p \in rows : Copy(p).lsn = l]
<1>5. \A l \in Lsns(rows) : f[l] \in rows /\ Copy(f[l]).lsn = l
  BY DEF Lsns
<1>6. ASSUME NEW p \in rows PROVE Copy(p).lsn \in Lsns(rows) /\ f[Copy(p).lsn] = p
  <2>1. Copy(p).lsn \in Lsns(rows)
    BY DEF Lsns
  <2>2. f[Copy(p).lsn] \in rows /\ Copy(f[Copy(p).lsn]).lsn = Copy(p).lsn
    BY <1>5, <2>1
  <2> HIDE DEF f
  <2>3. QED
    BY <2>1, <2>2 DEF OneEach
<1>7. f \in [Lsns(rows) -> rows]
  BY <1>5
<1> HIDE DEF f
<1>8. f \in Bijection(Lsns(rows), rows)
  <2>1. \A p \in rows : \E l \in Lsns(rows) : f[l] = p
    BY <1>6
  <2>2. \A k, l \in Lsns(rows) : f[k] = f[l] => k = l
    BY <1>5
  <2>3. QED
    BY <1>7, <2>1, <2>2 DEF Bijection, Injection, Surjection, IsInjective
<1>9. IsFiniteSet(rows) /\ Cardinality(rows) = Cardinality(Lsns(rows))
  BY <1>4, <1>8, FS_Bijection DEF ExistsBijection
<1>10. Cardinality(rows) \in Nat
  BY <1>9, FS_CardinalityType
<1> DEFINE users == {Row(p).user : p \in rows}
           u == [p \in rows |-> Row(p).user]
<1>11. u \in Surjection(rows, users)
  BY DEF Surjection
<1>12. IsFiniteSet(users \ {Nobody})
  BY <1>9, <1>11, FS_Surjection, FS_Subset
<1>13. Researchers(rows) \in Nat
  BY <1>12, FS_CardinalityType DEF Researchers
<1>14. QED
  BY <1>2, <1>4, <1>9, <1>10, <1>13

LEMMA RowsCounted ==
  ASSUME SilverInv, NEW rows \in SUBSET silver
  PROVE  /\ IsFiniteSet(rows) /\ Cardinality(rows) \in Nat
         /\ Lsns(rows) \subseteq DOMAIN wal /\ IsFiniteSet(Lsns(rows))
         /\ Cardinality(rows) = Cardinality(Lsns(rows))
         /\ Researchers(rows) \in Nat
<1>1. rows \in SUBSET Bronze /\ OneEach(rows) /\ HistoryInv
  BY DEF SilverInv, Effects, OneEach
<1>2. QED
  BY <1>1, RowsOnce

(* What the figures that may never fall count, in terms of the log.            *)
Done(t, type, d) ==
    {l \in Lsns(silver) : wal[l].table = t /\ wal[l].type = type /\ wal[l].day = d}
Calls(d) == Done("agent_tool_events", "insert", d)
TypeOf(a) == IF a = "create" THEN "insert" ELSE "update_postimage"

Figures ==
    IsFiniteSet(Lsns(silver)) /\ \A d \in Days :
       /\ Metrics(silver).errors[d].invocations = Cardinality(Calls(d))
       /\ Metrics(silver).tools[d].success
            = Cardinality({l \in Calls(d) : wal[l].status = "success"})
       /\ Metrics(silver).daily[d].researchers
            = Cardinality({wal[l].user : l \in Calls(d)} \ {Nobody})
       /\ \A a \in {"create", "update"} :
            /\ Metrics(silver).watchlist[<<d, a>>]
                 = Cardinality(Done("watchlist_tickers", TypeOf(a), d))
            /\ \A t \in Saved : Metrics(silver).saves[<<d, t, a>>].changes
                                 = Cardinality(Done(t, TypeOf(a), d))

LEMMA RowIs ==
  ASSUME SilverInv, NEW p \in silver
  PROVE  /\ Row(p) = wal[Copy(p).lsn] /\ Row(p) \in Change /\ Row(p).type \in Effective
         /\ Copy(p).lsn \in DOMAIN wal
BY CopyOK DEF SilverInv, Effects

(* The rows of one table, day and action are the changes of one table, day and *)
(* type.                                                                       *)
Group(t, d, a) ==
    {p \in silver : Row(p).table = t /\ EventDay(p) = d /\ ActionType(p) = a}

LEMMA GroupCounted ==
  ASSUME SilverInv, NEW t, NEW d \in Days, NEW a \in {"create", "update"}
  PROVE  /\ Lsns(Group(t, d, a)) = Done(t, TypeOf(a), d)
         /\ Cardinality(Group(t, d, a)) = Cardinality(Done(t, TypeOf(a), d))
         /\ IsFiniteSet(Done(t, TypeOf(a), d))
<1>1. ASSUME NEW p \in silver
      PROVE  p \in Group(t, d, a) <=> /\ wal[Copy(p).lsn].table = t
                                      /\ wal[Copy(p).lsn].type = TypeOf(a)
                                      /\ wal[Copy(p).lsn].day = d
  BY RowIs DEF Group, EventDay, ActionType, TypeOf, Effective
<1>2. Lsns(Group(t, d, a)) = Done(t, TypeOf(a), d)
  BY <1>1 DEF Lsns, Done, Group
<1>3. Group(t, d, a) \in SUBSET silver
  BY DEF Group
<1>4. QED
  BY <1>2, <1>3, RowsCounted

LEMMA CallsCounted ==
  ASSUME SilverInv, NEW d \in Days
  PROVE  /\ Lsns(Invocations(silver, d)) = Calls(d) /\ IsFiniteSet(Calls(d))
         /\ Cardinality(Invocations(silver, d)) = Cardinality(Calls(d))
         /\ With(Invocations(silver, d), "success")
              = Cardinality({l \in Calls(d) : wal[l].status = "success"})
         /\ Researchers({p \in Invocations(silver, d) : Row(p).user # Nobody})
              = Cardinality({wal[l].user : l \in Calls(d)} \ {Nobody})
<1> DEFINE rows == Invocations(silver, d)
           good == {p \in rows : Row(p).status = "success"}
<1>1. ASSUME NEW p \in silver
      PROVE  p \in rows <=> /\ wal[Copy(p).lsn].table = "agent_tool_events"
                            /\ wal[Copy(p).lsn].type = "insert" /\ wal[Copy(p).lsn].day = d
  BY RowIs DEF Invocations, EventDay
<1>2. rows \in SUBSET silver /\ good \in SUBSET silver
  BY DEF Invocations
<1>3. Lsns(rows) = Calls(d)
  BY <1>1, <1>2 DEF Lsns, Calls, Done
<1>4. \A p \in rows : Row(p) = wal[Copy(p).lsn]
  BY <1>2, RowIs
<1> HIDE DEF rows
<1>5. Lsns(good) = {l \in Calls(d) : wal[l].status = "success"}
  BY <1>3, <1>4 DEF Lsns
<1>6. {Row(p).user : p \in {q \in rows : Row(q).user # Nobody}} \ {Nobody}
        = {wal[l].user : l \in Calls(d)} \ {Nobody}
  BY <1>3, <1>4 DEF Lsns
<1>7. With(rows, "success") = Cardinality(good)
  BY DEF With
<1> HIDE DEF good
<1>8. QED
  BY <1>2, <1>3, <1>5, <1>6, <1>7, RowsCounted DEF Researchers, rows

LEMMA SavesOf ==
  ASSUME NEW d \in Days, NEW a \in Actions
  PROVE  /\ Watchlist(silver)[<<d, a>>] = Cardinality(Group("watchlist_tickers", d, a))
         /\ \A t \in Saved :
               Saves(silver)[<<d, t, a>>].changes = Cardinality(Group(t, d, a))
<1>1. Watchlist(silver)[<<d, a>>] = Cardinality(Group("watchlist_tickers", d, a))
  BY DEF Watchlist, Group
<1>2. ASSUME NEW t \in Saved
      PROVE  Saves(silver)[<<d, t, a>>].changes = Cardinality(Group(t, d, a))
  <2>1. <<d, t, a>> \in Days \X {"research_notes", "analysis_reports"} \X Actions
    BY DEF Saved
  <2>2. Saves(silver)[<<d, t, a>>]
          = [changes |-> Cardinality(Group(t, d, a)), researchers |-> Researchers(Group(t, d, a))]
    BY <2>1 DEF Saves, Group
  <2>3. QED
    BY <2>2
<1>3. QED
  BY <1>1, <1>2

LEMMA FiguresOK == SilverInv => Figures
<1> SUFFICES ASSUME SilverInv PROVE Figures
  OBVIOUS
<1>0. IsFiniteSet(Lsns(silver))
  BY RowsCounted
<1>1. ASSUME NEW d \in Days
      PROVE  /\ Metrics(silver).errors[d].invocations = Cardinality(Calls(d))
             /\ Metrics(silver).tools[d].success
                  = Cardinality({l \in Calls(d) : wal[l].status = "success"})
             /\ Metrics(silver).daily[d].researchers
                  = Cardinality({wal[l].user : l \in Calls(d)} \ {Nobody})
  <2>1. /\ Errors(silver)[d].invocations = Cardinality(Invocations(silver, d))
        /\ Tools(silver)[d].success = With(Invocations(silver, d), "success")
        /\ Daily(silver)[d].researchers
             = Researchers({p \in Invocations(silver, d) : Row(p).user # Nobody})
    BY DEF Errors, Tools, Daily
  <2>2. QED
    BY <2>1, CallsCounted DEF Metrics
<1>2. ASSUME NEW d \in Days, NEW a \in {"create", "update"}
      PROVE  /\ Metrics(silver).watchlist[<<d, a>>]
                  = Cardinality(Done("watchlist_tickers", TypeOf(a), d))
             /\ \A t \in Saved : Metrics(silver).saves[<<d, t, a>>].changes
                                  = Cardinality(Done(t, TypeOf(a), d))
  <2>1. a \in Actions
    BY DEF Actions
  <2>2. Metrics(silver).watchlist = Watchlist(silver) /\ Metrics(silver).saves = Saves(silver)
    BY DEF Metrics
  <2>3. Watchlist(silver)[<<d, a>>] = Cardinality(Done("watchlist_tickers", TypeOf(a), d))
    <3>1. Watchlist(silver)[<<d, a>>] = Cardinality(Group("watchlist_tickers", d, a))
      BY <2>1, SavesOf
    <3>2. QED
      BY <3>1, GroupCounted
  <2>4. ASSUME NEW t \in Saved
        PROVE  Saves(silver)[<<d, t, a>>].changes = Cardinality(Done(t, TypeOf(a), d))
    <3>1. Saves(silver)[<<d, t, a>>].changes = Cardinality(Group(t, d, a))
      BY <2>1, SavesOf
    <3>2. QED
      BY <3>1, GroupCounted
  <2>5. QED
    BY <2>2, <2>3, <2>4
<1>3. QED
  BY <1>0, <1>1, <1>2 DEF Figures

(* They never fall: what silver has the log keeps.                             *)
LEMMA MetricsGrow ==
  ASSUME SilverInv, [Next]_vars
  PROVE  NoMore(Metrics(silver), Metrics(silver)')
<1>1. Figures /\ Figures'
  <2>1. SilverInv'
    BY SilverStep
  <2>2. QED
    BY <2>1, FiguresOK, PTL
<1>2. \A l \in Lsns(silver) : l \in Lsns(silver)' /\ wal'[l] = wal[l]
  <2>1. \A p \in silver : Copy(p).lsn \in Lsns(silver)' /\ Copy(p).lsn \in DOMAIN wal
    BY SilverStep, RowIs
  <2>2. \A l \in DOMAIN wal : wal'[l] = wal[l]
    BY HistoryGrows DEF SilverInv
  <2>3. QED
    BY <2>1, <2>2 DEF Lsns
<1>3. ASSUME NEW t, NEW type, NEW d
      PROVE  /\ Done(t, type, d) \subseteq Done(t, type, d)' /\ IsFiniteSet(Done(t, type, d)')
             /\ \A l \in Done(t, type, d) : wal'[l] = wal[l]
  <2>1. Done(t, type, d)' \subseteq Lsns(silver)'
    BY DEF Done
  <2>2. IsFiniteSet(Lsns(silver)')
    BY <1>1 DEF Figures
  <2>3. QED
    BY <1>2, <2>1, <2>2, FS_Subset DEF Done
<1>4. ASSUME NEW t, NEW type, NEW d
      PROVE  Cardinality(Done(t, type, d)) <= Cardinality(Done(t, type, d)')
  BY <1>3, FS_Subset
<1>5. ASSUME NEW d
      PROVE  /\ Calls(d) \subseteq Calls(d)' /\ IsFiniteSet(Calls(d)')
             /\ \A l \in Calls(d) : wal'[l] = wal[l]
  BY <1>3 DEF Calls
<1>6. ASSUME NEW d
      PROVE  Cardinality({l \in Calls(d) : wal[l].status = "success"})
               <= Cardinality({l \in Calls(d)' : wal'[l].status = "success"})
  <2> DEFINE S == {l \in Calls(d) : wal[l].status = "success"}
             T == {l \in Calls(d)' : wal'[l].status = "success"}
  <2>1. S \subseteq T /\ IsFiniteSet(T)
    BY <1>5, FS_Subset
  <2>2. QED
    BY <2>1, FS_Subset
<1>7. ASSUME NEW d
      PROVE  Cardinality({wal[l].user : l \in Calls(d)} \ {Nobody})
               <= Cardinality({wal'[l].user : l \in Calls(d)'} \ {Nobody})
  <2> DEFINE S == {wal[l].user : l \in Calls(d)}
             T == {wal'[l].user : l \in Calls(d)'}
             u == [l \in Calls(d)' |-> wal'[l].user]
  <2>1. u \in Surjection(Calls(d)', T)
    BY DEF Surjection
  <2>2. IsFiniteSet(T \ {Nobody})
    BY <1>5, <2>1, FS_Surjection, FS_Subset
  <2>3. S \ {Nobody} \subseteq T \ {Nobody}
    BY <1>5
  <2>4. QED
    BY <2>2, <2>3, FS_Subset
<1>8. QED
  <2> SUFFICES ASSUME NEW d \in Days
               PROVE  /\ Metrics(silver)'.errors[d].invocations >= Metrics(silver).errors[d].invocations
                      /\ Metrics(silver)'.tools[d].success >= Metrics(silver).tools[d].success
                      /\ Metrics(silver)'.daily[d].researchers >= Metrics(silver).daily[d].researchers
                      /\ \A a \in {"create", "update"} :
                           /\ Metrics(silver)'.watchlist[<<d, a>>] >= Metrics(silver).watchlist[<<d, a>>]
                           /\ \A t \in Saved : Metrics(silver)'.saves[<<d, t, a>>].changes
                                                >= Metrics(silver).saves[<<d, t, a>>].changes
    BY DEF NoMore
  <2>1. /\ Metrics(silver)'.errors[d].invocations = Cardinality(Calls(d)')
        /\ Metrics(silver)'.tools[d].success
             = Cardinality({l \in Calls(d)' : wal'[l].status = "success"})
        /\ Metrics(silver)'.daily[d].researchers
             = Cardinality({wal'[l].user : l \in Calls(d)'} \ {Nobody})
        /\ \A a \in {"create", "update"} :
             /\ Metrics(silver)'.watchlist[<<d, a>>]
                  = Cardinality(Done("watchlist_tickers", TypeOf(a), d)')
             /\ \A t \in Saved : Metrics(silver)'.saves[<<d, t, a>>].changes
                                  = Cardinality(Done(t, TypeOf(a), d)')
    BY <1>1 DEF Figures
  <2>2. /\ Metrics(silver).errors[d].invocations = Cardinality(Calls(d))
        /\ Metrics(silver).tools[d].success
             = Cardinality({l \in Calls(d) : wal[l].status = "success"})
        /\ Metrics(silver).daily[d].researchers
             = Cardinality({wal[l].user : l \in Calls(d)} \ {Nobody})
        /\ \A a \in {"create", "update"} :
             /\ Metrics(silver).watchlist[<<d, a>>]
                  = Cardinality(Done("watchlist_tickers", TypeOf(a), d))
             /\ \A t \in Saved : Metrics(silver).saves[<<d, t, a>>].changes
                                  = Cardinality(Done(t, TypeOf(a), d))
    BY <1>1 DEF Figures
  <2>3. Cardinality(Calls(d)) <= Cardinality(Calls(d)')
    BY <1>4 DEF Calls
  <2>4. QED
    BY <1>4, <1>6, <1>7, <2>1, <2>2, <2>3

LEMMA MetricsTyped == SilverInv => Metrics(silver) \in MetricsType
<1> SUFFICES ASSUME SilverInv PROVE Metrics(silver) \in MetricsType
  OBVIOUS
<1>1. ASSUME NEW d \in Days, NEW status
      PROVE  With(Invocations(silver, d), status) \in Nat
  <2>1. {p \in Invocations(silver, d) : Row(p).status = status} \in SUBSET silver
    BY DEF Invocations
  <2>2. QED
    BY <2>1, RowsCounted DEF With
<1>2. ASSUME NEW d \in Days
      PROVE  /\ Cardinality(Invocations(silver, d)) \in Nat
             /\ Cardinality({p \in Invocations(silver, d) : Row(p).user # Nobody}) \in Nat
             /\ Researchers({p \in Invocations(silver, d) : Row(p).user # Nobody}) \in Nat
  <2>1. /\ Invocations(silver, d) \in SUBSET silver
        /\ {p \in Invocations(silver, d) : Row(p).user # Nobody} \in SUBSET silver
    BY DEF Invocations
  <2>2. QED
    BY <2>1, RowsCounted
<1>4. Daily(silver) \in [Days -> [researchers : Nat, invocations : Nat]]
  BY <1>2 DEF Daily
<1>5. Tools(silver) \in [Days -> [success : Nat, error : Nat]]
  BY <1>1 DEF Tools
<1>6. Errors(silver) \in [Days -> [invocations : Nat, error : Nat]]
  BY <1>1, <1>2 DEF Errors
<1>7. Watchlist(silver) \in [Days \X Actions -> Nat]
  <2> DEFINE group(g) == {p \in silver : /\ Row(p).table = "watchlist_tickers"
                                         /\ EventDay(p) = g[1] /\ ActionType(p) = g[2]}
  <2>1. ASSUME NEW g PROVE group(g) \in SUBSET silver
    OBVIOUS
  <2>2. Watchlist(silver) = [g \in Days \X Actions |-> Cardinality(group(g))]
    BY DEF Watchlist
  <2> HIDE DEF group
  <2>3. \A g : Cardinality(group(g)) \in Nat
    BY <2>1, RowsCounted
  <2>4. QED
    BY <2>2, <2>3
<1>8. Saves(silver) \in [Days \X Saved \X Actions -> [changes : Nat, researchers : Nat]]
  <2> DEFINE group(g) == {p \in silver : /\ Row(p).table = g[2]
                                         /\ EventDay(p) = g[1] /\ ActionType(p) = g[3]}
             value(g) == [changes |-> Cardinality(group(g)), researchers |-> Researchers(group(g))]
  <2>1. ASSUME NEW g PROVE group(g) \in SUBSET silver
    OBVIOUS
  <2>2. Saves(silver) = [g \in Days \X Saved \X Actions |-> value(g)]
    BY DEF Saves, Saved
  <2> HIDE DEF group
  <2>3. \A g : value(g) \in [changes : Nat, researchers : Nat]
    BY <2>1, RowsCounted
  <2> HIDE DEF value
  <2>4. QED
    BY <2>2, <2>3
<1>9. QED
  BY <1>4, <1>5, <1>6, <1>7, <1>8 DEF Metrics, MetricsType

LEMMA CommittedFinite ==
  ASSUME HistoryInv, NEW S \in SUBSET DOMAIN wal
  PROVE  IsFiniteSet(S) /\ Cardinality(S) \in Nat
<1>1. DOMAIN wal = 1 .. Len(wal) /\ Len(wal) \in Nat
  BY DEF HistoryInv
<1>2. IsFiniteSet(S)
  <2>1. IsFiniteSet(DOMAIN wal)
    BY <1>1, FS_Interval
  <2>2. QED
    BY <2>1, FS_Subset
<1>3. QED
  BY <1>2, FS_CardinalityType

LEMMA MetricsCountOnce ==
  ASSUME SilverInv
  PROVE  CountedOnce(Metrics(silver))
<1>1. ASSUME NEW rows \in SUBSET silver, NEW C \in SUBSET DOMAIN wal, Lsns(rows) \subseteq C
      PROVE  Cardinality(rows) <= Cardinality(C) /\ Cardinality(rows) \in Nat
  <2>1. IsFiniteSet(C)
    BY CommittedFinite DEF SilverInv
  <2>2. QED
    BY <1>1, <2>1, RowsCounted, FS_Subset
<1>2. ASSUME NEW d \in Days, NEW rows \in SUBSET Invocations(silver, d)
      PROVE  Cardinality(rows) <= Cardinality(CommittedCalls(d)) /\ Cardinality(rows) \in Nat
             /\ IsFiniteSet(rows)
  <2>1. \A p \in rows : p \in silver /\ Row(p).table = "agent_tool_events"
                        /\ Row(p).type = "insert" /\ Row(p).day = d
    BY DEF Invocations, EventDay
  <2>2. Lsns(rows) \subseteq CommittedCalls(d)
    BY <2>1, RowIs DEF Lsns, CommittedCalls, Committed
  <2>3. CommittedCalls(d) \in SUBSET DOMAIN wal /\ rows \in SUBSET silver
    BY <2>1 DEF CommittedCalls, Committed
  <2>4. QED
    BY <1>1, <2>2, <2>3, RowsCounted
<1>3. ASSUME NEW d \in Days
      PROVE  /\ Errors(silver)[d].invocations <= Cardinality(CommittedCalls(d))
             /\ Tools(silver)[d].success + Tools(silver)[d].error
                  <= Cardinality(CommittedCalls(d))
             /\ Daily(silver)[d].invocations <= Cardinality(CommittedCalls(d))
  <2> DEFINE calls == Invocations(silver, d)
             good == {p \in calls : Row(p).status = "success"}
             bad == {p \in calls : Row(p).status = "error"}
             known == {p \in calls : Row(p).user # Nobody}
  <2>1. /\ Errors(silver)[d].invocations = Cardinality(calls)
        /\ Tools(silver)[d].success = Cardinality(good)
        /\ Tools(silver)[d].error = Cardinality(bad)
        /\ Daily(silver)[d].invocations = Cardinality(known)
    BY DEF Errors, Tools, Daily, With
  <2>2. /\ calls \in SUBSET calls /\ known \in SUBSET calls /\ good \in SUBSET calls
        /\ bad \in SUBSET calls /\ (good \cup bad) \in SUBSET calls /\ good \cap bad = {}
    OBVIOUS
  <2> HIDE DEF good, bad, known
  <2>3. /\ Cardinality(good \cup bad) <= Cardinality(CommittedCalls(d))
        /\ Cardinality(good) \in Nat /\ Cardinality(bad) \in Nat
        /\ IsFiniteSet(good) /\ IsFiniteSet(bad)
    BY <1>2, <2>2
  <2>4. Cardinality(good \cup bad)
          = Cardinality(good) + Cardinality(bad) - Cardinality(good \cap bad)
    BY <2>3, FS_Union
  <2>5. Cardinality(good \cap bad) = 0
    BY <2>2, FS_EmptySet
  <2>6. Cardinality(good) + Cardinality(bad) <= Cardinality(CommittedCalls(d))
    BY <2>3, <2>4, <2>5
  <2>7. /\ Cardinality(calls) <= Cardinality(CommittedCalls(d))
        /\ Cardinality(known) <= Cardinality(CommittedCalls(d))
    BY <1>2, <2>2
  <2>8. QED
    BY <2>1, <2>6, <2>7
<1>4. ASSUME NEW t, NEW d \in Days
      PROVE  /\ Cardinality(Group(t, d, "create"))
                  <= Cardinality({i \in Committed(t, "insert") : wal[i].day = d})
             /\ Cardinality(Group(t, d, "delete")) <= Cardinality(Committed(t, "delete"))
  <2>1. \A a : Group(t, d, a) \in SUBSET silver
    BY DEF Group
  <2>2. \A p \in Group(t, d, "create") : Row(p).table = t /\ Row(p).type = "insert" /\ Row(p).day = d
    <3> SUFFICES ASSUME NEW p \in Group(t, d, "create")
                 PROVE  Row(p).table = t /\ Row(p).type = "insert" /\ Row(p).day = d
      OBVIOUS
    <3>1. p \in silver /\ Row(p).table = t /\ EventDay(p) = d /\ ActionType(p) = "create"
      BY DEF Group
    <3>2. QED
      BY <3>1, RowIs DEF ActionType, EventDay, Effective
  <2>3. \A p \in Group(t, d, "delete") : Row(p).table = t /\ Row(p).type = "delete"
    <3> SUFFICES ASSUME NEW p \in Group(t, d, "delete")
                 PROVE  Row(p).table = t /\ Row(p).type = "delete"
      OBVIOUS
    <3>1. p \in silver /\ Row(p).table = t /\ ActionType(p) = "delete"
      BY DEF Group
    <3>2. QED
      BY <3>1, RowIs DEF ActionType, Effective
  <2>4. /\ Lsns(Group(t, d, "create")) \subseteq {i \in Committed(t, "insert") : wal[i].day = d}
        /\ Lsns(Group(t, d, "delete")) \subseteq Committed(t, "delete")
    BY <2>1, <2>2, <2>3, RowIs DEF Lsns, Committed
  <2>5. /\ {i \in Committed(t, "insert") : wal[i].day = d} \in SUBSET DOMAIN wal
        /\ Committed(t, "delete") \in SUBSET DOMAIN wal
    BY DEF Committed
  <2>6. QED
    BY <1>1, <2>1, <2>4, <2>5
<1>5. ASSUME NEW d \in Days
      PROVE  Watchlist(silver)[<<d, "create">>]
               <= Cardinality({i \in Committed("watchlist_tickers", "insert") : wal[i].day = d})
  <2>1. Watchlist(silver)[<<d, "create">>] = Cardinality(Group("watchlist_tickers", d, "create"))
    BY SavesOf DEF Actions
  <2>2. QED
    BY <1>4, <2>1
<1>6. ASSUME NEW d \in Days, NEW t \in Saved
      PROVE  /\ Saves(silver)[<<d, t, "create">>].changes
                  <= Cardinality({i \in Committed(t, "insert") : wal[i].day = d})
             /\ Saves(silver)[<<d, t, "delete">>].changes <= Cardinality(Committed(t, "delete"))
  <2>1. \A a \in {"create", "delete"} :
           Saves(silver)[<<d, t, a>>].changes = Cardinality(Group(t, d, a))
    BY SavesOf DEF Actions
  <2>2. QED
    BY <1>4, <2>1
<1>7. /\ Metrics(silver).errors = Errors(silver) /\ Metrics(silver).tools = Tools(silver)
      /\ Metrics(silver).daily = Daily(silver) /\ Metrics(silver).saves = Saves(silver)
      /\ Metrics(silver).watchlist = Watchlist(silver)
  BY DEF Metrics
<1>8. QED
  BY <1>3, <1>5, <1>6, <1>7, Zenon DEF CountedOnce

(* A step of the pipeline replaces one family of the metrics by that of silver.*)
LEMMA Replaced ==
  ASSUME NEW g \in MetricsType, NEW h \in MetricsType, NEW f \in Families
  PROVE  LET m == [g EXCEPT ![f] = h[f]] IN
         /\ m \in MetricsType
         /\ m.errors \in {g.errors, h.errors} /\ m.tools \in {g.tools, h.tools}
         /\ m.daily \in {g.daily, h.daily} /\ m.saves \in {g.saves, h.saves}
         /\ m.watchlist \in {g.watchlist, h.watchlist}
<1>1. CASE f = "daily"
  BY <1>1 DEF MetricsType
<1>2. CASE f = "tools"
  BY <1>2 DEF MetricsType
<1>3. CASE f = "errors"
  BY <1>3 DEF MetricsType
<1>4. CASE f = "watchlist"
  BY <1>4 DEF MetricsType
<1>5. CASE f = "saves"
  BY <1>5 DEF MetricsType
<1>6. QED
  BY <1>1, <1>2, <1>3, <1>4, <1>5 DEF Families

LEMMA Figured ==
  ASSUME NEW g \in MetricsType, NEW d \in Days
  PROVE  /\ g.errors[d].invocations \in Nat /\ g.tools[d].success \in Nat
         /\ g.daily[d].researchers \in Nat
BY DEF MetricsType

LEMMA FiguredByAction ==
  ASSUME NEW g \in MetricsType, NEW d \in Days, NEW a \in {"create", "update"}
  PROVE  /\ g.watchlist[<<d, a>>] \in Nat
         /\ \A t \in Saved : g.saves[<<d, t, a>>].changes \in Nat
<1>1. <<d, a>> \in Days \X Actions
  BY DEF Actions
<1>2. \A t \in Saved : <<d, t, a>> \in Days \X Saved \X Actions
  BY DEF Actions
<1>3. QED
  BY <1>1, <1>2 DEF MetricsType

LEMMA NoMoreItself ==
  ASSUME NEW g \in MetricsType
  PROVE  NoMore(g, g)
<1>1. \A x \in Nat : x >= x
  OBVIOUS
<1>2. QED
  BY <1>1, Figured, FiguredByAction, Zenon DEF NoMore

LEMMA NoMoreThrough ==
  ASSUME NEW g \in MetricsType, NEW h \in MetricsType, NEW k \in MetricsType,
         NoMore(g, h), NoMore(h, k)
  PROVE  NoMore(g, k)
<1>1. \A x, y, z \in Nat : y >= x /\ z >= y => z >= x
  OBVIOUS
<1>2. ASSUME NEW d \in Days
      PROVE  /\ k.errors[d].invocations >= g.errors[d].invocations
             /\ k.tools[d].success >= g.tools[d].success
             /\ k.daily[d].researchers >= g.daily[d].researchers
  <2>1. /\ h.errors[d].invocations >= g.errors[d].invocations
        /\ k.errors[d].invocations >= h.errors[d].invocations
        /\ h.tools[d].success >= g.tools[d].success
        /\ k.tools[d].success >= h.tools[d].success
        /\ h.daily[d].researchers >= g.daily[d].researchers
        /\ k.daily[d].researchers >= h.daily[d].researchers
    BY DEF NoMore
  <2>2. \A m \in {g, h, k} : /\ m.errors[d].invocations \in Nat /\ m.tools[d].success \in Nat
                             /\ m.daily[d].researchers \in Nat
    BY Figured
  <2>3. QED
    BY <1>1, <2>1, <2>2, Zenon
<1>3. ASSUME NEW d \in Days, NEW a \in {"create", "update"}
      PROVE  k.watchlist[<<d, a>>] >= g.watchlist[<<d, a>>]
  <2>1. /\ h.watchlist[<<d, a>>] >= g.watchlist[<<d, a>>]
        /\ k.watchlist[<<d, a>>] >= h.watchlist[<<d, a>>]
    BY DEF NoMore
  <2>2. /\ g.watchlist[<<d, a>>] \in Nat /\ h.watchlist[<<d, a>>] \in Nat
        /\ k.watchlist[<<d, a>>] \in Nat
    BY FiguredByAction
  <2>3. QED
    BY <1>1, <2>1, <2>2, Zenon
<1>4. ASSUME NEW d \in Days, NEW a \in {"create", "update"}, NEW t \in Saved
      PROVE  k.saves[<<d, t, a>>].changes >= g.saves[<<d, t, a>>].changes
  <2>1. /\ h.saves[<<d, t, a>>].changes >= g.saves[<<d, t, a>>].changes
        /\ k.saves[<<d, t, a>>].changes >= h.saves[<<d, t, a>>].changes
    BY DEF NoMore
  <2>2. /\ g.saves[<<d, t, a>>].changes \in Nat /\ h.saves[<<d, t, a>>].changes \in Nat
        /\ k.saves[<<d, t, a>>].changes \in Nat
    BY FiguredByAction
  <2>3. QED
    BY <1>1, <2>1, <2>2, Zenon
<1>5. QED
  BY <1>2, <1>3, <1>4 DEF NoMore

LEMMA ReplacedBetween ==
  ASSUME NEW g \in MetricsType, NEW h \in MetricsType, NEW f \in Families, NoMore(g, h)
  PROVE  NoMore(g, [g EXCEPT ![f] = h[f]]) /\ NoMore([g EXCEPT ![f] = h[f]], h)
<1> DEFINE m == [g EXCEPT ![f] = h[f]]
<1>1. /\ m.errors \in {g.errors, h.errors} /\ m.tools \in {g.tools, h.tools}
      /\ m.daily \in {g.daily, h.daily} /\ m.saves \in {g.saves, h.saves}
      /\ m.watchlist \in {g.watchlist, h.watchlist}
  BY Replaced
<1>2. NoMore(g, g) /\ NoMore(h, h)
  BY NoMoreItself
<1> HIDE DEF m
<1>3. NoMore(g, m) /\ NoMore(m, h)
  BY <1>1, <1>2 DEF NoMore
<1>4. QED
  BY <1>3 DEF m

LEMMA ReplacedCountedOnce ==
  ASSUME NEW g \in MetricsType, NEW h \in MetricsType, NEW f \in Families,
         CountedOnce(g), CountedOnce(h)
  PROVE  CountedOnce([g EXCEPT ![f] = h[f]])
<1> DEFINE m == [g EXCEPT ![f] = h[f]]
<1>1. /\ m.errors \in {g.errors, h.errors} /\ m.tools \in {g.tools, h.tools}
      /\ m.daily \in {g.daily, h.daily} /\ m.saves \in {g.saves, h.saves}
      /\ m.watchlist \in {g.watchlist, h.watchlist}
  BY Replaced
<1> HIDE DEF m
<1>2. CountedOnce(m)
  BY <1>1 DEF CountedOnce
<1>3. QED
  BY <1>2 DEF m

(* What has been committed stays committed.                                    *)
LEMMA CountedOnceStays ==
  ASSUME HistoryInv, [Next]_vars, NEW g \in MetricsType, CountedOnce(g)
  PROVE  CountedOnce(g)'
<1>1. HistoryInv' /\ DOMAIN wal \subseteq DOMAIN wal' /\ \A l \in DOMAIN wal : wal'[l] = wal[l]
  BY HistoryGrows
<1>2. ASSUME NEW S \in SUBSET DOMAIN wal, NEW T \in SUBSET DOMAIN wal', S \subseteq T, NEW n \in Nat,
             n <= Cardinality(S)
      PROVE  n <= Cardinality(T)
  <2>1. IsFiniteSet(S) /\ Cardinality(S) \in Nat
    BY CommittedFinite
  <2>2. IsFiniteSet(T)
    <3>1. DOMAIN wal' = 1 .. Len(wal') /\ Len(wal') \in Nat
      BY <1>1 DEF HistoryInv
    <3>2. IsFiniteSet(DOMAIN wal')
      BY <3>1, FS_Interval
    <3>3. QED
      BY <3>2, FS_Subset
  <2>3. Cardinality(S) <= Cardinality(T) /\ Cardinality(T) \in Nat
    BY <1>2, <2>2, FS_Subset, FS_CardinalityType
  <2>4. QED
    BY <1>2, <2>1, <2>3
<1>3. ASSUME NEW t, NEW type
      PROVE  /\ Committed(t, type) \in SUBSET DOMAIN wal /\ Committed(t, type)' \in SUBSET DOMAIN wal'
             /\ Committed(t, type) \subseteq Committed(t, type)'
  BY <1>1 DEF Committed
<1>4. ASSUME NEW t, NEW type, NEW d
      PROVE  {i \in Committed(t, type) : wal[i].day = d}
               \subseteq {i \in Committed(t, type)' : wal'[i].day = d}
  BY <1>1, <1>3 DEF Committed
<1>5. ASSUME NEW t, NEW d, NEW n \in Nat,
             n <= Cardinality({i \in Committed(t, "insert") : wal[i].day = d})
      PROVE  n <= Cardinality({i \in Committed(t, "insert")' : wal'[i].day = d})
  <2> DEFINE S == {i \in Committed(t, "insert") : wal[i].day = d}
             T == {i \in Committed(t, "insert")' : wal'[i].day = d}
  <2>1. S \in SUBSET DOMAIN wal /\ T \in SUBSET DOMAIN wal' /\ S \subseteq T
    BY <1>3, <1>4
  <2> HIDE DEF S, T
  <2>2. n <= Cardinality(S)
    BY <1>5 DEF S
  <2>3. n <= Cardinality(T)
    BY <1>2, <2>1, <2>2
  <2>4. QED
    BY <2>3 DEF T
<1>6. ASSUME NEW t, NEW n \in Nat, n <= Cardinality(Committed(t, "delete"))
      PROVE  n <= Cardinality(Committed(t, "delete")')
  BY <1>2, <1>3, <1>6
<1>7. ASSUME NEW d \in Days
      PROVE  /\ g.errors[d].invocations \in Nat /\ g.daily[d].invocations \in Nat
             /\ g.tools[d].success + g.tools[d].error \in Nat
             /\ g.watchlist[<<d, "create">>] \in Nat
             /\ \A t \in Saved : /\ g.saves[<<d, t, "create">>].changes \in Nat
                                /\ g.saves[<<d, t, "delete">>].changes \in Nat
  <2>1. <<d, "create">> \in Days \X Actions
    BY DEF Actions
  <2>2. \A a \in {"create", "delete"}, t \in Saved : <<d, t, a>> \in Days \X Saved \X Actions
    BY DEF Actions
  <2>3. QED
    BY <2>1, <2>2 DEF MetricsType
<1>8. ASSUME NEW d \in Days, NEW n \in Nat, n <= Cardinality(CommittedCalls(d))
      PROVE  n <= Cardinality(CommittedCalls(d)')
  BY <1>5, <1>8 DEF CommittedCalls
<1>9. QED
  BY <1>5, <1>6, <1>7, <1>8, Zenon DEF CountedOnce

----------------------------------------------------------------------------
(* Gold counts nothing twice, and no more than silver has.                     *)
ActivityInv ==
    /\ SilverInv
    /\ gold \in MetricsType /\ CountedOnce(gold)
    /\ NoMore(gold, Metrics(silver))

LEMMA ActivityInitial == Init => ActivityInv
<1> SUFFICES ASSUME Init PROVE ActivityInv
  OBVIOUS
<1>1. HistoryInv
  <2>1. wal = <<>> /\ wal \in Seq(Change)
    BY DEF Init
  <2>2. /\ history = [t \in Tables |-> <<>>] /\ read = [t \in Tables |-> 0]
        /\ \A t \in Tables : /\ history[t] \in Seq(Delivered) /\ DOMAIN history[t] = {}
                             /\ read[t] \in Nat /\ read[t] <= Len(history[t])
    BY DEF Init
  <2>3. history \in [Tables -> Seq(Delivered)] /\ read \in [Tables -> Nat]
    BY <2>2
  <2>4. update \in Updates
    BY DEF Init, Off, Updates
  <2>5. day \in Days
    BY ActivityAssumption DEF Init, Days
  <2>6. QED
    BY <2>1, <2>2, <2>3, <2>4, <2>5 DEF HistoryInv
<1>2. SilverInv
  BY <1>1 DEF Init, SilverInv, OneEach
<1>3. gold = Metrics(silver)
  BY DEF Init
<1>4. QED
  BY <1>2, <1>3, MetricsTyped, MetricsCountOnce, NoMoreItself DEF ActivityInv

LEMMA GoldSteps ==
  ASSUME ActivityInv, [Next]_vars
  PROVE  \/ UNCHANGED gold
         \/ /\ UNCHANGED silver
            /\ \E f \in Families : gold' = [gold EXCEPT ![f] = Metrics(silver)[f]]
<1>1. CASE RefreshGold
  <2>1. update.todo \subseteq Families /\ update.todo # {}
    BY <1>1 DEF RefreshGold, ActivityInv, SilverInv, HistoryInv, Updates
  <2>2. UNCHANGED silver
    BY <1>1 DEF RefreshGold
  <2>3. \E f \in update.todo : gold' = [gold EXCEPT ![f] = Metrics(silver)[f]]
    BY <1>1, <2>1, Zenon DEF RefreshGold
  <2>4. QED
    BY <2>1, <2>2, <2>3
<1>2. RefreshGold \/ UNCHANGED gold
  BY DEF Next, Pipeline, vars, Start, AppendFlow, RefreshSilver, End, Fail, NextDay, Commit, Deliver
<1>3. QED
  BY <1>1, <1>2

LEMMA ActivityStep ==
  ASSUME ActivityInv, [Next]_vars
  PROVE  ActivityInv' /\ NoMore(gold, gold')
<1> DEFINE h == Metrics(silver)
<1>1. /\ SilverInv /\ HistoryInv /\ SilverInv' /\ gold \in MetricsType /\ CountedOnce(gold)
      /\ NoMore(gold, h)
  BY SilverStep DEF ActivityInv, SilverInv
<1>2. h \in MetricsType /\ CountedOnce(h)
  BY <1>1, MetricsTyped, MetricsCountOnce
<1>3. h' \in MetricsType
  <2>1. (Metrics(silver) \in MetricsType)'
    BY <1>1, MetricsTyped, PTL
  <2>2. QED
    BY <2>1
<1>4. NoMore(h, h')
  BY <1>1, MetricsGrow
<1>5. /\ gold' \in MetricsType /\ CountedOnce(gold') /\ NoMore(gold, gold')
      /\ NoMore(gold', h)
  <2>1. CASE UNCHANGED gold
    BY <1>1, <2>1, NoMoreItself
  <2>2. ASSUME NEW f \in Families, gold' = [gold EXCEPT ![f] = h[f]]
        PROVE  /\ gold' \in MetricsType /\ CountedOnce(gold') /\ NoMore(gold, gold')
               /\ NoMore(gold', h)
    <3>1. gold' \in MetricsType
      BY <1>1, <1>2, <2>2, Replaced
    <3>2. CountedOnce([gold EXCEPT ![f] = h[f]])
      BY <1>1, <1>2, ReplacedCountedOnce
    <3>3. NoMore(gold, [gold EXCEPT ![f] = h[f]]) /\ NoMore([gold EXCEPT ![f] = h[f]], h)
      BY <1>1, <1>2, ReplacedBetween
    <3>4. QED
      BY <2>2, <3>1, <3>2, <3>3
  <2>3. QED
    BY <2>1, <2>2, GoldSteps
<1>6. CountedOnce(gold)'
  <2> DEFINE g == gold'
  <2>1. g \in MetricsType /\ CountedOnce(g)
    BY <1>5
  <2>2. \A k \in MetricsType : CountedOnce(k) => CountedOnce(k)'
    BY <1>1, CountedOnceStays
  <2>3. QED
    BY <2>1, <2>2 DEF CountedOnce
<1>7. NoMore(gold', h')
  BY <1>2, <1>3, <1>4, <1>5, NoMoreThrough
<1>8. QED
  BY <1>1, <1>5, <1>6, <1>7 DEF ActivityInv

LEMMA ActivityInductive == Spec => []ActivityInv
BY ActivityInitial, ActivityStep, PTL DEF Spec

(* For any sources, users, changes, deliveries and failed updates: no metric   *)
(* counts an operation twice (NothingCountedTwice).                            *)
THEOREM CountedOnceEach == Spec => []NothingCountedTwice
<1>1. ActivityInv => NothingCountedTwice
  BY DEF ActivityInv, CountedOnce, NothingCountedTwice, Saved
<1>2. QED
  BY <1>1, ActivityInductive, PTL

(* ... and what the metrics of a day have once counted they count for good     *)
(* (PublishedCountsStand).                                                     *)
THEOREM CountsStand == Spec => PublishedCountsStand
<1>1. ASSUME ActivityInv, [Next]_vars
      PROVE  \A d \in Days :
         /\ gold'.errors[d].invocations >= gold.errors[d].invocations
         /\ gold'.tools[d].success >= gold.tools[d].success
         /\ gold'.daily[d].researchers >= gold.daily[d].researchers
         /\ \A a \in {"create", "update"} :
              /\ gold'.watchlist[<<d, a>>] >= gold.watchlist[<<d, a>>]
              /\ \A t \in {"research_notes", "analysis_reports"} :
                   gold'.saves[<<d, t, a>>].changes >= gold.saves[<<d, t, a>>].changes
  BY <1>1, ActivityStep DEF NoMore, Saved
<1>2. QED
  BY <1>1, ActivityInductive, PTL DEF Spec, PublishedCountsStand

----------------------------------------------------------------------------
(* The reference: the loop over the changes.                                   *)
KeptAt(copies, f, n) == IF n = 0 THEN {} ELSE Keep(f[n - 1], copies[n])
LoopsTo(copies, f, m) == f = [n \in 0 .. m |-> KeptAt(copies, f, n)]

(* The recursion has a solution for any number of steps.                       *)
LEMMA LoopExists ==
  ASSUME NEW copies
  PROVE  \A m \in Nat : \E f : LoopsTo(copies, f, m)
<1> DEFINE Without == {m \in Nat : ~ \E f : LoopsTo(copies, f, m)}
<1> SUFFICES ASSUME Without # {} PROVE FALSE
  OBVIOUS
<1>1. PICK m \in Without : \A k \in Without : m <= k
  BY Least
<1>2. m \in Nat /\ ~ \E f : LoopsTo(copies, f, m)
  BY <1>1
<1>3. CASE m = 0
  <2> DEFINE g == [n \in 0 .. 0 |-> {}]
  <2>1. \A n \in 0 .. 0 : n = 0
    OBVIOUS
  <2>2. LoopsTo(copies, g, 0)
    BY <2>1 DEF LoopsTo, KeptAt
  <2>3. QED
    BY <1>2, <1>3, <2>2
<1>4. CASE m # 0
  <2>1. m - 1 \in Nat /\ ~(m <= m - 1)
    BY <1>2, <1>4
  <2>2. m - 1 \notin Without
    BY <1>1, <2>1
  <2>3. PICK f : LoopsTo(copies, f, m - 1)
    BY <2>1, <2>2
  <2> DEFINE g == [n \in 0 .. m |-> IF n = m THEN Keep(f[m - 1], copies[m]) ELSE f[n]]
  <2>4. \A n \in 0 .. m - 1 : f[n] = KeptAt(copies, f, n) /\ g[n] = f[n]
    BY <2>1, <2>3 DEF LoopsTo
  <2>5. ASSUME NEW n \in 0 .. m PROVE g[n] = KeptAt(copies, g, n)
    <3>1. CASE n = m
      <4>1. g[m - 1] = f[m - 1]
        BY <2>1, <2>4
      <4>2. QED
        BY <3>1, <4>1, <1>2, <1>4 DEF KeptAt
    <3>2. CASE n # m /\ n = 0
      <4>1. 0 \in 0 .. m - 1
        BY <2>1
      <4>2. g[0] = f[0] /\ f[0] = KeptAt(copies, f, 0)
        BY <4>1, <2>4
      <4>3. KeptAt(copies, f, 0) = KeptAt(copies, g, 0)
        BY DEF KeptAt
      <4>4. QED
        BY <3>2, <4>2, <4>3
    <3>3. CASE n # m /\ n # 0
      <4>1. n \in 0 .. m - 1 /\ n - 1 \in 0 .. m - 1
        BY <3>3, <1>2
      <4>2. g[n - 1] = f[n - 1] /\ g[n] = f[n] /\ f[n] = KeptAt(copies, f, n)
        BY <4>1, <2>4
      <4>3. QED
        BY <4>2, <3>3 DEF KeptAt
    <3>4. QED
      BY <3>1, <3>2, <3>3
  <2>6. g = [n \in 0 .. m |-> KeptAt(copies, g, n)]
    BY <2>5
  <2>7. LoopsTo(copies, g, m)
    BY <2>6, Zenon DEF LoopsTo
  <2>8. QED
    BY <1>2, <2>7
<1>5. QED
  BY <1>3, <1>4

LEMMA LoopIs ==
  ASSUME NEW copies, Len(copies) \in Nat
  PROVE  LoopsTo(copies, Loop(copies), Len(copies))
<1>1. PICK f : LoopsTo(copies, f, Len(copies))
  BY LoopExists
<1>2. Loop(copies) = CHOOSE g : LoopsTo(copies, g, Len(copies))
  BY Zenon DEF Loop, LoopsTo, KeptAt
<1>3. QED
  BY <1>1, <1>2, Zenon

LEMMA SameChange ==
  ASSUME HistoryInv, NEW p \in Bronze, NEW q \in Bronze
  PROVE  ChangeId(q) = ChangeId(p) <=> Copy(q).lsn = Copy(p).lsn
BY CopyOK DEF ChangeId

(* One turn: of the changes seen so far a latest copy of each is kept.         *)
Latest(kept, seen) ==
    /\ kept \subseteq seen /\ OneEach(kept)
    /\ \A p \in seen : \E q \in kept :
          Copy(q).lsn = Copy(p).lsn /\ Copy(p).synced <= Copy(q).synced

LEMMA KeepOK ==
  ASSUME HistoryInv, NEW p \in Bronze, NEW seen \in SUBSET Effects, NEW kept, Latest(kept, seen)
  PROVE  Latest(Keep(kept, p), seen \cup ({p} \cap Effects))
<1> DEFINE prior == {q \in kept : ChangeId(q) = ChangeId(p)}
<1>0. seen \subseteq Bronze /\ kept \subseteq Bronze /\ kept \subseteq seen /\ OneEach(kept)
  BY DEF Effects, Latest
<1>1. \A q \in Bronze : Copy(q).synced \in Nat
  BY CopyOK, ActivityAssumption DEF Delivered, Days
<1>2. \A q \in kept : q \in prior <=> Copy(q).lsn = Copy(p).lsn
  BY <1>0, SameChange
<1>3. CASE Row(p).type \notin Effective
  <2>1. Keep(kept, p) = kept /\ {p} \cap Effects = {}
    BY <1>3 DEF Keep, Effects
  <2>2. QED
    BY <2>1
<1>4. CASE Row(p).type \in Effective /\ \A q \in prior : Copy(p).synced > Copy(q).synced
  <2>1. Keep(kept, p) = (kept \ prior) \cup {p}
    BY <1>4, Zenon DEF Keep
  <2>2. {p} \cap Effects = {p}
    BY <1>4 DEF Effects
  <2>3. \A q \in prior : Copy(q).synced <= Copy(p).synced
    BY <1>0, <1>1, <1>4
  <2> DEFINE now == (kept \ prior) \cup {p}
  <2>4. now \subseteq seen \cup {p}
    BY <1>0
  <2>5. OneEach(now)
    <3> SUFFICES ASSUME NEW x \in now, NEW y \in now, Copy(x).lsn = Copy(y).lsn PROVE x = y
      BY DEF OneEach
    <3>1. CASE x \in kept \ prior /\ y \in kept \ prior
      BY <3>1, <1>0 DEF OneEach
    <3>2. CASE x = p /\ y \in kept \ prior
      BY <3>2, <1>2
    <3>3. CASE x \in kept \ prior /\ y = p
      BY <3>3, <1>2
    <3>4. QED
      BY <3>1, <3>2, <3>3
  <2>6. ASSUME NEW r \in seen \cup {p}
        PROVE  \E q \in now : Copy(q).lsn = Copy(r).lsn /\ Copy(r).synced <= Copy(q).synced
    <3>1. CASE r = p
      <4>1. Copy(p).synced <= Copy(p).synced
        BY <1>1
      <4>2. QED
        BY <3>1, <4>1
    <3>2. CASE r \in seen
      <4>1. PICK q \in kept : Copy(q).lsn = Copy(r).lsn /\ Copy(r).synced <= Copy(q).synced
        BY <3>2 DEF Latest
      <4>2. CASE q \in prior
        <5>1. Copy(p).lsn = Copy(r).lsn
          BY <4>1, <4>2, <1>2
        <5>2. Copy(r).synced <= Copy(p).synced
          BY <4>1, <4>2, <2>3, <1>0, <1>1, <3>2
        <5>3. QED
          BY <5>1, <5>2
      <4>3. CASE q \notin prior
        BY <4>1, <4>3
      <4>4. QED
        BY <4>2, <4>3
    <3>3. QED
      BY <3>1, <3>2
  <2>7. QED
    BY <2>1, <2>2, <2>4, <2>5, <2>6 DEF Latest
<1>5. CASE Row(p).type \in Effective /\ ~ \A q \in prior : Copy(p).synced > Copy(q).synced
  <2>1. Keep(kept, p) = kept
    BY <1>5, Zenon DEF Keep
  <2>2. PICK q \in prior : ~(Copy(p).synced > Copy(q).synced)
    BY <1>5
  <2>3. q \in kept /\ Copy(q).lsn = Copy(p).lsn /\ Copy(p).synced <= Copy(q).synced
    BY <2>2, <1>0, <1>1, <1>2
  <2>4. QED
    BY <2>1, <2>3 DEF Latest
<1>6. QED
  BY <1>3, <1>4, <1>5

LEMMA BronzeFinite ==
  ASSUME HistoryInv
  PROVE  IsFiniteSet(Bronze) /\ Cardinality(Bronze) \in Nat
<1> DEFINE parts == {{t} \X (1 .. read[t]) : t \in Tables}
           f == [t \in Tables |-> {t} \X (1 .. read[t])]
<1>1. IsFiniteSet(Sources)
  <2>1. Sources = {"agent_tool_events", "agent_sessions"}
                   \cup {"watchlist_tickers", "research_notes"} \cup {"analysis_reports"}
    BY DEF Sources
  <2>2. /\ IsFiniteSet({"agent_tool_events"}) /\ IsFiniteSet({"agent_sessions"})
        /\ IsFiniteSet({"watchlist_tickers"}) /\ IsFiniteSet({"research_notes"})
        /\ IsFiniteSet({"analysis_reports"})
    BY FS_Singleton
  <2>3. /\ {"agent_tool_events", "agent_sessions"} = {"agent_tool_events"} \cup {"agent_sessions"}
        /\ {"watchlist_tickers", "research_notes"} = {"watchlist_tickers"} \cup {"research_notes"}
    OBVIOUS
  <2>4. /\ IsFiniteSet({"agent_tool_events", "agent_sessions"})
        /\ IsFiniteSet({"watchlist_tickers", "research_notes"})
    <3>1. IsFiniteSet({"agent_tool_events"} \cup {"agent_sessions"})
      BY <2>2, FS_Union
    <3>2. IsFiniteSet({"watchlist_tickers"} \cup {"research_notes"})
      BY <2>2, FS_Union
    <3>3. QED
      BY <2>3, <3>1, <3>2
  <2>5. IsFiniteSet({"agent_tool_events", "agent_sessions"}
                     \cup {"watchlist_tickers", "research_notes"})
    BY <2>4, FS_Union
  <2>6. QED
    BY <2>1, <2>2, <2>5, FS_Union
<1>2. IsFiniteSet(Tables)
  BY <1>1, ActivityAssumption, FS_Subset
<1>3. f \in Surjection(Tables, parts)
  BY DEF Surjection
<1>4. IsFiniteSet(parts)
  BY <1>2, <1>3, FS_Surjection
<1>5. ASSUME NEW p \in parts PROVE IsFiniteSet(p)
  <2>1. PICK t \in Tables : p = {t} \X (1 .. read[t])
    OBVIOUS
  <2>2. read[t] \in Nat
    BY DEF HistoryInv
  <2>3. IsFiniteSet({t}) /\ IsFiniteSet(1 .. read[t])
    <3>1. IsFiniteSet({t})
      BY FS_Singleton
    <3>2. 1 \in Int /\ read[t] \in Int
      BY <2>2
    <3>3. IsFiniteSet(1 .. read[t])
      BY <3>2, FS_Interval
    <3>4. QED
      BY <3>1, <3>3
  <2>4. QED
    BY <2>1, <2>3, FS_Product
<1>6. IsFiniteSet(Bronze)
  BY <1>4, <1>5, FS_UNION DEF Bronze
<1>7. QED
  BY <1>6, FS_CardinalityType

(* In whatever order the copies come, the loop ends with a latest one of each  *)
(* effective change: the first turn after which it had not would follow one    *)
(* after which it had.                                                         *)
LEMMA KeptOK ==
  ASSUME HistoryInv, NEW copies \in Arrivals
  PROVE  Latest(Kept(copies), Effects)
<1> DEFINE N == Cardinality(Bronze)
           L == Loop(copies)
           seen(n) == {copies[i] : i \in 1 .. n} \cap Effects
           Fine(n) == Latest(L[n], seen(n))
           Bad == {n \in 0 .. N : ~Fine(n)}
<1>1. N \in Nat /\ copies \in [1 .. N -> Bronze]
      /\ \A p \in Bronze : \E i \in 1 .. N : copies[i] = p
  BY BronzeFinite DEF Arrivals
<1> HIDE DEF N, L
<1>2. copies \in Seq(Bronze) /\ Len(copies) = N
  <2>1. copies \in Seq(Bronze)
    BY <1>1, SeqDef
  <2>2. QED
    BY <1>1, <2>1
<1>3. \A n \in 0 .. N : L[n] = KeptAt(copies, L, n)
  <2>1. LoopsTo(copies, L, N)
    BY <1>1, <1>2, LoopIs DEF L
  <2>2. QED
    BY <2>1 DEF LoopsTo
<1>4. Bad = {}
  <2> SUFFICES ASSUME Bad # {} PROVE FALSE
    OBVIOUS
  <2>1. Bad \in SUBSET Nat
    BY <1>1
  <2>2. PICK n \in Bad : \A k \in Bad : n <= k
    BY <2>1, Least
  <2>3. n \in 0 .. N /\ n \in Nat /\ ~Fine(n)
    BY <1>1, <2>2
  <2>4. CASE n = 0
    <3>1. L[0] = {} /\ seen(0) = {}
      BY <1>3, <2>3, <2>4 DEF KeptAt
    <3>2. Fine(0)
      BY <3>1 DEF Latest, OneEach
    <3>3. QED
      BY <2>3, <2>4, <3>2
  <2>5. CASE n # 0
    <3>1. n - 1 \in 0 .. N /\ ~(n <= n - 1) /\ n \in 1 .. N
      BY <1>1, <2>3, <2>5
    <3>2. Fine(n - 1)
      BY <2>2, <3>1
    <3>3. copies[n] \in Bronze
      BY <1>1, <3>1
    <3>4. L[n] = Keep(L[n - 1], copies[n])
      BY <1>3, <2>3, <2>5 DEF KeptAt
    <3>5. seen(n) = seen(n - 1) \cup ({copies[n]} \cap Effects)
      <4>1. \A i : i \in 1 .. n <=> i \in 1 .. n - 1 \/ i = n
        BY <2>3, <2>5
      <4>2. QED
        BY <4>1
    <3>6. seen(n - 1) \in SUBSET Effects
      OBVIOUS
    <3> HIDE DEF seen
    <3>7. Latest(Keep(L[n - 1], copies[n]), seen(n - 1) \cup ({copies[n]} \cap Effects))
      BY <3>2, <3>3, <3>6, KeepOK
    <3>8. QED
      BY <2>3, <3>4, <3>5, <3>7
  <2>6. QED
    BY <2>4, <2>5
<1>5. Fine(N)
  <2>1. N \in 0 .. N
    BY <1>1
  <2> HIDE DEF Fine
  <2>2. QED
    BY <1>4, <2>1
<1>6. seen(N) = Effects
  BY <1>1 DEF Effects
<1>7. QED
  BY <1>2, <1>5, <1>6 DEF Kept, L

(* So does the window of the pipeline.                                         *)
LEMMA SilverOK ==
  ASSUME HistoryInv
  PROVE  Latest(Silver, Effects)
<1>1. Silver \subseteq Effects /\ OneEach(Silver)
  BY SilverIsOneEach
<1>2. ASSUME NEW p \in Effects
      PROVE  \E q \in Silver : Copy(q).lsn = Copy(p).lsn /\ Copy(p).synced <= Copy(q).synced
  <2>1. PICK q \in Silver : Copy(q).lsn = Copy(p).lsn
    BY SilverHasAll DEF Lsns
  <2>2. p \in Bronze /\ q \in Bronze
    BY <1>1 DEF Effects
  <2>3. ChangeId(p) = ChangeId(q)
    BY <2>1, <2>2, SameChange
  <2>4. ~Outranked(p, q)
    BY <2>3 DEF Silver, Effects
  <2>5. Copy(p).synced \in Nat /\ Copy(q).synced \in Nat
    BY <2>2, CopyOK, ActivityAssumption DEF Delivered, Days
  <2>6. Copy(p).synced <= Copy(q).synced
    BY <2>4, <2>5 DEF Outranked
  <2>7. QED
    BY <2>1, <2>6
<1>3. QED
  BY <1>1, <1>2 DEF Latest

(* They may keep different copies of a change, which were delivered on one day.*)
Alike(X, Y) == /\ \A p \in X : \E q \in Y : Copy(q) = Copy(p)
               /\ \A q \in Y : \E p \in X : Copy(p) = Copy(q)

LEMMA LatestAlike ==
  ASSUME HistoryInv, NEW X, NEW Y, Latest(X, Effects), Latest(Y, Effects)
  PROVE  Alike(X, Y)
<1>1. ASSUME NEW A, NEW B, Latest(A, Effects), Latest(B, Effects), NEW p \in A
      PROVE  \E q \in B : Copy(q) = Copy(p)
  <2>1. p \in Effects /\ A \subseteq Effects /\ B \subseteq Effects /\ OneEach(A)
    BY <1>1 DEF Latest
  <2>2. PICK q \in B : Copy(q).lsn = Copy(p).lsn /\ Copy(p).synced <= Copy(q).synced
    BY <1>1, <2>1 DEF Latest
  <2>3. q \in Effects
    BY <2>1
  <2>4. PICK r \in A : Copy(r).lsn = Copy(q).lsn /\ Copy(q).synced <= Copy(r).synced
    BY <1>1, <2>3 DEF Latest
  <2>5. r = p
    BY <2>1, <2>2, <2>4 DEF OneEach
  <2>6. p \in Bronze /\ q \in Bronze
    BY <2>1, <2>3 DEF Effects
  <2>7. Copy(p) \in Delivered /\ Copy(q) \in Delivered
    BY <2>6, CopyOK
  <2>8. Copy(p).synced = Copy(q).synced
    <3>1. Copy(p).synced \in Nat /\ Copy(q).synced \in Nat
      BY <2>7, ActivityAssumption DEF Delivered, Days
    <3>2. QED
      BY <3>1, <2>2, <2>4, <2>5
  <2>9. Copy(p) = Copy(q)
    BY <2>2, <2>7, <2>8 DEF Delivered
  <2>10. QED
    BY <2>9
<1>2. QED
  BY <1>1 DEF Alike

LEMMA SameCopy ==
  ASSUME NEW p, NEW q, Copy(p) = Copy(q)
  PROVE  Row(p) = Row(q) /\ EventDay(p) = EventDay(q) /\ ActionType(p) = ActionType(q)
<1>1. Row(p) = Row(q)
  BY DEF Row
<1>2. QED
  BY <1>1 DEF EventDay, ActionType

(* Corresponding rows of sets that are alike are as many, of as many users.    *)
AlikeRows(A, B) ==
    /\ HistoryInv /\ A \subseteq Bronze /\ B \subseteq Bronze
    /\ OneEach(A) /\ OneEach(B) /\ Alike(A, B)

LEMMA AlikeCount ==
  ASSUME NEW A, NEW B, AlikeRows(A, B), NEW G \in SUBSET A, NEW H \in SUBSET B,
         \A p \in A, q \in B : Copy(p) = Copy(q) => (p \in G <=> q \in H)
  PROVE  Cardinality(G) = Cardinality(H) /\ Researchers(G) = Researchers(H)
<1>1. /\ G \in SUBSET Bronze /\ H \in SUBSET Bronze /\ OneEach(G) /\ OneEach(H) /\ HistoryInv
  BY DEF AlikeRows, OneEach
<1>2. Cardinality(G) = Cardinality(Lsns(G)) /\ Cardinality(H) = Cardinality(Lsns(H))
  BY <1>1, RowsOnce
<1>3. Alike(G, H)
  BY DEF Alike, AlikeRows
<1>4. Lsns(G) = Lsns(H)
  BY <1>3 DEF Lsns, Alike
<1>5. {Row(p).user : p \in G} = {Row(p).user : p \in H}
  BY <1>3, SameCopy DEF Alike
<1>6. QED
  BY <1>2, <1>4, <1>5 DEF Researchers

LEMMA SameCalls ==
  ASSUME NEW A, NEW B, AlikeRows(A, B), NEW d
  PROVE  /\ Cardinality(Invocations(A, d)) = Cardinality(Invocations(B, d))
         /\ Cardinality({p \in Invocations(A, d) : Row(p).user # Nobody})
              = Cardinality({p \in Invocations(B, d) : Row(p).user # Nobody})
         /\ Researchers({p \in Invocations(A, d) : Row(p).user # Nobody})
              = Researchers({p \in Invocations(B, d) : Row(p).user # Nobody})
<1> DEFINE known(rows) == {p \in Invocations(rows, d) : Row(p).user # Nobody}
<1>1. \A p \in A, q \in B : Copy(p) = Copy(q) =>
         /\ (p \in Invocations(A, d) <=> q \in Invocations(B, d))
         /\ (p \in known(A) <=> q \in known(B))
  BY SameCopy DEF Invocations
<1>2. /\ Invocations(A, d) \in SUBSET A /\ Invocations(B, d) \in SUBSET B
      /\ known(A) \in SUBSET A /\ known(B) \in SUBSET B
  BY DEF Invocations
<1> HIDE DEF known
<1>3. Cardinality(Invocations(A, d)) = Cardinality(Invocations(B, d))
  BY <1>1, <1>2, AlikeCount
<1>4. Cardinality(known(A)) = Cardinality(known(B)) /\ Researchers(known(A)) = Researchers(known(B))
  BY <1>1, <1>2, AlikeCount
<1>5. QED
  BY <1>3, <1>4 DEF known

LEMMA SameOutcomes ==
  ASSUME NEW A, NEW B, AlikeRows(A, B), NEW d, NEW status
  PROVE  With(Invocations(A, d), status) = With(Invocations(B, d), status)
<1> DEFINE with(rows) == {p \in Invocations(rows, d) : Row(p).status = status}
<1>1. \A p \in A, q \in B : Copy(p) = Copy(q) => (p \in with(A) <=> q \in with(B))
  BY SameCopy DEF Invocations
<1>2. with(A) \in SUBSET A /\ with(B) \in SUBSET B
  BY DEF Invocations
<1>3. With(Invocations(A, d), status) = Cardinality(with(A))
      /\ With(Invocations(B, d), status) = Cardinality(with(B))
  BY DEF With
<1> HIDE DEF with
<1>4. QED
  BY <1>1, <1>2, <1>3, AlikeCount

(* Whichever copies of a change are kept, the metrics are the same.            *)
LEMMA SameMetrics ==
  ASSUME NEW A, NEW B, AlikeRows(A, B)
  PROVE  Metrics(A) = Metrics(B)
<1>1. Daily(A) = Daily(B) /\ Tools(A) = Tools(B) /\ Errors(A) = Errors(B)
  <2> DEFINE known(rows, d) == {p \in Invocations(rows, d) : Row(p).user # Nobody}
  <2>1. \A d : /\ Cardinality(known(A, d)) = Cardinality(known(B, d))
               /\ Researchers(known(A, d)) = Researchers(known(B, d))
    BY SameCalls
  <2>2. \A rows : Daily(rows) =
           [d \in Days |-> [researchers |-> Researchers(known(rows, d)),
                           invocations |-> Cardinality(known(rows, d))]]
    BY DEF Daily
  <2> HIDE DEF known
  <2>3. Daily(A) = Daily(B)
    BY <2>1, <2>2
  <2>4. \A d : Cardinality(Invocations(A, d)) = Cardinality(Invocations(B, d))
    BY SameCalls
  <2>5. \A d, status : With(Invocations(A, d), status) = With(Invocations(B, d), status)
    BY SameOutcomes
  <2>6. QED
    BY <2>3, <2>4, <2>5 DEF Tools, Errors
<1>2. Watchlist(A) = Watchlist(B)
  <2> DEFINE group(rows, g) == {p \in rows : /\ Row(p).table = "watchlist_tickers"
                                             /\ EventDay(p) = g[1] /\ ActionType(p) = g[2]}
  <2>1. \A g : /\ group(A, g) \in SUBSET A /\ group(B, g) \in SUBSET B
               /\ \A p \in A, q \in B : Copy(p) = Copy(q) => (p \in group(A, g) <=> q \in group(B, g))
    BY SameCopy
  <2>2. \A rows : Watchlist(rows) = [g \in Days \X Actions |-> Cardinality(group(rows, g))]
    BY DEF Watchlist
  <2> HIDE DEF group
  <2>3. \A g : Cardinality(group(A, g)) = Cardinality(group(B, g))
    BY <2>1, AlikeCount
  <2>4. QED
    BY <2>2, <2>3
<1>3. Saves(A) = Saves(B)
  <2> DEFINE group(rows, g) == {p \in rows : /\ Row(p).table = g[2]
                                             /\ EventDay(p) = g[1] /\ ActionType(p) = g[3]}
  <2>1. \A g : /\ group(A, g) \in SUBSET A /\ group(B, g) \in SUBSET B
               /\ \A p \in A, q \in B : Copy(p) = Copy(q) => (p \in group(A, g) <=> q \in group(B, g))
    BY SameCopy
  <2>2. \A rows : Saves(rows) =
           [g \in Days \X {"research_notes", "analysis_reports"} \X Actions |->
              [changes |-> Cardinality(group(rows, g)), researchers |-> Researchers(group(rows, g))]]
    BY DEF Saves
  <2> HIDE DEF group
  <2>3. \A g : /\ Cardinality(group(A, g)) = Cardinality(group(B, g))
               /\ Researchers(group(A, g)) = Researchers(group(B, g))
    BY <2>1, AlikeCount
  <2>4. QED
    BY <2>2, <2>3
<1>4. QED
  BY <1>1, <1>2, <1>3 DEF Metrics

----------------------------------------------------------------------------
(* While an update fills gold neither silver nor its metrics move.             *)
LEMMA MetricsStay ==
  ASSUME SilverInv, [Next]_vars, UNCHANGED silver
  PROVE  Metrics(silver)' = Metrics(silver)
<1>1. \A p \in silver : Row(p)' = Row(p) /\ EventDay(p)' = EventDay(p)
                        /\ ActionType(p)' = ActionType(p)
  <2> SUFFICES ASSUME NEW p \in silver
               PROVE  Row(p)' = Row(p) /\ EventDay(p)' = EventDay(p)
                      /\ ActionType(p)' = ActionType(p)
    OBVIOUS
  <2>1. Copy(p)' = Copy(p) /\ Row(p)' = Row(p)
    BY BronzeGrows DEF SilverInv, Effects
  <2>2. QED
    BY <2>1 DEF EventDay, ActionType
<1>2. \A rows \in SUBSET silver : Researchers(rows)' = Researchers(rows)
  <2> SUFFICES ASSUME NEW rows \in SUBSET silver PROVE Researchers(rows)' = Researchers(rows)
    OBVIOUS
  <2>1. {Row(p)'.user : p \in rows} = {Row(p).user : p \in rows}
    BY <1>1
  <2>2. QED
    BY <2>1 DEF Researchers
<1>3. ASSUME NEW d
      PROVE  /\ Invocations(silver, d)' = Invocations(silver, d)
             /\ Invocations(silver, d) \subseteq silver
  BY <1>1 DEF Invocations
<1>4. Daily(silver)' = Daily(silver)
  <2> DEFINE known(d) == {p \in Invocations(silver, d) : Row(p).user # Nobody}
  <2>1. \A d : known(d)' = known(d)
    BY <1>1, <1>3
  <2>2. \A d : known(d) \in SUBSET silver
    BY <1>3
  <2>3. Daily(silver) = [d \in Days |-> [researchers |-> Researchers(known(d)),
                                         invocations |-> Cardinality(known(d))]]
    BY DEF Daily
  <2>4. Daily(silver)' = [d \in Days |-> [researchers |-> Researchers(known(d))',
                                          invocations |-> Cardinality(known(d)')]]
    BY DEF Daily
  <2> HIDE DEF known
  <2>5. \A d : Researchers(known(d))' = Researchers(known(d))
    BY <1>2, <2>1, <2>2 DEF Researchers
  <2>6. QED
    BY <2>1, <2>3, <2>4, <2>5
<1>5. \A d, status : With(Invocations(silver, d), status)' = With(Invocations(silver, d), status)
  <2> SUFFICES ASSUME NEW d, NEW status
               PROVE  With(Invocations(silver, d), status)' = With(Invocations(silver, d), status)
    OBVIOUS
  <2>1. {p \in Invocations(silver, d)' : Row(p)'.status = status}
          = {p \in Invocations(silver, d) : Row(p).status = status}
    BY <1>1, <1>3
  <2>2. QED
    BY <2>1 DEF With
<1>6. Tools(silver)' = Tools(silver) /\ Errors(silver)' = Errors(silver)
  BY <1>3, <1>5 DEF Tools, Errors
<1>7. Watchlist(silver)' = Watchlist(silver)
  <2> DEFINE group(g) == {p \in silver : /\ Row(p).table = "watchlist_tickers"
                                         /\ EventDay(p) = g[1] /\ ActionType(p) = g[2]}
  <2>1. \A g : group(g)' = group(g)
    BY <1>1
  <2>2. Watchlist(silver) = [g \in Days \X Actions |-> Cardinality(group(g))]
    BY DEF Watchlist
  <2>3. Watchlist(silver)' = [g \in Days \X Actions |-> Cardinality(group(g)')]
    BY DEF Watchlist
  <2> HIDE DEF group
  <2>4. QED
    BY <2>1, <2>2, <2>3
<1>8. Saves(silver)' = Saves(silver)
  <2> DEFINE group(g) == {p \in silver : /\ Row(p).table = g[2]
                                         /\ EventDay(p) = g[1] /\ ActionType(p) = g[3]}
  <2>1. \A g : group(g)' = group(g) /\ group(g) \in SUBSET silver
    BY <1>1
  <2>2. Saves(silver) =
           [g \in Days \X {"research_notes", "analysis_reports"} \X Actions |->
              [changes |-> Cardinality(group(g)), researchers |-> Researchers(group(g))]]
    BY DEF Saves
  <2>3. Saves(silver)' =
           [g \in Days \X {"research_notes", "analysis_reports"} \X Actions |->
              [changes |-> Cardinality(group(g)'), researchers |-> Researchers(group(g))']]
    BY DEF Saves
  <2> HIDE DEF group
  <2>4. \A g : Researchers(group(g))' = Researchers(group(g))
    BY <1>2, <2>1 DEF Researchers
  <2>5. QED
    BY <2>1, <2>2, <2>3, <2>4
<1>9. QED
  BY <1>4, <1>6, <1>7, <1>8 DEF Metrics

LEMMA SilverStays ==
  ASSUME HistoryInv, [Next]_vars, UNCHANGED read
  PROVE  Silver' = Silver
<1>1. Bronze' = Bronze
  BY DEF Bronze
<1>2. \A p \in Bronze : Copy(p)' = Copy(p) /\ Row(p)' = Row(p)
  BY BronzeGrows
<1>3. \A p, q \in Bronze : /\ ChangeId(p)' = ChangeId(p)
                           /\ Outranked(q, p)' = Outranked(q, p)
  BY <1>2 DEF ChangeId, Outranked
<1>4. QED
  BY <1>1, <1>2, <1>3 DEF Silver

(* While an update fills gold, silver is what the window takes of bronze, and   *)
(* the families already done are the metrics of silver.                        *)
Fresh == update.pc = "gold" =>
            /\ silver = Silver
            /\ \A f \in Families \ update.todo : gold[f] = Metrics(silver)[f]
FreshInv == ActivityInv /\ Fresh

LEMMA ReplacedAt ==
  ASSUME NEW g \in MetricsType, NEW f \in Families, NEW v
  PROVE  \A k \in Families : [g EXCEPT ![f] = v][k] = IF k = f THEN v ELSE g[k]
<1>1. DOMAIN g = Families
  BY DEF MetricsType, Families
<1>2. QED
  BY <1>1

LEMMA FreshStep ==
  ASSUME FreshInv, [Next]_vars
  PROVE  FreshInv'
<1>1. ActivityInv /\ SilverInv /\ HistoryInv /\ gold \in MetricsType /\ ActivityInv'
  BY ActivityStep DEF FreshInv, ActivityInv, SilverInv
<1>2. CASE RefreshSilver
  <2>1. silver' = Silver /\ update'.todo = Families /\ UNCHANGED <<wal, history, read>>
    BY <1>2 DEF RefreshSilver
  <2>2. Silver' = Silver
    BY <1>1, <2>1, SilverStays
  <2>3. QED
    BY <1>1, <2>1, <2>2 DEF FreshInv, Fresh
<1>3. CASE RefreshGold
  <2>1. /\ update.pc = "gold" /\ update.todo # {} /\ update.todo \subseteq Families
        /\ UNCHANGED <<read, silver>>
    BY <1>1, <1>3 DEF RefreshGold, HistoryInv, Updates
  <2>2. PICK f \in update.todo : /\ gold' = [gold EXCEPT ![f] = Metrics(silver)[f]]
                                 /\ update' = [update EXCEPT !.todo = update.todo \ {f}]
    BY <1>3, <2>1, Zenon DEF RefreshGold
  <2>3. Silver' = Silver /\ Metrics(silver)' = Metrics(silver)
    BY <1>1, <2>1, SilverStays, MetricsStay
  <2>4. update'.todo = update.todo \ {f}
    BY <1>1, <2>2 DEF HistoryInv, Updates
  <2>5. ASSUME NEW k \in Families \ update'.todo PROVE gold'[k] = Metrics(silver)[k]
    <3>1. gold'[k] = IF k = f THEN Metrics(silver)[f] ELSE gold[k]
      BY <1>1, <2>1, <2>2, ReplacedAt
    <3>2. k # f => gold[k] = Metrics(silver)[k]
      BY <2>1, <2>4 DEF FreshInv, Fresh
    <3>3. QED
      BY <3>1, <3>2
  <2>6. QED
    BY <1>1, <2>1, <2>3, <2>5 DEF FreshInv, Fresh
<1>4. CASE UNCHANGED <<read, silver, gold, update>>
  <2>1. Silver' = Silver /\ Metrics(silver)' = Metrics(silver)
    BY <1>1, <1>4, SilverStays, MetricsStay
  <2>2. QED
    BY <1>1, <1>4, <2>1 DEF FreshInv, Fresh
<1>5. ASSUME update'.pc # "gold" PROVE FreshInv'
  BY <1>1, <1>5 DEF FreshInv, Fresh
<1>6. ASSUME NEW t \in Tables, AppendFlow(t) PROVE update'.pc # "gold"
  <2>1. update.pc = "bronze" /\ update \in Updates
    BY <1>1, <1>6 DEF AppendFlow, HistoryInv
  <2>2. [update EXCEPT !.todo = update.todo \ {t}].pc = "bronze"
    BY <2>1 DEF Updates
  <2>3. QED
    BY <1>6, <2>2 DEF AppendFlow
<1>7. Start \/ End \/ Fail => update'.pc # "gold"
  BY DEF Start, End, Fail, Off
<1>8. ASSUME NEW input \in Inputs, Commit(input) PROVE UNCHANGED <<read, silver, gold, update>>
  BY <1>8 DEF Commit
<1>9. ASSUME NEW lsn \in DOMAIN wal, Deliver(lsn) PROVE UNCHANGED <<read, silver, gold, update>>
  BY <1>9 DEF Deliver
<1>10. NextDay \/ UNCHANGED vars => UNCHANGED <<read, silver, gold, update>>
  BY DEF NextDay, vars
<1>11. QED
  BY <1>2, <1>3, <1>4, <1>5, <1>6, <1>7, <1>8, <1>9, <1>10 DEF Next, Pipeline

LEMMA FreshInductive == Spec => []FreshInv
<1>1. Init => FreshInv
  BY ActivityInitial DEF FreshInv, Fresh, Init, Off
<1>2. FreshInv /\ [Next]_vars => FreshInv'
  BY FreshStep
<1>3. QED
  BY <1>1, <1>2, PTL DEF Spec

(* The reference counts the calls of callers who were not identified among a   *)
(* day's invocations, and is otherwise the pipeline.                           *)
LEMMA ReferenceCounts ==
  ASSUME HistoryInv, NEW rows \in SUBSET Bronze, OneEach(rows)
  PROVE  /\ \A f \in Families \ {"daily"} : ReferenceMetrics(rows)[f] = Metrics(rows)[f]
         /\ \A d \in Days :
               /\ Daily(rows)[d].researchers = ReferenceMetrics(rows).daily[d].researchers
               /\ Daily(rows)[d].invocations <= ReferenceMetrics(rows).daily[d].invocations
<1>1. ReferenceMetrics(rows).daily = ReferenceDaily(rows)
  BY DEF ReferenceMetrics, Metrics
<1>2. \A f \in Families \ {"daily"} : ReferenceMetrics(rows)[f] = Metrics(rows)[f]
  BY DEF ReferenceMetrics, Metrics, Families
<1>3. ASSUME NEW d \in Days
      PROVE  /\ Daily(rows)[d].researchers = ReferenceDaily(rows)[d].researchers
             /\ Daily(rows)[d].invocations <= ReferenceDaily(rows)[d].invocations
  <2> DEFINE calls == Invocations(rows, d)
             known == {p \in calls : Row(p).user # Nobody}
  <2>1. /\ Daily(rows)[d] = [researchers |-> Researchers(known), invocations |-> Cardinality(known)]
        /\ ReferenceDaily(rows)[d]
             = [researchers |-> Researchers(calls), invocations |-> Cardinality(calls)]
    BY DEF Daily, ReferenceDaily
  <2>2. {Row(p).user : p \in known} \ {Nobody} = {Row(p).user : p \in calls} \ {Nobody}
    OBVIOUS
  <2>3. Researchers(known) = Researchers(calls)
    BY <2>2 DEF Researchers
  <2>4. calls \in SUBSET Bronze /\ OneEach(calls) /\ known \subseteq calls
    BY DEF Invocations, OneEach
  <2> HIDE DEF calls, known
  <2>5. IsFiniteSet(calls)
    BY <2>4, RowsOnce
  <2>6. Cardinality(known) <= Cardinality(calls)
    BY <2>4, <2>5, FS_Subset
  <2>7. QED
    BY <2>1, <2>3, <2>6
<1>4. QED
  BY <1>1, <1>2, <1>3

(* For any deliveries, in any order, with any failed updates: an update that   *)
(* fills gold publishes what the reference computes from the same changes,     *)
(* whatever order it is given them in (PipelineMatchesReference).              *)
THEOREM MatchesReference == Spec => []PipelineMatchesReference
<1>1. ASSUME FreshInv, update.pc = "gold", NEW copies \in Arrivals, NEW f \in Families \ update.todo
      PROVE  LET reference == ReferenceMetrics(Kept(copies)) IN
             IF f = "daily"
             THEN \A d \in Days :
                    /\ gold.daily[d].researchers = reference.daily[d].researchers
                    /\ gold.daily[d].invocations <= reference.daily[d].invocations
             ELSE gold[f] = reference[f]
  <2> DEFINE K == Kept(copies)
  <2>1. HistoryInv /\ silver = Silver /\ gold[f] = Metrics(silver)[f]
    BY <1>1 DEF FreshInv, Fresh, ActivityInv, SilverInv
  <2>2. Latest(Silver, Effects) /\ Latest(K, Effects)
    BY <2>1, SilverOK, KeptOK
  <2>3. /\ Silver \subseteq Bronze /\ K \subseteq Bronze /\ OneEach(Silver) /\ OneEach(K)
        /\ Alike(Silver, K)
    BY <2>1, <2>2, LatestAlike DEF Latest, Effects
  <2> HIDE DEF K
  <2>4. Metrics(Silver) = Metrics(K)
    BY <2>1, <2>3, SameMetrics DEF AlikeRows
  <2>5. gold[f] = Metrics(K)[f]
    BY <2>1, <2>4
  <2>6. CASE f = "daily"
    <3>1. gold.daily = Daily(K)
      BY <2>5, <2>6 DEF Metrics
    <3>2. QED
      BY <2>1, <2>3, <2>6, <3>1, ReferenceCounts DEF K
  <2>7. CASE f # "daily"
    BY <2>1, <2>3, <2>5, <2>7, ReferenceCounts DEF K
  <2>8. QED
    BY <2>6, <2>7
<1>2. FreshInv => PipelineMatchesReference
  BY <1>1 DEF PipelineMatchesReference
<1>3. QED
  BY <1>2, FreshInductive, PTL
=============================================================================
