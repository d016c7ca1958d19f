------------------------ MODULE ServingPublishProofs ------------------------
(***************************************************************************)
(* Proofs about ServingPublish, for any readers, calls, versions and       *)
(* failures.                                                               *)
(***************************************************************************)
EXTENDS ServingPublish, TLAPS, SequenceTheorems

(* No table is ahead of what it is made from. *)
Flow ==
    /\ gold <= silver /\ silver <= landed["market"] /\ chunks <= landed["research"]
    /\ delta["market"] <= gold /\ delta["research"] <= chunks
    /\ \A d \in Tables : copy[d] <= delta[d]

(* What a publication has staged or written is between the copy that users     *)
(* read and the Delta table: it can only move the copy forward.                *)
Copying ==
    /\ publish.pc = "off" => publish = PublishOff
    /\ publish.pc \in {"stage", "lock", "replace"} => publish.todo # {}
    /\ publish.pc \in {"lock", "replace"} =>
          copy[Current] <= publish.staged /\ publish.staged <= delta[Current]
    /\ \A d \in Tables : publish.written[d] # NotWritten =>
          copy[d] <= publish.written[d] /\ publish.written[d] <= delta[d]

(* How far the data of the refresh has come at each of its tasks, and that the *)
(* jobs it started are the ones it waits for.                                  *)
Goal == refresh.goal
MergeChain ==
    /\ refresh.pc = "gold" => silver >= Goal
    /\ refresh.pc \in {"delta", "merging"} => gold >= Goal
    /\ \A d \in Tables : merge[d].pc # "off" /\ merge[d].by = "refresh" =>
          d = "market" /\ refresh.pc = "merging"
CopyChain ==
    /\ refresh.pc \in {"copy", "copying"} => delta["market"] >= Goal
    /\ refresh.pc = "done" => copy["market"] >= Goal
    /\ publish.pc # "off" /\ publish.by = "refresh" =>
          /\ refresh.pc = "copying" /\ publish.todo \subseteq {"market"}
          /\ publish.pc \in {"lock", "replace"} => publish.staged >= Goal
          /\ publish.pc = "commit" =>
                publish.written["market"] # NotWritten /\ publish.written["market"] >= Goal

Inv == TypeOK /\ Flow /\ Copying /\ MergeChain /\ CopyChain

----------------------------------------------------------------------------
LEMMA Constants ==
  /\ MergeOff \in MergeType /\ MergeOff.pc = "off"
  /\ PublishOff \in PublishType /\ PublishOff.pc = "off"
  /\ \A d \in Tables : PublishOff.written[d] = NotWritten
  /\ RefreshOff \in RefreshType /\ RefreshOff.pc = "off" /\ RefreshOff.goal = 0
  /\ Idle \in CallType /\ Idle.pc = "idle" /\ Idle.seen = Nothing
  /\ "market" \in Tables /\ "research" \in Tables
  /\ NotWritten \notin Nat
<1>1. MergeOff \in MergeType /\ MergeOff.pc = "off"
  BY DEF MergeOff, MergeType
<1>2. /\ PublishOff \in PublishType /\ PublishOff.pc = "off"
      /\ \A d \in Tables : PublishOff.written[d] = NotWritten
  BY DEF PublishOff, PublishType
<1>3. RefreshOff \in RefreshType /\ RefreshOff.pc = "off" /\ RefreshOff.goal = 0
  BY DEF RefreshOff, RefreshType
<1>4. Idle \in CallType /\ Idle.pc = "idle" /\ Idle.seen = Nothing
  <2>1. <<>> \in Seq(Tables) /\ Nothing \in [Tables -> Nat \cup {NoAnswer, NoRows}]
    BY DEF Nothing
  <2>2. QED
    BY <2>1 DEF Idle, CallType
<1>5. QED
  BY <1>1, <1>2, <1>3, <1>4, ServingAssumption DEF Tables

LEMMA BoundsOK ==
  /\ MaxFaults \in Nat /\ 0 \in 0 .. MaxFaults
  /\ Latest \in [Tables -> Nat] /\ \A d \in Tables : 0 <= Latest[d]
<1>1. MaxFaults \in Nat /\ Latest \in [Tables -> Nat]
  BY ServingAssumption
<1>2. QED
  BY <1>1

LEMMA FaultOK == ASSUME TypeOK, Fault PROVE faults' \in 0 .. MaxFaults
BY BoundsOK DEF TypeOK, Fault

(* The table a publication is at is one it has still to do. *)
LEMMA CurrentOK ==
  ASSUME publish \in PublishType, publish.todo # {}
  PROVE  Current \in publish.todo /\ Current \in Tables
BY DEF PublishType, Current, Tables

LEMMA InitInv == Init => Inv
<1> SUFFICES ASSUME Init PROVE Inv
  OBVIOUS
<1>1. TypeOK
  <2>1. /\ landed \in [Tables -> Nat] /\ \A d \in Tables : landed[d] <= Latest[d]
        /\ silver \in Nat /\ gold \in Nat /\ chunks \in Nat
        /\ delta \in [Tables -> Nat] /\ copy \in [Tables -> Nat]
    BY BoundsOK DEF Init
  <2>2. /\ merge \in [Tables -> MergeType] /\ publish \in PublishType
        /\ refresh \in RefreshType /\ faults \in 0 .. MaxFaults
    BY Constants, BoundsOK DEF Init
  <2>3. /\ call \in [Readers -> CallType]
        /\ \A r \in Readers : call[r].pc # "idle" => call[r].asks # <<>>
    BY Constants DEF Init
  <2>4. QED
    BY <2>1, <2>2, <2>3 DEF TypeOK
<1>2. Flow
  BY Constants DEF Init, Flow
<1>3. Copying
  BY Constants DEF Init, Copying
<1>4. MergeChain /\ CopyChain
  BY Constants DEF Init, MergeChain, CopyChain
<1>5. QED
  BY <1>1, <1>2, <1>3, <1>4 DEF Inv

----------------------------------------------------------------------------
(* Steps of the readers: nothing but their call changes, and perhaps faults.   *)

LEMMA ReaderSteps ==
  ASSUME Inv, UNCHANGED <<sources, delta, merge, publish, copy, refresh>>,
         faults' \in 0 .. MaxFaults, NEW r \in Readers, NEW c \in CallType,
         call' = [call EXCEPT ![r] = c], c.pc # "idle" => c.asks # <<>>
  PROVE  Inv'
<1>1. TypeOK /\ call \in [Readers -> CallType]
  BY DEF Inv, TypeOK
<1>2. call' \in [Readers -> CallType] /\ \A q \in Readers : call'[q].pc # "idle" => call'[q].asks # <<>>
  BY <1>1 DEF TypeOK
<1>3. TypeOK'
  BY <1>1, <1>2 DEF sources, TypeOK
<1>4. Flow' /\ Copying' /\ MergeChain' /\ CopyChain'
  BY DEF Inv, sources, Flow, Copying, Current, MergeChain, CopyChain, Goal
<1>5. QED
  BY <1>3, <1>4 DEF Inv

LEMMA CallOK ==
  ASSUME TypeOK, NEW r \in Readers, call[r].pc # "idle"
  PROVE  call[r] \in CallType /\ call[r].asks # <<>> /\ Table(r) \in Tables
<1>1. call[r] \in CallType /\ call[r].asks # <<>> /\ call[r].asks \in Seq(Tables)
  BY DEF TypeOK, CallType
<1>2. Head(call[r].asks) \in Tables
  BY <1>1, HeadTailProperties
<1>3. QED
  BY <1>1, <1>2 DEF Table

LEMMA NextQueryOK ==
  ASSUME Inv, UNCHANGED <<sources, delta, merge, publish, copy, refresh>>,
         faults' \in 0 .. MaxFaults, NEW r \in Readers, call[r].pc # "idle", NextQuery(r)
  PROVE  Inv'
<1>1. call[r] \in CallType /\ call[r].asks # <<>> /\ call[r].asks \in Seq(Tables)
  BY CallOK DEF Inv, CallType
<1>2. CASE Len(call[r].asks) = 1
  <2>1. call' = [call EXCEPT ![r] = Idle]
    BY <1>2 DEF NextQuery
  <2>2. QED
    BY <2>1, Constants, ReaderSteps
<1>3. CASE Len(call[r].asks) # 1
  <2>1. call' = [call EXCEPT ![r] = Following(r)]
    BY <1>3 DEF NextQuery
  <2>2. Tail(call[r].asks) \in Seq(Tables) /\ Tail(call[r].asks) # <<>>
    <3>1. /\ Len(call[r].asks) \in Nat /\ Len(call[r].asks) # 0
          /\ Tail(call[r].asks) \in Seq(Tables)
          /\ Len(Tail(call[r].asks)) = Len(call[r].asks) - 1
      BY <1>1, HeadTailProperties, EmptySeq, LenProperties
    <3>2. Len(Tail(call[r].asks)) # 0
      BY <1>3, <3>1
    <3>3. QED
      BY <3>1, <3>2, EmptySeq
  <2>3. Following(r) \in CallType /\ Following(r).asks # <<>>
    BY <1>1, <2>2 DEF Following, CallType
  <2>4. QED
    BY <2>1, <2>3, ReaderSteps
<1>4. QED
  BY <1>2, <1>3

LEMMA ReadersKeep ==
  ASSUME Inv, NEW r \in Readers,
         Begin(r) \/ Ping(r) \/ Query(r) \/ Rollback(r) \/ QueryFails(r)
  PROVE  Inv'
<1> USE DEF Inv
<1>1. TypeOK /\ faults \in 0 .. MaxFaults /\ call[r] \in CallType
  BY DEF TypeOK
<1>2. CASE Begin(r)
  <2>1. PICK asks \in Calls : call' = [call EXCEPT ![r] = [Idle EXCEPT !.pc = "ping", !.asks = asks]]
    BY <1>2 DEF Begin
  <2>2. asks \in Seq(Tables) /\ asks # <<>>
    BY ServingAssumption
  <2> DEFINE c == [Idle EXCEPT !.pc = "ping", !.asks = asks]
  <2>3. c \in CallType /\ c.asks # <<>>
    BY <2>2, Constants DEF CallType
  <2>4. call' = [call EXCEPT ![r] = c]
    BY <2>1
  <2> HIDE DEF c
  <2>5. QED
    BY <1>1, <1>2, <2>3, <2>4, ReaderSteps DEF Begin
<1>3. CASE Ping(r)
  <2> DEFINE c == [call[r] EXCEPT !.pc = "query"]
  <2>1. c \in CallType /\ c.asks # <<>>
    BY <1>1, <1>3 DEF TypeOK, CallType, Ping
  <2>2. call' = [call EXCEPT ![r] = c]
    BY <1>3 DEF Ping
  <2> HIDE DEF c
  <2>3. QED
    BY <1>1, <1>3, <2>1, <2>2, ReaderSteps DEF Ping
<1>4. CASE Query(r)
  <2>1. /\ call[r].asks # <<>> /\ Table(r) \in Tables
        /\ View(r, Table(r)) \in Nat \cup {NoAnswer, NoRows}
    BY <1>1, <1>4, CallOK DEF TypeOK, Query, View
  <2> DEFINE c == [call[r] EXCEPT !.pc = "rollback", !.seen[Table(r)] = View(r, Table(r))]
  <2>2. c \in CallType /\ c.asks = call[r].asks
    BY <1>1, <2>1 DEF CallType
  <2>3. call' = [call EXCEPT ![r] = c]
    BY <1>1, <1>4 DEF TypeOK, Query
  <2> HIDE DEF c
  <2>4. QED
    BY <1>1, <1>4, <2>1, <2>2, <2>3, ReaderSteps DEF Query
<1>5. CASE Rollback(r)
  BY <1>1, <1>5, NextQueryOK DEF Rollback
<1>6. CASE QueryFails(r)
  BY <1>1, <1>6, NextQueryOK, FaultOK DEF QueryFails
<1>7. QED
  BY <1>2, <1>3, <1>4, <1>5, <1>6

----------------------------------------------------------------------------
(* Steps of the landed files and the pipelines' tables: they only grow.        *)

SourcesGrow ==
    /\ landed' \in [Tables -> Nat]
    /\ \A d \in Tables : landed[d] <= landed'[d] /\ landed'[d] <= Latest[d]
    /\ silver' \in Nat /\ gold' \in Nat /\ chunks' \in Nat
    /\ silver <= silver' /\ gold <= gold' /\ chunks <= chunks'
    /\ gold' <= silver' /\ silver' <= landed'["market"] /\ chunks' <= landed'["research"]

LEMMA SourceSteps ==
  ASSUME Inv, SourcesGrow, UNCHANGED <<delta, merge, publish, copy, call, faults>>,
         refresh' \in RefreshType
  PROVE  TypeOK' /\ Flow' /\ Copying'
<1>1. TypeOK /\ Flow /\ Copying
  BY DEF Inv
<1>2. TypeOK'
  BY <1>1 DEF TypeOK, SourcesGrow
<1>3. delta \in [Tables -> Nat] /\ copy \in [Tables -> Nat] /\ gold \in Nat /\ chunks \in Nat
  BY <1>1 DEF TypeOK
<1>4. Flow'
  BY <1>1, <1>3, Constants DEF Flow, SourcesGrow
<1>5. Copying'
  BY <1>1 DEF Copying, Current
<1>6. QED
  BY <1>2, <1>4, <1>5

LEMMA SourcesKeep ==
  ASSUME Inv, UNCHANGED refresh, Updates \/ \E d \in Tables : Land(d)
  PROVE  Inv'
<1>1. /\ TypeOK /\ Flow /\ refresh \in RefreshType
      /\ landed \in [Tables -> Nat] /\ \A d \in Tables : landed[d] <= Latest[d]
      /\ silver \in Nat /\ gold \in Nat /\ chunks \in Nat
  BY DEF Inv, TypeOK
<1>2. SourcesGrow /\ UNCHANGED <<delta, merge, publish, copy, call, faults>>
  <2>1. CASE UpdateSilver
    BY <1>1, <2>1, Constants DEF UpdateSilver, SourcesGrow, Flow
  <2>2. CASE UpdateGold
    BY <1>1, <2>2, Constants DEF UpdateGold, SourcesGrow, Flow
  <2>3. CASE UpdateChunks
    BY <1>1, <2>3, Constants DEF UpdateChunks, SourcesGrow, Flow
  <2>4. ASSUME NEW d \in Tables, Land(d)
        PROVE  SourcesGrow /\ UNCHANGED <<delta, merge, publish, copy, call, faults>>
    <3>1. landed' = [landed EXCEPT ![d] = @ + 1] /\ landed[d] < Latest[d]
      BY <2>4 DEF Land
    <3>2. Latest[d] \in Nat
      BY BoundsOK
    <3>3. /\ landed' \in [Tables -> Nat]
          /\ \A e \in Tables : landed[e] <= landed'[e] /\ landed'[e] <= Latest[e]
      BY <1>1, <3>1, <3>2
    <3>4. /\ landed'["market"] \in Nat /\ landed["market"] <= landed'["market"]
          /\ landed'["research"] \in Nat /\ landed["research"] <= landed'["research"]
          /\ landed["market"] \in Nat /\ landed["research"] \in Nat
      BY <1>1, <3>3, Constants
    <3>5. QED
      BY <1>1, <2>4, <3>3, <3>4 DEF Land, SourcesGrow, Flow
  <2>5. QED
    BY <2>1, <2>2, <2>3, <2>4 DEF Updates
<1>3. MergeChain' /\ CopyChain'
  BY <1>1, <1>2 DEF Inv, MergeChain, CopyChain, Goal, SourcesGrow, RefreshType
<1>4. QED
  BY <1>1, <1>2, <1>3, SourceSteps DEF Inv

----------------------------------------------------------------------------
(* Steps of the jobs that MERGE. *)

LEMMA MergeSteps ==
  ASSUME Inv, UNCHANGED <<sources, publish, copy, call>>, faults' \in 0 .. MaxFaults,
         merge' \in [Tables -> MergeType], refresh' \in RefreshType,
         delta' \in [Tables -> Nat], \A d \in Tables : delta[d] <= delta'[d],
         delta'["market"] <= gold, delta'["research"] <= chunks
  PROVE  TypeOK' /\ Flow' /\ Copying'
<1>1. TypeOK /\ Flow /\ Copying
  BY DEF Inv
<1>2. TypeOK'
  BY <1>1 DEF TypeOK, sources
<1>3. delta \in [Tables -> Nat] /\ copy \in [Tables -> Nat] /\ publish \in PublishType
  BY <1>1 DEF TypeOK
<1>4. Flow'
  BY <1>1, <1>3 DEF Flow, sources
<1>5. Copying'
  <2>1. publish.pc \in {"lock", "replace"} => Current \in Tables
    BY <1>1, <1>3, CurrentOK DEF Copying
  <2>2. publish.staged \in Nat /\ publish.written \in [Tables -> Nat \cup {NotWritten}]
    BY <1>3 DEF PublishType
  <2>3. QED
    BY <1>1, <1>3, <2>1, <2>2 DEF Copying, Current
<1>6. QED
  BY <1>2, <1>4, <1>5

LEMMA SourceOK ==
  ASSUME Inv, NEW d \in Tables
  PROVE  /\ Source(d) \in Nat /\ delta[d] <= Source(d)
         /\ Source("market") = gold /\ Source("research") = chunks
BY Constants DEF Inv, TypeOK, Flow, Source, Tables

(* The attempt fails; the refresh goes with the job it waits for. *)
LEMMA AttemptFails ==
  ASSUME Inv, UNCHANGED <<sources, delta, publish, copy, call>>,
         faults' \in 0 .. MaxFaults, NEW d \in Tables, merge[d].pc # "off",
         MergeAttemptFails(d)
  PROVE  Inv'
<1>1. /\ TypeOK /\ Flow /\ merge \in [Tables -> MergeType] /\ refresh \in RefreshType
      /\ delta \in [Tables -> Nat]
  BY DEF Inv, TypeOK
<1>2. CASE merge[d].attempt = 1
  <2> DEFINE m == [merge[d] EXCEPT !.pc = "merge", !.attempt = 2]
  <2>1. merge' = [merge EXCEPT ![d] = m] /\ UNCHANGED refresh
    BY <1>1, <1>2 DEF MergeAttemptFails
  <2>2. m \in MergeType /\ m.by = merge[d].by
    BY <1>1 DEF MergeType
  <2> HIDE DEF m
  <2>3. merge' \in [Tables -> MergeType]
    BY <1>1, <2>1, <2>2
  <2>4. MergeChain' /\ CopyChain'
    BY <1>1, <2>1, <2>2 DEF Inv, MergeChain, CopyChain, Goal, sources
  <2>5. QED
    BY <1>1, <2>1, <2>3, <2>4, MergeSteps DEF Inv, Flow
<1>3. CASE merge[d].attempt # 1
  <2>1. merge' = [merge EXCEPT ![d] = MergeOff] /\ merge' \in [Tables -> MergeType]
    BY <1>1, <1>3, Constants DEF MergeAttemptFails
  <2>2. CASE merge[d].by = "refresh"
    <3>1. refresh' = RefreshOff
      BY <1>3, <2>2 DEF MergeAttemptFails
    <3>2. d = "market" /\ refresh.pc = "merging"
      BY <2>2 DEF Inv, MergeChain
    <3>3. MergeChain' /\ CopyChain'
      BY <1>1, <2>1, <3>1, <3>2, Constants DEF Inv, MergeChain, CopyChain, Goal, sources
    <3>4. QED
      BY <1>1, <2>1, <3>1, <3>3, Constants, MergeSteps DEF Inv, Flow
  <2>3. CASE merge[d].by # "refresh"
    <3>1. UNCHANGED refresh
      BY <1>3, <2>3 DEF MergeAttemptFails
    <3>2. MergeChain' /\ CopyChain'
      BY <1>1, <2>1, <3>1, Constants DEF Inv, MergeChain, CopyChain, Goal, sources
    <3>3. QED
      BY <1>1, <2>1, <3>1, <3>2, MergeSteps DEF Inv, Flow
  <2>4. QED
    BY <2>2, <2>3
<1>4. QED
  BY <1>2, <1>3

LEMMA StartMergeKeeps ==
  ASSUME Inv, NEW d \in Tables, StartMerge(d)
  PROVE  Inv'
<1>1. /\ TypeOK /\ Flow /\ merge \in [Tables -> MergeType] /\ refresh \in RefreshType
      /\ delta \in [Tables -> Nat] /\ faults \in 0 .. MaxFaults
  BY DEF Inv, TypeOK
<1> DEFINE m == [pc |-> "merge", attempt |-> 1, by |-> "hand"]
<1>2. m \in MergeType /\ m.by = "hand"
  BY DEF MergeType
<1>3. /\ merge' = [merge EXCEPT ![d] = m]
      /\ UNCHANGED <<sources, delta, publish, copy, call, refresh, faults>>
  BY DEF StartMerge, MergeBegins
<1> HIDE DEF m
<1>4. merge' \in [Tables -> MergeType]
  BY <1>1, <1>2, <1>3
<1>5. MergeChain' /\ CopyChain'
  BY <1>1, <1>2, <1>3 DEF Inv, MergeChain, CopyChain, Goal, sources
<1>6. QED
  BY <1>1, <1>3, <1>4, <1>5, MergeSteps DEF Inv, Flow

LEMMA MergeKeeps ==
  ASSUME Inv, NEW d \in Tables, Merge(d)
  PROVE  Inv'
<1>1. /\ TypeOK /\ Flow /\ merge \in [Tables -> MergeType] /\ refresh \in RefreshType
      /\ delta \in [Tables -> Nat] /\ faults \in 0 .. MaxFaults
  BY DEF Inv, TypeOK
<1> DEFINE m == [merge[d] EXCEPT !.pc = "check"]
<1>2. m \in MergeType /\ m.by = merge[d].by
  BY <1>1 DEF MergeType
<1>3. /\ merge' = [merge EXCEPT ![d] = m] /\ merge[d].pc = "merge"
      /\ delta' = [delta EXCEPT ![d] = Source(d)]
      /\ UNCHANGED <<sources, publish, copy, call, refresh, faults>>
  BY <1>1 DEF Merge
<1> HIDE DEF m
<1>4. merge' \in [Tables -> MergeType]
  BY <1>1, <1>2, <1>3
<1>5. /\ delta' \in [Tables -> Nat] /\ \A e \in Tables : delta[e] <= delta'[e]
      /\ delta'["market"] <= gold /\ delta'["research"] <= chunks
  <2>1. Source(d) \in Nat /\ delta[d] <= Source(d)
    BY SourceOK
  <2>2. d = "market" \/ d = "research"
    BY DEF Tables
  <2>3. /\ Source("market") = gold /\ Source("research") = chunks
        /\ gold \in Nat /\ chunks \in Nat
    BY <1>1, SourceOK DEF TypeOK
  <2>4. delta' \in [Tables -> Nat] /\ \A e \in Tables : delta[e] <= delta'[e]
    BY <1>1, <1>3, <2>1
  <2>5. delta'["market"] <= gold /\ delta'["research"] <= chunks
    BY <1>1, <1>3, <2>2, <2>3, Constants DEF Flow
  <2>6. QED
    BY <2>4, <2>5
<1>6. MergeChain'
  BY <1>1, <1>2, <1>3 DEF Inv, MergeChain, Goal, sources
<1>7. CopyChain'
  <2>1. refresh.goal \in Nat /\ delta["market"] \in Nat /\ delta'["market"] \in Nat
        /\ delta["market"] <= delta'["market"]
    BY <1>1, <1>5, Constants DEF RefreshType
  <2>2. QED
    BY <1>3, <2>1 DEF Inv, CopyChain, Goal
<1>8. QED
  BY <1>1, <1>3, <1>4, <1>5, <1>6, <1>7, MergeSteps DEF Inv

LEMMA CheckKeeps ==
  ASSUME Inv, NEW d \in Tables, Check(d)
  PROVE  Inv'
<1>1. /\ TypeOK /\ Flow /\ merge \in [Tables -> MergeType] /\ refresh \in RefreshType
      /\ delta \in [Tables -> Nat] /\ faults \in 0 .. MaxFaults
      /\ UNCHANGED <<sources, delta, publish, copy, call, faults>>
      /\ merge[d].pc = "check"
  BY DEF Inv, TypeOK, Check
<1>2. CASE Source(d) # delta[d]
  BY <1>1, <1>2, AttemptFails DEF Check
<1>3. CASE Source(d) = delta[d]
  <2>1. merge' = [merge EXCEPT ![d] = MergeOff] /\ merge' \in [Tables -> MergeType]
    BY <1>1, <1>3, Constants DEF Check
  <2>2. CASE merge[d].by = "refresh"
    <3>1. refresh' = [refresh EXCEPT !.pc = "copy"]
      BY <1>3, <2>2 DEF Check, RefreshTo
    <3>2. /\ refresh' \in RefreshType /\ refresh'.pc = "copy" /\ refresh'.goal = refresh.goal
      BY <1>1, <3>1 DEF RefreshType
    <3>3. d = "market" /\ refresh.pc = "merging" /\ gold >= Goal
      BY <1>1, <2>2 DEF Inv, MergeChain
    <3>4. delta["market"] >= Goal
      BY <1>3, <3>3, SourceOK
    <3>5. MergeChain'
      BY <1>1, <2>1, <3>2, <3>3, Constants DEF Inv, MergeChain, Goal, sources
    <3>6. CopyChain'
      BY <1>1, <3>2, <3>3, <3>4 DEF Inv, CopyChain, Goal
    <3>7. QED
      BY <1>1, <2>1, <3>2, <3>5, <3>6, MergeSteps DEF Inv, Flow
  <2>3. CASE merge[d].by # "refresh"
    <3>1. UNCHANGED refresh
      BY <1>3, <2>3 DEF Check
    <3>2. MergeChain' /\ CopyChain'
      BY <1>1, <2>1, <3>1, Constants DEF Inv, MergeChain, CopyChain, Goal, sources
    <3>3. QED
      BY <1>1, <2>1, <3>1, <3>2, MergeSteps DEF Inv, Flow
  <2>4. QED
    BY <2>2, <2>3
<1>4. QED
  BY <1>2, <1>3

LEMMA MergeFailsKeeps ==
  ASSUME Inv, NEW d \in Tables, MergeFails(d)
  PROVE  Inv'
BY FaultOK, AttemptFails DEF MergeFails, Inv

----------------------------------------------------------------------------
(* Steps of the publication. *)

LEMMA PublishSteps ==
  ASSUME Inv, UNCHANGED <<sources, delta, merge>>, faults' \in 0 .. MaxFaults,
         publish' \in PublishType, refresh' \in RefreshType,
         copy' \in [Tables -> Nat],
         \A d \in Tables : copy[d] <= copy'[d] /\ copy'[d] <= delta[d],
         call' \in [Readers -> CallType],
         \A r \in Readers : call'[r].pc # "idle" => call'[r].asks # <<>>
  PROVE  TypeOK' /\ Flow'
<1>1. TypeOK /\ Flow
  BY DEF Inv
<1>2. TypeOK'
  BY <1>1 DEF TypeOK, sources
<1>3. Flow'
  BY <1>1 DEF Flow, sources
<1>4. QED
  BY <1>2, <1>3

(* A step that leaves the copies and the readers alone. *)
LEMMA PublishMoves ==
  ASSUME Inv, UNCHANGED <<sources, delta, merge, copy, call>>, faults' \in 0 .. MaxFaults,
         publish' \in PublishType, refresh' \in RefreshType
  PROVE  TypeOK' /\ Flow'
<1>1. TypeOK /\ Flow
  BY DEF Inv
<1>2. TypeOK'
  BY <1>1 DEF TypeOK, sources
<1>3. Flow'
  BY <1>1 DEF Flow, sources
<1>4. QED
  BY <1>2, <1>3

(* The publication ends, with or without its commit, and the refresh that      *)
(* waits for it ends or goes on.                                               *)
LEMMA PublishEnds ==
  ASSUME Inv, UNCHANGED <<sources, delta, merge>>, faults' \in 0 .. MaxFaults,
         publish.pc # "off", publish' = PublishOff,
         copy' \in [Tables -> Nat],
         \A d \in Tables : copy[d] <= copy'[d] /\ copy'[d] <= delta[d],
         call' \in [Readers -> CallType],
         \A r \in Readers : call'[r].pc # "idle" => call'[r].asks # <<>>,
         \/ publish.by # "refresh" /\ UNCHANGED refresh
         \/ publish.by = "refresh" /\ refresh' = RefreshOff
         \/ /\ publish.by = "refresh" /\ copy'["market"] >= Goal
            /\ refresh' = [refresh EXCEPT !.pc = "done"]
  PROVE  Inv'
<1>1. /\ TypeOK /\ Flow /\ refresh \in RefreshType /\ merge \in [Tables -> MergeType]
      /\ copy \in [Tables -> Nat]
  BY DEF Inv, TypeOK
<1>2. refresh.goal \in Nat /\ copy["market"] \in Nat /\ copy'["market"] \in Nat
      /\ copy["market"] <= copy'["market"]
  BY <1>1, Constants DEF RefreshType
<1>3. Copying'
  BY Constants DEF Copying
<1>4. CASE publish.by # "refresh" /\ UNCHANGED refresh
  <2>1. MergeChain'
    BY <1>1, <1>4 DEF Inv, MergeChain, Goal, sources
  <2>2. CopyChain'
    BY <1>2, <1>4, Constants DEF Inv, CopyChain, Goal
  <2>3. QED
    BY <1>1, <1>3, <1>4, <2>1, <2>2, Constants, PublishSteps DEF Inv
<1>5. CASE publish.by = "refresh" /\ refresh' = RefreshOff
  <2>1. refresh.pc = "copying"
    BY <1>5 DEF Inv, CopyChain
  <2>2. MergeChain' /\ CopyChain'
    BY <1>1, <1>5, <2>1, Constants DEF Inv, MergeChain, CopyChain, Goal, sources
  <2>3. QED
    BY <1>1, <1>3, <1>5, <2>2, Constants, PublishSteps DEF Inv
<1>6. CASE /\ publish.by = "refresh" /\ copy'["market"] >= Goal
           /\ refresh' = [refresh EXCEPT !.pc = "done"]
  <2>1. refresh.pc = "copying"
    BY <1>6 DEF Inv, CopyChain
  <2>2. refresh' \in RefreshType /\ refresh'.pc = "done" /\ refresh'.goal = refresh.goal
    BY <1>1, <1>6 DEF RefreshType
  <2>3. MergeChain' /\ CopyChain'
    BY <1>1, <1>6, <2>1, <2>2, Constants DEF Inv, MergeChain, CopyChain, Goal, sources
  <2>4. QED
    BY <1>1, <1>3, <2>2, <2>3, Constants, PublishSteps DEF Inv
<1>7. QED
  BY <1>4, <1>5, <1>6

(* What a commit makes visible is newer than what was there. *)
LEMMA VisibleOK ==
  ASSUME Inv, Visible
  PROVE  /\ copy' \in [Tables -> Nat]
         /\ \A d \in Tables : copy[d] <= copy'[d] /\ copy'[d] <= delta[d]
         /\ \A d \in Tables : publish.written[d] # NotWritten => copy'[d] = publish.written[d]
         /\ call' \in [Readers -> CallType]
         /\ \A r \in Readers : call'[r].pc = call[r].pc /\ call'[r].asks = call[r].asks
                               /\ call'[r].seen = call[r].seen
<1>1. /\ copy \in [Tables -> Nat] /\ delta \in [Tables -> Nat]
      /\ publish.written \in [Tables -> Nat \cup {NotWritten}]
      /\ call \in [Readers -> CallType]
  BY DEF Inv, TypeOK, PublishType
<1>2. \A d \in Tables : copy'[d] = IF publish.written[d] = NotWritten
                                   THEN copy[d] ELSE publish.written[d]
  BY DEF Visible
<1>3. \A d \in Tables : copy'[d] \in Nat
  BY <1>1, <1>2
<1>4. copy' \in [Tables -> Nat]
  BY <1>3 DEF Visible
<1>5. \A d \in Tables : copy[d] <= copy'[d] /\ copy'[d] <= delta[d]
  BY <1>1, <1>2 DEF Inv, Flow, Copying
<1>6. ASSUME NEW r \in Readers
      PROVE  /\ call'[r] \in CallType /\ call'[r].pc = call[r].pc
             /\ call'[r].asks = call[r].asks /\ call'[r].seen = call[r].seen
  <2> DEFINE b == call[r].replaced \/ (call[r].pc = "query"
                                       /\ publish.written[Table(r)] # NotWritten)
  <2>1. call'[r] = [call[r] EXCEPT !.replaced = b] /\ b \in BOOLEAN
    BY DEF Visible
  <2> HIDE DEF b
  <2>2. QED
    BY <1>1, <2>1 DEF CallType
<1>7. call' \in [Readers -> CallType]
  BY <1>6 DEF Visible
<1>8. QED
  BY <1>2, <1>4, <1>5, <1>6, <1>7

LEMMA CommitsKeep ==
  ASSUME Inv, Commit \/ CommitUnseen
  PROVE  Inv'
<1>1. /\ publish.pc = "commit" /\ Visible /\ publish' = PublishOff
      /\ UNCHANGED <<sources, delta, merge>> /\ faults' \in 0 .. MaxFaults
  BY FaultOK DEF Inv, TypeOK, Commit, CommitUnseen
<1>2. /\ copy' \in [Tables -> Nat]
      /\ \A d \in Tables : copy[d] <= copy'[d] /\ copy'[d] <= delta[d]
      /\ call' \in [Readers -> CallType]
      /\ \A r \in Readers : call'[r].pc # "idle" => call'[r].asks # <<>>
  BY <1>1, VisibleOK DEF Inv, TypeOK
<1>3. publish.by = "refresh" => copy'["market"] >= Goal
  BY <1>1, VisibleOK, Constants DEF Inv, CopyChain
<1>4. CASE Commit
  <2>1. \/ publish.by # "refresh" /\ UNCHANGED refresh
        \/ publish.by = "refresh" /\ refresh' = [refresh EXCEPT !.pc = "done"]
    BY <1>4 DEF Commit, RefreshTo
  <2>2. QED
    BY <1>1, <1>2, <1>3, <2>1, PublishEnds
<1>5. CASE CommitUnseen
  <2>1. \/ publish.by # "refresh" /\ UNCHANGED refresh
        \/ publish.by = "refresh" /\ refresh' = RefreshOff
    BY <1>5 DEF CommitUnseen, RunFails
  <2>2. QED
    BY <1>1, <1>2, <2>1, PublishEnds
<1>6. QED
  BY <1>4, <1>5

LEMMA PublishFailsKeeps ==
  ASSUME Inv, PublishFails
  PROVE  Inv'
<1>1. /\ publish.pc # "off" /\ publish' = PublishOff /\ faults' \in 0 .. MaxFaults
      /\ UNCHANGED <<sources, delta, merge, copy, call>>
  BY FaultOK DEF Inv, PublishFails
<1>2. \/ publish.by # "refresh" /\ UNCHANGED refresh
      \/ publish.by = "refresh" /\ refresh' = RefreshOff
  BY DEF PublishFails, RunFails
<1>3. /\ copy' \in [Tables -> Nat]
      /\ \A d \in Tables : copy[d] <= copy'[d] /\ copy'[d] <= delta[d]
      /\ call' \in [Readers -> CallType]
      /\ \A r \in Readers : call'[r].pc # "idle" => call'[r].asks # <<>>
  BY <1>1 DEF Inv, TypeOK, Flow
<1>4. QED
  BY <1>1, <1>2, <1>3, PublishEnds

LEMMA StartPublishKeeps ==
  ASSUME Inv, StartPublish
  PROVE  Inv'
<1>1. PICK selection \in Selections : PublishBegins(selection, "hand")
  BY DEF StartPublish
<1>2. /\ publish.pc = "off" /\ selection \in SUBSET Tables /\ selection # {}
      /\ publish' = [PublishOff EXCEPT !.pc = "stage", !.todo = selection, !.by = "hand"]
      /\ UNCHANGED <<sources, delta, merge, copy, call, refresh, faults>>
  BY <1>1 DEF StartPublish, PublishBegins, Selections, Tables
<1>3. /\ publish' \in PublishType /\ publish'.pc = "stage" /\ publish'.todo = selection
      /\ publish'.by = "hand" /\ \A d \in Tables : publish'.written[d] = NotWritten
  BY <1>2, Constants DEF PublishType
<1>4. TypeOK' /\ Flow'
  BY <1>2, <1>3, PublishMoves DEF Inv, TypeOK
<1>5. Copying'
  BY <1>2, <1>3 DEF Copying
<1>6. MergeChain' /\ CopyChain'
  BY <1>2, <1>3 DEF Inv, MergeChain, CopyChain, Goal, sources
<1>7. QED
  BY <1>4, <1>5, <1>6 DEF Inv

(* When the publication of the refresh is at a table, the table is the market's. *)
LEMMA RefreshCurrent ==
  ASSUME Inv, publish.pc \in {"stage", "lock", "replace"}, publish.by = "refresh"
  PROVE  Current = "market" /\ publish.todo = {"market"}
BY DEF Inv, Copying, CopyChain, Current

LEMMA StageKeeps ==
  ASSUME Inv, Stage
  PROVE  Inv'
<1>1. /\ TypeOK /\ publish \in PublishType /\ delta \in [Tables -> Nat]
      /\ publish.todo # {} /\ Current \in Tables
  BY CurrentOK DEF Inv, TypeOK, Copying, Stage
<1>2. /\ publish.pc = "stage" /\ publish' = [publish EXCEPT !.pc = "lock", !.staged = delta[Current]]
      /\ UNCHANGED <<sources, delta, merge, copy, call, refresh, faults>>
  BY DEF Stage
<1>3. /\ publish' \in PublishType /\ publish'.pc = "lock" /\ publish'.staged = delta[Current]
      /\ publish'.todo = publish.todo /\ publish'.by = publish.by
      /\ publish'.written = publish.written
  BY <1>1, <1>2 DEF PublishType
<1>4. Current' = Current
  BY <1>3 DEF Current
<1>5. TypeOK' /\ Flow'
  BY <1>2, <1>3, PublishMoves DEF Inv, TypeOK
<1>6. Copying'
  <2>1. copy[Current] <= delta[Current] /\ delta[Current] \in Nat
    BY <1>1 DEF Inv, Flow
  <2>2. QED
    BY <1>1, <1>2, <1>3, <1>4, <2>1 DEF Inv, Copying
<1>7. MergeChain'
  BY <1>2 DEF Inv, MergeChain, Goal, sources
<1>8. CopyChain'
  <2>1. publish.by = "refresh" => Current = "market" /\ delta["market"] >= Goal
    BY <1>2, RefreshCurrent DEF Inv, CopyChain
  <2>2. QED
    BY <1>2, <1>3, <2>1 DEF Inv, CopyChain, Goal
<1>9. QED
  BY <1>5, <1>6, <1>7, <1>8 DEF Inv

LEMMA LockKeeps ==
  ASSUME Inv, Lock
  PROVE  Inv'
<1>1. TypeOK /\ publish \in PublishType
  BY DEF Inv, TypeOK
<1>2. /\ publish.pc = "lock" /\ publish' = [publish EXCEPT !.pc = "replace"]
      /\ UNCHANGED <<sources, delta, merge, copy, call, refresh, faults>>
  BY DEF Lock
<1>3. /\ publish' \in PublishType /\ publish'.pc = "replace" /\ publish'.staged = publish.staged
      /\ publish'.todo = publish.todo /\ publish'.by = publish.by
      /\ publish'.written = publish.written
  BY <1>1, <1>2 DEF PublishType
<1>4. Current' = Current
  BY <1>3 DEF Current
<1>5. TypeOK' /\ Flow'
  BY <1>2, <1>3, PublishMoves DEF Inv, TypeOK
<1>6. Copying'
  BY <1>2, <1>3, <1>4 DEF Inv, Copying
<1>7. MergeChain' /\ CopyChain'
  BY <1>2, <1>3 DEF Inv, MergeChain, CopyChain, Goal, sources
<1>8. QED
  BY <1>5, <1>6, <1>7 DEF Inv

LEMMA ReplaceKeeps ==
  ASSUME Inv, Replace
  PROVE  Inv'
<1> DEFINE W == [publish.written EXCEPT ![Current] = publish.staged]
           pc == IF publish.todo = {Current} THEN "commit" ELSE "stage"
<1>1. /\ TypeOK /\ publish \in PublishType /\ Current \in Tables
      /\ Current \in publish.todo /\ publish.staged \in Nat /\ publish.pc = "replace"
      /\ publish.written \in [Tables -> Nat \cup {NotWritten}]
      /\ UNCHANGED <<sources, delta, merge, copy, call, refresh, faults>>
  BY CurrentOK DEF Inv, TypeOK, Copying, Replace, PublishType
<1>2. /\ W \in [Tables -> Nat \cup {NotWritten}] /\ W[Current] = publish.staged
      /\ \A d \in Tables : d # Current => W[d] = publish.written[d]
  BY <1>1
<1>3. /\ publish' \in PublishType /\ publish'.pc = pc /\ publish'.staged = 0
      /\ publish'.todo = publish.todo \ {Current} /\ publish'.by = publish.by
      /\ publish'.written = W
  <2>1. publish' = [publish EXCEPT !.written = W, !.todo = publish.todo \ {Current},
                                   !.staged = 0, !.pc = pc]
    BY <1>1 DEF Replace, PublishType
  <2>2. publish.todo \ {Current} \in SUBSET Tables /\ pc \in {"commit", "stage"} /\ 0 \in Nat
    BY <1>1 DEF PublishType
  <2> HIDE DEF W, pc
  <2>3. QED
    BY <1>1, <1>2, <2>1, <2>2 DEF PublishType
<1>4. TypeOK' /\ Flow'
  BY <1>1, <1>3, PublishMoves DEF Inv, TypeOK
<1>5. Copying'
  <2>1. copy[Current] <= publish.staged /\ publish.staged <= delta[Current]
    BY <1>1 DEF Inv, Copying
  <2>2. \A d \in Tables : W[d] # NotWritten => copy[d] <= W[d] /\ W[d] <= delta[d]
    BY <1>1, <1>2, <2>1 DEF Inv, Copying
  <2>3. pc = "stage" => publish.todo \ {Current} # {}
    BY <1>1
  <2>4. pc \in {"commit", "stage"}
    OBVIOUS
  <2> HIDE DEF W, pc
  <2>5. QED
    BY <1>1, <1>3, <2>2, <2>3, <2>4 DEF Copying
<1>6. MergeChain'
  BY <1>1 DEF Inv, MergeChain, Goal, sources
<1>7. CopyChain'
  <2>1. publish.by = "refresh" =>
           /\ pc = "commit" /\ W["market"] = publish.staged
           /\ publish.staged >= Goal /\ publish.staged # NotWritten
    BY <1>1, <1>2, RefreshCurrent, Constants DEF Inv, CopyChain
  <2>2. pc \in {"commit", "stage"}
    OBVIOUS
  <2> HIDE DEF W, pc
  <2>3. QED
    BY <1>1, <1>3, <2>1, <2>2 DEF Inv, CopyChain, Goal
<1>8. QED
  BY <1>4, <1>5, <1>6, <1>7 DEF Inv

----------------------------------------------------------------------------
(* Steps of the refresh. *)

(* A step from a task that runs no job, or to no task, changes no job. *)
LEMMA RefreshMoves ==
  ASSUME Inv, UNCHANGED <<sources, delta, merge, publish, copy, call>>,
         faults' \in 0 .. MaxFaults, refresh.pc \notin {"merging", "copying"},
         refresh' \in RefreshType,
         refresh'.pc \in {"off", "land"}
  PROVE  Inv'
<1>1. TypeOK /\ Flow
  BY DEF Inv
<1>2. TypeOK'
  BY <1>1 DEF TypeOK, sources
<1>3. Flow' /\ Copying'
  BY DEF Inv, Flow, Copying, Current, sources
<1>4. MergeChain' /\ CopyChain'
  BY DEF Inv, MergeChain, CopyChain, Goal, sources
<1>5. QED
  BY <1>2, <1>3, <1>4 DEF Inv

LEMMA StartRefreshKeeps ==
  ASSUME Inv, StartRefresh
  PROVE  Inv'
<1>1. refresh' \in RefreshType /\ refresh'.pc = "land"
  BY DEF StartRefresh, RefreshType
<1>2. QED
  BY <1>1, RefreshMoves DEF StartRefresh, Inv, TypeOK

LEMMA RefreshFailsKeeps ==
  ASSUME Inv, RefreshFails
  PROVE  Inv'
BY Constants, FaultOK, RefreshMoves DEF RefreshFails, Inv

(* The first tasks: landing and the pipeline. *)
LEMMA RefreshPipelineKeeps ==
  ASSUME Inv, RefreshLands \/ RefreshSilver \/ RefreshGold
  PROVE  Inv'
<1>1. /\ TypeOK /\ Flow /\ refresh \in RefreshType /\ refresh.goal \in Nat
      /\ landed \in [Tables -> Nat] /\ \A d \in Tables : landed[d] <= Latest[d]
      /\ silver \in Nat /\ gold \in Nat /\ chunks \in Nat
  BY DEF Inv, TypeOK, RefreshType
<1>2. landed["market"] \in Nat /\ landed["research"] \in Nat
  BY <1>1, Constants
<1>3. /\ refresh.pc \in {"land", "silver", "gold"}
      /\ UNCHANGED <<delta, merge, publish, copy, call, faults>>
  BY DEF RefreshLands, RefreshSilver, RefreshGold
<1>4. CASE RefreshLands
  <2>1. PICK v \in landed["market"] .. Latest["market"] : landed' = [landed EXCEPT !["market"] = v]
    BY <1>4 DEF RefreshLands
  <2>2. Latest["market"] \in Nat
    BY BoundsOK, Constants
  <2>3. v \in Nat /\ landed["market"] <= v /\ v <= Latest["market"]
    BY <1>2, <2>1, <2>2
  <2>4. /\ landed' \in [Tables -> Nat] /\ landed'["market"] = v
        /\ \A d \in Tables : landed[d] <= landed'[d] /\ landed'[d] <= Latest[d]
        /\ landed'["research"] = landed["research"]
    BY <1>1, <2>1, <2>3, Constants
  <2>5. SourcesGrow
    BY <1>1, <1>2, <1>4, <2>3, <2>4 DEF RefreshLands, SourcesGrow, Flow
  <2>6. refresh' \in RefreshType /\ refresh'.pc = "silver"
    BY <1>1, <1>4 DEF RefreshLands, RefreshTo, RefreshType
  <2>7. MergeChain' /\ CopyChain'
    BY <1>3, <2>6 DEF Inv, MergeChain, CopyChain, Goal
  <2>8. QED
    BY <1>3, <2>5, <2>6, <2>7, SourceSteps DEF Inv
<1>5. CASE RefreshSilver
  <2>1. SourcesGrow
    BY <1>1, <1>2, <1>5 DEF RefreshSilver, SourcesGrow, Flow
  <2>2. refresh' \in RefreshType /\ refresh'.pc = "gold" /\ refresh'.goal = silver'
    BY <1>2, <1>5 DEF RefreshSilver, RefreshType
  <2>3. silver' \in Nat
    BY <2>1 DEF SourcesGrow
  <2>4. MergeChain' /\ CopyChain'
    BY <1>3, <2>2, <2>3 DEF Inv, MergeChain, CopyChain, Goal
  <2>5. QED
    BY <1>3, <2>1, <2>2, <2>4, SourceSteps DEF Inv
<1>6. CASE RefreshGold
  <2>1. SourcesGrow
    BY <1>1, <1>2, <1>6 DEF RefreshGold, SourcesGrow, Flow
  <2>2. /\ refresh.pc = "gold" /\ refresh' \in RefreshType /\ refresh'.pc = "delta"
        /\ refresh'.goal = refresh.goal /\ gold' = silver
    BY <1>1, <1>6 DEF RefreshGold, RefreshTo, RefreshType
  <2>3. MergeChain' /\ CopyChain'
    BY <1>3, <2>2 DEF Inv, MergeChain, CopyChain, Goal
  <2>4. QED
    BY <1>3, <2>1, <2>2, <2>3, SourceSteps DEF Inv
<1>7. QED
  BY <1>4, <1>5, <1>6

LEMMA RefreshDeltaKeeps ==
  ASSUME Inv, RefreshDelta
  PROVE  Inv'
<1>1. /\ TypeOK /\ Flow /\ refresh \in RefreshType /\ merge \in [Tables -> MergeType]
      /\ delta \in [Tables -> Nat] /\ faults \in 0 .. MaxFaults /\ refresh.pc = "delta"
      /\ UNCHANGED <<sources, delta, publish, copy, call, faults>>
  BY DEF Inv, TypeOK, RefreshDelta
<1>2. CASE merge["market"].pc # "off"
  BY <1>1, <1>2, Constants, RefreshMoves DEF RefreshDelta
<1>3. CASE merge["market"].pc = "off"
  <2> DEFINE m == [pc |-> "merge", attempt |-> 1, by |-> "refresh"]
  <2>1. /\ merge' = [merge EXCEPT !["market"] = m] /\ m \in MergeType
        /\ refresh' = [refresh EXCEPT !.pc = "merging"]
    BY <1>3 DEF RefreshDelta, MergeBegins, RefreshTo, MergeType
  <2> HIDE DEF m
  <2>2. /\ merge' \in [Tables -> MergeType]
        /\ \A d \in Tables : d # "market" => merge'[d] = merge[d]
    BY <1>1, <2>1
  <2>3. /\ refresh' \in RefreshType /\ refresh'.pc = "merging" /\ refresh'.goal = refresh.goal
    BY <1>1, <2>1 DEF RefreshType
  <2>4. MergeChain' /\ CopyChain'
    BY <1>1, <2>2, <2>3 DEF Inv, MergeChain, CopyChain, Goal, sources
  <2>5. QED
    BY <1>1, <2>2, <2>3, <2>4, MergeSteps DEF Inv, Flow
<1>4. QED
  BY <1>2, <1>3

LEMMA RefreshCopyKeeps ==
  ASSUME Inv, RefreshCopy
  PROVE  Inv'
<1>1. /\ TypeOK /\ Flow /\ refresh \in RefreshType
      /\ faults \in 0 .. MaxFaults /\ refresh.pc = "copy"
      /\ UNCHANGED <<sources, delta, merge, copy, call, faults>>
  BY DEF Inv, TypeOK, RefreshCopy
<1>2. CASE publish.pc # "off"
  BY <1>1, <1>2, Constants, RefreshMoves DEF RefreshCopy
<1>3. CASE publish.pc = "off"
  <2>1. /\ publish' = [PublishOff EXCEPT !.pc = "stage", !.todo = {"market"}, !.by = "refresh"]
        /\ refresh' = [refresh EXCEPT !.pc = "copying"]
    BY <1>3 DEF RefreshCopy, PublishBegins, RefreshTo
  <2>2. /\ publish' \in PublishType /\ publish'.pc = "stage" /\ publish'.todo = {"market"}
        /\ \A d \in Tables : publish'.written[d] = NotWritten
    BY <2>1, Constants DEF PublishType
  <2>3. /\ refresh' \in RefreshType /\ refresh'.pc = "copying" /\ refresh'.goal = refresh.goal
    BY <1>1, <2>1 DEF RefreshType
  <2>4. TypeOK' /\ Flow'
    BY <1>1, <2>2, <2>3, PublishMoves
  <2>5. Copying'
    BY <2>2 DEF Copying
  <2>6. MergeChain'
    BY <1>1, <2>3 DEF Inv, MergeChain, Goal, sources
  <2>7. CopyChain'
    BY <1>1, <2>2, <2>3 DEF Inv, CopyChain, Goal
  <2>8. QED
    BY <2>4, <2>5, <2>6, <2>7 DEF Inv
<1>4. QED
  BY <1>2, <1>3

----------------------------------------------------------------------------
LEMMA NextKeeps == Inv /\ [Next]_vars => Inv'
<1> SUFFICES ASSUME Inv, [Next]_vars PROVE Inv'
  OBVIOUS
<1>1. CASE UNCHANGED vars
  BY <1>1 DEF vars, Inv, TypeOK, Flow, Copying, Current, MergeChain, CopyChain, Goal
<1>2. CASE Starts
  <2>1. CASE StartPublish
    BY <2>1, StartPublishKeeps
  <2>2. CASE StartRefresh
    BY <2>2, StartRefreshKeeps
  <2>3. ASSUME NEW d \in Tables, Land(d) PROVE Inv'
    BY <2>3, SourcesKeep DEF Land
  <2>4. ASSUME NEW d \in Tables, StartMerge(d) PROVE Inv'
    BY <2>4, StartMergeKeeps
  <2>5. ASSUME NEW r \in Readers, Begin(r) PROVE Inv'
    BY <2>5, ReadersKeep
  <2>6. QED
    BY <1>2, <2>1, <2>2, <2>3, <2>4, <2>5 DEF Starts
<1>3. CASE Updates
  BY <1>3, SourcesKeep DEF Updates, UpdateSilver, UpdateGold, UpdateChunks
<1>4. CASE Merging
  BY <1>4, MergeKeeps, CheckKeeps DEF Merging
<1>5. CASE Publishing
  BY <1>5, StageKeeps, LockKeeps, ReplaceKeeps, CommitsKeep DEF Publishing
<1>6. CASE Refreshing
  BY <1>6, RefreshPipelineKeeps, RefreshDeltaKeeps, RefreshCopyKeeps DEF Refreshing
<1>7. CASE Failures
  <2>1. CASE PublishFails
    BY <2>1, PublishFailsKeeps
  <2>2. CASE CommitUnseen
    BY <2>2, CommitsKeep
  <2>3. CASE RefreshFails
    BY <2>3, RefreshFailsKeeps
  <2>4. ASSUME NEW d \in Tables, MergeFails(d) PROVE Inv'
    BY <2>4, MergeFailsKeeps
  <2>5. ASSUME NEW r \in Readers, QueryFails(r) PROVE Inv'
    BY <2>5, ReadersKeep
  <2>6. QED
    BY <1>7, <2>1, <2>2, <2>3, <2>4, <2>5 DEF Failures
<1>8. ASSUME NEW r \in Readers, Ping(r) \/ Query(r) \/ Rollback(r) PROVE Inv'
  BY <1>8, ReadersKeep
<1>9. QED
  BY <1>1, <1>2, <1>3, <1>4, <1>5, <1>6, <1>7, <1>8 DEF Next

LEMMA Invariance == Spec => []Inv
BY InitInv, NextKeeps, PTL DEF Spec

(* Every variable keeps its type: no job tries a MERGE a third time, and no    *)
(* call runs without a query to make.                                          *)
THEOREM TypeCorrect == Spec => []TypeOK
<1>1. Inv => TypeOK
  BY DEF Inv
<1>2. QED
  BY <1>1, Invariance, PTL

(* A daily refresh that reports success has brought to the users what had      *)
(* landed when its pipeline ran, for any jobs by hand, any readers and any     *)
(* failures: the chain of market_daily_refresh.job.yml needs no lock between   *)
(* its tasks.                                                                  *)
THEOREM RefreshDeliversAlways == Spec => []RefreshDelivers
<1>1. Inv => RefreshDelivers
  BY DEF Inv, CopyChain, RefreshDelivers, Goal
<1>2. QED
  BY <1>1, Invariance, PTL

----------------------------------------------------------------------------
(* The copies are those of ServedCopies. *)

seenOf == [r \in Readers |-> call[r].seen]

LEMMA InitRefines == Init => Promise!Init
BY Constants DEF Init, Promise!Init, Promise!Nothing, Nothing

(* A step of a reader r that leaves its call as c. *)
LEMMA SeenSteps ==
  ASSUME NEW r \in Readers, NEW c, call \in [Readers -> CallType],
         call' = [call EXCEPT ![r] = c]
  PROVE  seenOf' = [seenOf EXCEPT ![r] = c.seen]
BY DEF seenOf

LEMMA AnswersRefine ==
  ASSUME Inv, Isolation = "read committed", NEW r \in Readers, Query(r)
  PROVE  Promise!Next
<1>1. call \in [Readers -> CallType] /\ call[r] \in CallType /\ Table(r) \in Tables
  BY CallOK DEF Inv, TypeOK, Query
<1>2. View(r, Table(r)) = copy[Table(r)]
  BY DEF View
<1> DEFINE c == [call[r] EXCEPT !.pc = "rollback", !.seen[Table(r)] = copy[Table(r)]]
<1>3. call' = [call EXCEPT ![r] = c] /\ UNCHANGED copy
  BY <1>1, <1>2 DEF Query
<1>4. c.seen = [seenOf[r] EXCEPT ![Table(r)] = copy[Table(r)]]
  BY <1>1 DEF CallType, seenOf
<1> HIDE DEF c
<1>5. seenOf' = [seenOf EXCEPT ![r] = c.seen]
  BY <1>1, <1>3, SeenSteps
<1>6. seenOf' = [seenOf EXCEPT ![r][Table(r)] = copy[Table(r)]]
  BY <1>4, <1>5
<1>7. PICK d \in Tables : d = Table(r)
  BY <1>1
<1>8. Promise!Answer(r, d)
  BY <1>3, <1>6, <1>7 DEF Promise!Answer, seenOf
<1>9. QED
  BY <1>8 DEF Promise!Next

LEMMA NextQueryRefines ==
  ASSUME Inv, NEW r \in Readers, NextQuery(r), UNCHANGED copy
  PROVE  Promise!Next \/ UNCHANGED Promise!vars
<1>1. call \in [Readers -> CallType] /\ call[r] \in CallType
  BY DEF Inv, TypeOK
<1>2. CASE Len(call[r].asks) = 1
  <2>1. seenOf' = [seenOf EXCEPT ![r] = Nothing]
    BY <1>1, <1>2, SeenSteps, Constants DEF NextQuery
  <2>2. Promise!Ask(r)
    BY <2>1 DEF Promise!Ask, Promise!Nothing, Nothing, seenOf
  <2>3. QED
    BY <2>2 DEF Promise!Next
<1>3. CASE Len(call[r].asks) # 1
  <2>1. Following(r).seen = call[r].seen
    BY <1>1 DEF Following, CallType
  <2>2. seenOf' = [seenOf EXCEPT ![r] = call[r].seen]
    BY <1>1, <1>3, <2>1, SeenSteps DEF NextQuery
  <2>3. seenOf' = seenOf
    BY <2>2 DEF seenOf
  <2>4. QED
    BY <2>3 DEF Promise!vars, seenOf
<1>4. QED
  BY <1>2, <1>3

LEMMA ReadersRefine ==
  ASSUME Inv, NEW r \in Readers, Begin(r) \/ Ping(r) \/ Rollback(r) \/ QueryFails(r)
  PROVE  Promise!Next \/ UNCHANGED Promise!vars
<1>1. call \in [Readers -> CallType] /\ call[r] \in CallType
  BY DEF Inv, TypeOK
<1>2. CASE Begin(r)
  <2>1. PICK asks \in Calls : call' = [call EXCEPT ![r] = [Idle EXCEPT !.pc = "ping", !.asks = asks]]
    BY <1>2 DEF Begin
  <2> DEFINE c == [Idle EXCEPT !.pc = "ping", !.asks = asks]
  <2>2. call' = [call EXCEPT ![r] = c] /\ c.seen = Nothing
    BY <2>1, Constants DEF CallType
  <2> HIDE DEF c
  <2>3. seenOf' = [seenOf EXCEPT ![r] = Nothing]
    BY <1>1, <2>2, SeenSteps
  <2>4. Promise!Ask(r)
    BY <1>2, <2>3 DEF Promise!Ask, Promise!Nothing, Nothing, seenOf, Begin
  <2>5. QED
    BY <2>4 DEF Promise!Next
<1>3. CASE Ping(r)
  <2> DEFINE c == [call[r] EXCEPT !.pc = "query"]
  <2>1. call' = [call EXCEPT ![r] = c] /\ c.seen = call[r].seen
    BY <1>1, <1>3 DEF Ping, CallType
  <2> HIDE DEF c
  <2>2. seenOf' = seenOf
    BY <1>1, <2>1, SeenSteps DEF seenOf
  <2>3. QED
    BY <1>3, <2>2 DEF Promise!vars, seenOf, Ping
<1>4. CASE Rollback(r)
  BY <1>4, NextQueryRefines DEF Rollback
<1>5. CASE QueryFails(r)
  BY <1>5, NextQueryRefines DEF QueryFails
<1>6. QED
  BY <1>2, <1>3, <1>4, <1>5

LEMMA CommitsRefine ==
  ASSUME Inv, Commit \/ CommitUnseen
  PROVE  Promise!Next
<1>1. Visible /\ copy \in [Tables -> Nat]
  BY DEF Commit, CommitUnseen, Inv, TypeOK
<1>2. copy' \in [Tables -> Nat] /\ \A d \in Tables : copy'[d] >= copy[d]
  BY <1>1, VisibleOK
<1>3. seenOf' = seenOf
  BY <1>1, VisibleOK DEF seenOf
<1>4. Promise!Publish
  BY <1>2, <1>3 DEF Promise!Publish, seenOf
<1>5. QED
  BY <1>4 DEF Promise!Next

LEMMA NextRefines ==
  ASSUME Inv, Isolation = "read committed", [Next]_vars
  PROVE  [Promise!Next]_(Promise!vars)
<1>1. CASE UNCHANGED <<copy, call>>
  BY <1>1 DEF Promise!vars
<1>2. CASE Commit \/ CommitUnseen
  BY <1>2, CommitsRefine
<1>3. ASSUME NEW r \in Readers, Query(r)
      PROVE  Promise!Next
  BY <1>3, AnswersRefine
<1>4. ASSUME NEW r \in Readers, Begin(r) \/ Ping(r) \/ Rollback(r) \/ QueryFails(r)
      PROVE  Promise!Next \/ UNCHANGED Promise!vars
  BY <1>4, ReadersRefine
<1>5. CASE Starts
  BY <1>1, <1>4, <1>5 DEF Starts, StartPublish, StartRefresh, Land, StartMerge
<1>6. CASE Updates \/ Merging \/ Refreshing
  BY <1>1, <1>6 DEF Updates, UpdateSilver, UpdateGold, UpdateChunks, Merging, Merge, Check,
     Refreshing, RefreshLands, RefreshSilver, RefreshGold, RefreshDelta, RefreshCopy
<1>7. CASE Publishing
  BY <1>1, <1>2, <1>7 DEF Publishing, Stage, Lock, Replace
<1>8. CASE Failures
  BY <1>1, <1>2, <1>4, <1>8 DEF Failures, PublishFails, RefreshFails, MergeFails
<1>9. QED
  BY <1>1, <1>3, <1>4, <1>5, <1>6, <1>7, <1>8 DEF Next, vars

(* Readers get whole publications, in their order, whatever else runs and      *)
(* fails: this is what the single transaction of publish_lakebase_serving.run  *)
(* promises when a query's snapshot is its own, as it is under read committed, *)
(* the default of the database.  Under repeatable read it does not hold: a     *)
(* query whose transaction began before the commit finds the table empty.      *)
THEOREM CopiesAreWhole ==
  ASSUME Isolation = "read committed"
  PROVE  Spec => ImplementsServedCopies
<1>1. Init => Promise!Init
  BY InitRefines
<1>2. Inv /\ [Next]_vars => [Promise!Next]_(Promise!vars)
  BY NextRefines
<1>3. QED
  BY <1>1, <1>2, Invariance, PTL DEF Spec, ImplementsServedCopies, Promise!Spec
=============================================================================
