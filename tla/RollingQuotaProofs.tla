------------------------- MODULE RollingQuotaProofs -------------------------
(***************************************************************************)
(* Proofs about RollingQuota, for every number of callers and every limit, *)
(* window, delay and number of retries.                                    *)
(***************************************************************************)
EXTENDS RollingQuota, FiniteSetTheorems, TLAPS

(* A caller in the state x has a slot that it has not used yet. *)
Holding(x) == x.pc \in {"audit", "send"}

(* What the caller c, in the state x, knows of the lock lk, the slots gr with *)
(* the active ones act, the requests se and the ledger au.                    *)
Knows(x, c, lk, act, gr, se, au) ==
    /\ x.pc \in {"count", "insert", "record", "audit"} => lk = c
    /\ x.pc \in {"insert", "record"} => Cardinality(act) < Limit
    /\ x.pc \in {"record", "audit", "send"} => x.age <= MaxDelay
    /\ Holding(x) => x.slot \in Slots /\ gr[x.slot] = x.age /\ se[x.slot] = Window
    /\ x.pc = "send" => x.slot \in au
    /\ ~Holding(x) /\ x.pc # "reply" => x.slot = NoSlot

Distinct ==
    \A c, d \in Callers :
        Holding(call[c]) /\ Holding(call[d]) /\ call[c].slot = call[d].slot => c = d

(* A request left at most MaxDelay after the date of its slot. *)
SlotsOK ==
    \A i \in Slots : sent[i] < Window => i \in audited /\ granted[i] <= sent[i] + MaxDelay

IInv ==
    /\ TypeOK /\ Distinct /\ SlotsOK
    /\ \A c \in Callers : Knows(call[c], c, lock, Active, granted, sent, audited)
    /\ IsFiniteSet(Active) /\ Cardinality(Active) <= Limit

----------------------------------------------------------------------------

LEMMA InitInv == Init => IInv
<1> SUFFICES ASSUME Init PROVE IInv
  OBVIOUS
<1> USE QuotaAssumption
<1>1. TypeOK
  BY DEF Init, TypeOK, Ages, Call, Idle
<1>2. Active = {}
  BY DEF Init, Active
<1>3. IsFiniteSet(Active) /\ Cardinality(Active) <= Limit
  BY <1>2, FS_EmptySet
<1>4. \A c \in Callers : call[c] = Idle
  BY DEF Init
<1>5. Distinct
  BY <1>4 DEF Distinct, Holding, Idle
<1>6. SlotsOK
  BY DEF Init, SlotsOK
<1>7. \A c \in Callers : Knows(call[c], c, lock, Active, granted, sent, audited)
  BY <1>4 DEF Knows, Holding, Idle
<1>8. QED
  BY <1>1, <1>3, <1>5, <1>6, <1>7 DEF IInv

(* A step of one caller that dates no slot and sends no request.             *)
LEMMA LocalStep ==
  ASSUME IInv, NEW c \in Callers, NEW x \in Call,
         UNCHANGED <<backend, granted, sent>>,
         call' = [call EXCEPT ![c] = x],
         lock' \in Callers \cup {Nobody},
         \A d \in Callers : d # c /\ lock = d => lock' = d,
         audited \subseteq audited', audited' \subseteq Slots,
         faults' \in 0..MaxFaults,
         Holding(x) => Holding(call[c]) /\ x.slot = call[c].slot,
         Knows(x, c, lock', Active, granted, sent, audited')
  PROVE  IInv'
<1> Active' = Active
  BY DEF Active
<1>1. \A d \in Callers : call'[d] = IF d = c THEN x ELSE call[d]
  BY DEF IInv, TypeOK
<1>2. TypeOK'
  BY DEF IInv, TypeOK
<1>3. Distinct'
  BY <1>1 DEF IInv, Distinct
<1>4. SlotsOK'
  BY DEF IInv, SlotsOK
<1>5. ASSUME NEW d \in Callers
      PROVE  Knows(call'[d], d, lock', Active', granted', sent', audited')
  <2>1. CASE d = c
    BY <2>1, <1>1
  <2>2. CASE d # c
    <3>1. Knows(call[d], d, lock, Active, granted, sent, audited)
      BY DEF IInv
    <3>2. call'[d] = call[d] /\ (lock = d => lock' = d)
      BY <2>2, <1>1
    <3>3. QED
      BY <3>1, <3>2 DEF Knows
  <2>3. QED
    BY <2>1, <2>2
<1>6. QED
  BY <1>2, <1>3, <1>4, <1>5 DEF IInv

(* The end of a call, wherever it comes. *)
LEMMA EndStep ==
  ASSUME IInv, NEW c \in Callers, End(c), Unlock(c) \/ (lock' = lock),
         UNCHANGED <<backend, granted, audited, sent>>, faults' \in 0..MaxFaults
  PROVE  IInv'
<1>1. Idle \in Call
  BY QuotaAssumption DEF Idle, Call, Ages
<1>2. Knows(Idle, c, lock', Active, granted, sent, audited') /\ ~Holding(Idle)
  BY DEF Knows, Holding, Idle
<1>3. call' = [call EXCEPT ![c] = Idle]
  BY DEF End
<1>4. lock' \in Callers \cup {Nobody} /\ \A d \in Callers : d # c /\ lock = d => lock' = d
  BY DEF Unlock, IInv, TypeOK
<1>5. audited \subseteq audited' /\ audited' \subseteq Slots
  BY DEF IInv, TypeOK
<1>6. QED
  BY <1>1, <1>2, <1>3, <1>4, <1>5, LocalStep

(* A new slot is dated while there is room; its owner, if any, is c in x.     *)
LEMMA GrantStep ==
  ASSUME IInv, NEW c \in Callers, NEW x \in Call, NEW i \in Fresh,
         call[c].pc = "record", Grant(c, i), UNCHANGED <<backend, sent>>,
         call' = [call EXCEPT ![c] = x],
         lock' = Nobody \/ lock' = c, lock' \in Callers \cup {Nobody},
         faults' \in 0..MaxFaults,
         x.pc \in {"idle", "audit", "send"},
         x.pc = "audit" => lock' = c,
         x.pc = "send" => backend # "process",
         x.pc = "idle" => x.slot = NoSlot,
         x.pc # "idle" => x.slot = i /\ x.age = call[c].age
  PROVE  IInv'
<1> USE QuotaAssumption
<1>1. \A d \in Callers : call'[d] = IF d = c THEN x ELSE call[d]
  BY DEF IInv, TypeOK
<1>2. Knows(call[c], c, lock, Active, granted, sent, audited) /\ call[c] \in Call
  BY DEF IInv, TypeOK
<1>3. /\ lock = c /\ Cardinality(Active) < Limit
      /\ call[c].age \in Ages /\ call[c].age <= MaxDelay
  BY <1>2 DEF Knows, Call
<1>4. /\ i \in Slots /\ granted[i] = Window /\ sent[i] = Window
      /\ \A d \in Callers : Holding(call[d]) => call[d].slot # i
  BY DEF Fresh, Dated, Holding
<1>5. /\ \A j \in Slots : granted'[j] = IF j = i THEN call[c].age ELSE granted[j]
      /\ granted' \in [Slots -> Ages]
  BY <1>3, <1>4 DEF Grant, IInv, TypeOK
<1>6. /\ audited' \subseteq Slots /\ \A j \in Slots : j # i /\ j \in audited => j \in audited'
      /\ backend # "process" => i \in audited'
  BY <1>4 DEF Grant, IInv, TypeOK
<1>7. TypeOK'
  BY <1>5, <1>6 DEF IInv, TypeOK
<1>8. IsFiniteSet(Active') /\ Cardinality(Active') <= Limit
  <2>1. Active' = Active \/ Active' = Active \cup {i}
    BY <1>4, <1>5 DEF Active
  <2>2. IsFiniteSet(Active)
    BY DEF IInv
  <2>3. IsFiniteSet(Active \cup {i}) /\ Cardinality(Active \cup {i}) \in {Cardinality(Active), Cardinality(Active) + 1}
    BY <2>2, FS_AddElement
  <2>4. Cardinality(Active) \in Nat
    BY <2>2, FS_CardinalityType
  <2>5. CASE Active' = Active
    BY <2>2, <2>4, <2>5, <1>3
  <2>6. CASE Active' = Active \cup {i}
    <3>1. Cardinality(Active \cup {i}) <= Limit
      BY <2>3, <2>4, <1>3
    <3>2. QED
      BY <2>3, <2>6, <3>1, Zenon
  <2>7. QED
    BY <2>1, <2>5, <2>6
<1>9. Distinct'
  BY <1>1, <1>4 DEF IInv, Distinct, Holding
<1>10. SlotsOK'
  BY <1>4, <1>5, <1>6 DEF IInv, SlotsOK
<1>11. ASSUME NEW d \in Callers
       PROVE  Knows(call'[d], d, lock', Active', granted', sent', audited')
  <2>1. CASE d = c
    <3>1. call'[d] = x
      BY <2>1, <1>1
    <3>2. x.pc # "idle" => /\ x.age <= MaxDelay /\ x.slot \in Slots
                           /\ granted'[x.slot] = x.age /\ sent'[x.slot] = Window
      BY <1>3, <1>4, <1>5
    <3>3. x.pc = "send" => x.slot \in audited'
      BY <1>6
    <3>4. QED
      BY <2>1, <3>1, <3>2, <3>3 DEF Knows, Holding
  <2>2. CASE d # c
    <3>1. Knows(call[d], d, lock, Active, granted, sent, audited)
      BY DEF IInv
    <3>2. call'[d] = call[d]
      BY <2>2, <1>1
    <3>3. call[d].pc \notin {"count", "insert", "record", "audit"}
      BY <3>1, <1>3, <2>2 DEF Knows
    <3>4. Holding(call[d]) => /\ call[d].slot \in Slots /\ call[d].slot # i
                              /\ granted'[call[d].slot] = call[d].age
      BY <3>1, <1>4, <1>5 DEF Knows
    <3>5. QED
      BY <3>1, <3>2, <3>3, <3>4, <1>6 DEF Knows, Holding
  <2>3. QED
    BY <2>1, <2>2
<1>12. QED
  BY <1>7, <1>8, <1>9, <1>10, <1>11 DEF IInv

(* Time passes: a caller keeps what it knows.                                 *)
LEMMA TickStep == IInv /\ Tick => IInv'
<1> SUFFICES ASSUME IInv, Tick PROVE IInv'
  OBVIOUS
<1> USE QuotaAssumption
<1> DEFINE Aged(c) == [call[c] EXCEPT !.age = IF Dated(c) THEN Older(@) ELSE @,
                                     !.wait = Shorter(@)]
<1>1. /\ \A c \in Callers : call'[c] = Aged(c)
      /\ call' = [c \in Callers |-> Aged(c)]
      /\ granted' = [i \in Slots |-> Older(granted[i])]
      /\ sent' = [i \in Slots |-> Older(sent[i])]
      /\ UNCHANGED <<backend, lock, audited, faults>>
  BY DEF Tick
<1>2. \A a \in Ages : Older(a) \in Ages /\ Shorter(a) \in Ages /\ a <= Older(a)
                     /\ Older(a) <= a + 1 /\ (Older(a) = Window <=> a + 1 >= Window)
  BY DEF Ages, Older, Shorter
<1>3. \A i \in Slots : granted[i] \in Ages /\ sent[i] \in Ages
  BY DEF IInv, TypeOK
<1>4. ASSUME NEW c \in Callers
      PROVE  /\ Aged(c) \in Call
             /\ Aged(c).pc = call[c].pc /\ Aged(c).slot = call[c].slot
             /\ Aged(c).age = IF Dated(c) THEN Older(call[c].age) ELSE call[c].age
  <2>1. call[c] \in Call
    BY DEF IInv, TypeOK
  <2>2. QED
    BY <2>1, <1>2 DEF Call
<1> HIDE DEF Aged
<1>5. TypeOK'
  BY <1>1, <1>2, <1>3, <1>4 DEF IInv, TypeOK
<1>6. Distinct'
  BY <1>1, <1>4 DEF IInv, Distinct, Holding
<1>7. SlotsOK'
  BY <1>1, <1>2, <1>3 DEF IInv, SlotsOK, Ages, Older
<1>8. /\ IsFiniteSet(Active') /\ Cardinality(Active') <= Cardinality(Active)
      /\ Cardinality(Active) \in Nat /\ Cardinality(Active') \in Nat
  <2>1. Active' \in SUBSET Active
    BY <1>1, <1>3 DEF Active, Ages, Older
  <2>2. IsFiniteSet(Active)
    BY DEF IInv
  <2>3. QED
    BY <2>1, <2>2, FS_Subset, FS_CardinalityType
<1>9. ASSUME NEW c \in Callers
      PROVE  Knows(call'[c], c, lock', Active', granted', sent', audited')
  <2>1. Knows(call[c], c, lock, Active, granted, sent, audited) /\ call[c] \in Call
    BY DEF IInv, TypeOK
  <2>2. Dated(c) => call[c].age < MaxDelay
    BY DEF Tick
  <2>3. call[c].age \in Ages
    BY <2>1 DEF Call
  <2>4. Dated(c) => Aged(c).age \in Ages /\ Aged(c).age <= MaxDelay
    BY <1>2, <1>4, <2>2, <2>3 DEF Ages
  <2>5. Holding(call[c]) => /\ granted'[call[c].slot] = Aged(c).age
                            /\ sent'[call[c].slot] = Window
    BY <1>1, <1>4, <2>1 DEF Knows, Holding, Dated, Older
  <2>6. call[c].pc \in {"insert", "record"} => Cardinality(Active') < Limit
    BY <1>8, <2>1 DEF Knows
  <2>7. call'[c] = Aged(c)
    BY <1>1
  <2>8. QED
    BY <1>1, <1>4, <2>1, <2>4, <2>5, <2>6, <2>7 DEF Knows, Holding, Dated
<1>10. Cardinality(Active') <= Limit
  BY <1>8 DEF IInv
<1>11. QED
  BY <1>5, <1>6, <1>7, <1>8, <1>9, <1>10 DEF IInv

(* The request leaves: it is as old as nothing, its slot at most MaxDelay.    *)
LEMMA SendStep ==
  ASSUME IInv, NEW c \in Callers, Send(c)
  PROVE  IInv'
<1> USE QuotaAssumption
<1> DEFINE x == [call[c] EXCEPT !.pc = "reply"]
<1>1. /\ call[c] \in Call /\ x \in Call /\ x.pc = "reply" /\ ~Holding(x)
      /\ call' = [call EXCEPT ![c] = x]
  BY DEF IInv, TypeOK, Send, Goto, Call, Holding
<1> HIDE DEF x
<1>2. \A d \in Callers : call'[d] = IF d = c THEN x ELSE call[d]
  BY <1>1 DEF IInv, TypeOK
<1>3. /\ call[c].pc = "send" /\ call[c].slot \in Slots /\ call[c].slot \in audited
      /\ granted[call[c].slot] <= MaxDelay /\ Holding(call[c])
  BY DEF IInv, Knows, Send, At, Holding
<1>4. /\ sent' \in [Slots -> Ages]
      /\ \A i \in Slots : sent'[i] = IF i = call[c].slot THEN 0 ELSE sent[i]
  <2>1. sent \in [Slots -> Ages] /\ sent' = [sent EXCEPT ![call[c].slot] = 0]
    BY DEF Send, IInv, TypeOK
  <2>2. 0 \in Ages
    BY DEF Ages
  <2>3. QED
    BY <2>1, <2>2, <1>3
<1>5. UNCHANGED <<backend, lock, granted, audited, faults>> /\ Active' = Active
  BY DEF Send, Active
<1>6. TypeOK'
  BY <1>1, <1>4, <1>5 DEF IInv, TypeOK
<1>7. Distinct'
  BY <1>1, <1>2 DEF IInv, Distinct
<1>8. SlotsOK'
  BY <1>3, <1>4, <1>5 DEF IInv, SlotsOK
<1>9. ASSUME NEW d \in Callers
      PROVE  Knows(call'[d], d, lock', Active', granted', sent', audited')
  <2>1. CASE d = c
    BY <2>1, <1>1, <1>2 DEF Knows
  <2>2. CASE d # c
    <3>1. Knows(call[d], d, lock, Active, granted, sent, audited) /\ call'[d] = call[d]
      BY <2>2, <1>2 DEF IInv
    <3>2. Holding(call[d]) => call[d].slot # call[c].slot
      BY <2>2, <1>3 DEF IInv, Distinct
    <3>3. QED
      BY <3>1, <3>2, <1>4, <1>5 DEF Knows
  <2>3. QED
    BY <2>1, <2>2
<1>10. QED
  BY <1>5, <1>6, <1>7, <1>8, <1>9 DEF IInv

(* The other steps of a caller, one lemma for each kind.                      *)
LEMMA MoveStep ==
  ASSUME IInv, NEW c \in Callers, NEW x \in Call,
         UNCHANGED <<backend, lock, granted, audited, sent, faults>>,
         call' = [call EXCEPT ![c] = x], ~Holding(x),
         Knows(x, c, lock, Active, granted, sent, audited)
  PROVE  IInv'
BY LocalStep DEF IInv, TypeOK

LEMMA BeginStep == ASSUME IInv, NEW c \in Callers, Begin(c) PROVE IInv'
<1> DEFINE x == [call[c] EXCEPT !.pc = "acquire", !.attempt = 1]
<1>1. call[c] \in Call /\ Knows(call[c], c, lock, Active, granted, sent, audited) /\ call[c].pc = "idle"
  BY DEF IInv, TypeOK, Begin, At
<1>1a. 1 \in 0..MaxRetries + 1
  BY QuotaAssumption
<1>2. x \in Call /\ call' = [call EXCEPT ![c] = x]
  BY <1>1, <1>1a DEF Call, Begin, IInv, TypeOK
<1>3. ~Holding(x) /\ Knows(x, c, lock, Active, granted, sent, audited)
  BY <1>1 DEF Call, Knows, Holding
<1>4. QED
  BY <1>2, <1>3, MoveStep DEF Begin

LEMMA LockStep == ASSUME IInv, NEW c \in Callers, Lock(c) PROVE IInv'
<1> DEFINE x == [call[c] EXCEPT !.pc = "count"]
<1>1. call[c] \in Call /\ Knows(call[c], c, lock, Active, granted, sent, audited) /\ call[c].pc = "acquire"
  BY DEF IInv, TypeOK, Lock, At
<1>2. x \in Call /\ call' = [call EXCEPT ![c] = x]
  BY <1>1 DEF Call, Lock, Goto, IInv, TypeOK
<1>3. lock = Nobody /\ lock' = c /\ audited' = audited /\ faults' = faults
  BY DEF Lock
<1>4. ~Holding(x) /\ Knows(x, c, lock', Active, granted, sent, audited')
  BY <1>1, <1>3 DEF Call, Knows, Holding
<1>5. \A d \in Callers : d # c /\ lock = d => lock' = d
  BY <1>3, QuotaAssumption
<1>6. audited \subseteq audited' /\ audited' \subseteq Slots /\ faults' \in 0..MaxFaults
  BY <1>3 DEF IInv, TypeOK
<1>7. UNCHANGED <<backend, granted, sent>>
  BY DEF Lock
<1> HIDE DEF x
<1>8. QED
  BY <1>2, <1>3, <1>4, <1>5, <1>6, <1>7, LocalStep

LEMMA CountStep == ASSUME IInv, NEW c \in Callers, Count(c) PROVE IInv'
<1> USE QuotaAssumption
<1>1. call[c] \in Call /\ Knows(call[c], c, lock, Active, granted, sent, audited) /\ call[c].pc = "count"
  BY DEF IInv, TypeOK, Count, At
<1>2. UNCHANGED <<backend, granted, audited, sent, faults>>
  BY DEF Count
<1>3. CASE Room(c)
  <2> DEFINE x == [call[c] EXCEPT !.pc = IF backend = "process" THEN "record" ELSE "insert",
                                 !.age = 0]
  <2>0. 0 \in Ages
    BY DEF Ages
  <2>1. x \in Call /\ call' = [call EXCEPT ![c] = x]
    BY <1>1, <1>3, <2>0 DEF Call, Room, IInv, TypeOK
  <2>2. ~Holding(x) /\ Knows(x, c, lock, Active, granted, sent, audited)
    BY <1>1, <1>3 DEF Call, Knows, Holding, Room
  <2>3. QED
    BY <1>2, <1>3, <2>1, <2>2, MoveStep DEF Room
<1>4. CASE Full(c)
  <2>1. PICK i \in Active : call' = [call EXCEPT ![c].pc = "sleep", ![c].wait = Window - granted[i]]
    BY <1>4 DEF Full
  <2> DEFINE x == [call[c] EXCEPT !.pc = "sleep", !.wait = Window - granted[i]]
  <2>2. Window - granted[i] \in Ages
    BY DEF Active, IInv, TypeOK, Ages
  <2>3. x \in Call /\ call' = [call EXCEPT ![c] = x]
    BY <1>1, <2>1, <2>2 DEF Call, IInv, TypeOK
  <2>4. ~Holding(x) /\ Knows(x, c, lock', Active, granted, sent, audited')
    BY <1>1 DEF Call, Knows, Holding
  <2>5. lock' \in Callers \cup {Nobody} /\ \A d \in Callers : d # c /\ lock = d => lock' = d
    BY <1>4 DEF Full, Unlock, IInv, TypeOK
  <2>6. audited \subseteq audited' /\ audited' \subseteq Slots /\ faults' \in 0..MaxFaults
    BY <1>2 DEF IInv, TypeOK
  <2> HIDE DEF x
  <2>7. QED
    BY <1>2, <2>3, <2>4, <2>5, <2>6, LocalStep
<1>5. QED
  BY <1>3, <1>4 DEF Count

LEMMA InsertStep == ASSUME IInv, NEW c \in Callers, Insert(c) PROVE IInv'
<1> USE QuotaAssumption
<1> DEFINE x == [call[c] EXCEPT !.pc = "record", !.age = 0]
<1>1. call[c] \in Call /\ Knows(call[c], c, lock, Active, granted, sent, audited) /\ call[c].pc = "insert"
  BY DEF IInv, TypeOK, Insert, At
<1>1a. 0 \in Ages
  BY DEF Ages
<1>2. x \in Call /\ call' = [call EXCEPT ![c] = x]
  BY <1>1, <1>1a DEF Call, Insert, IInv, TypeOK
<1>3. ~Holding(x) /\ Knows(x, c, lock, Active, granted, sent, audited)
  BY <1>1 DEF Call, Knows, Holding
<1>4. QED
  BY <1>2, <1>3, MoveStep DEF Insert

LEMMA RecordStep == ASSUME IInv, NEW c \in Callers, Record(c) PROVE IInv'
<1>1. PICK i \in Fresh :
        /\ Grant(c, i)
        /\ call' = [call EXCEPT ![c].pc = IF backend = "process" THEN "audit" ELSE "send",
                                ![c].slot = i]
  BY DEF Record
<1> DEFINE x == [call[c] EXCEPT !.pc = IF backend = "process" THEN "audit" ELSE "send",
                               !.slot = i]
<1>2. /\ call[c] \in Call /\ call[c].pc = "record" /\ lock = c
      /\ Knows(call[c], c, lock, Active, granted, sent, audited)
  BY DEF IInv, TypeOK, Record, At, Knows
<1>3. i \in Slots
  BY DEF Fresh
<1>4. x \in Call /\ call' = [call EXCEPT ![c] = x]
  BY <1>1, <1>2, <1>3 DEF Call, IInv, TypeOK
<1>5. /\ x.pc \in {"audit", "send"} /\ (x.pc = "send" => backend # "process")
      /\ x.slot = i /\ x.age = call[c].age
      /\ (x.pc = "audit" => backend = "process")
  BY <1>2 DEF Call
<1>6. /\ lock' = Nobody \/ lock' = c
      /\ lock' \in Callers \cup {Nobody}
      /\ backend = "process" => lock' = c
  BY <1>2 DEF Record, Unlock
<1>7. UNCHANGED <<backend, sent>> /\ faults' \in 0..MaxFaults
  BY DEF Record, IInv, TypeOK
<1> HIDE DEF x
<1>8. QED
  BY <1>1, <1>2, <1>4, <1>5, <1>6, <1>7, GrantStep

LEMMA AuditStep == ASSUME IInv, NEW c \in Callers, Audit(c) PROVE IInv'
<1> DEFINE x == [call[c] EXCEPT !.pc = "send"]
<1>1. call[c] \in Call /\ Knows(call[c], c, lock, Active, granted, sent, audited) /\ call[c].pc = "audit"
  BY DEF IInv, TypeOK, Audit, At
<1>2. x \in Call /\ call' = [call EXCEPT ![c] = x]
  BY <1>1 DEF Call, Audit, Goto, IInv, TypeOK
<1>3. /\ audited' = audited \cup {call[c].slot} /\ call[c].slot \in Slots
      /\ UNCHANGED <<backend, granted, sent, faults>>
  BY <1>1 DEF Audit, Knows, Holding
<1>4. /\ x.slot = call[c].slot /\ Holding(call[c])
      /\ Knows(x, c, lock', Active, granted, sent, audited')
  BY <1>1, <1>3 DEF Call, Knows, Holding
<1>5. lock' \in Callers \cup {Nobody} /\ \A d \in Callers : d # c /\ lock = d => lock' = d
  BY DEF Audit, Unlock, IInv, TypeOK
<1>6. audited \subseteq audited' /\ audited' \subseteq Slots /\ faults' \in 0..MaxFaults
  BY <1>3 DEF IInv, TypeOK
<1> HIDE DEF x
<1>7. QED
  BY <1>2, <1>3, <1>4, <1>5, <1>6, LocalStep

LEMMA FaultStep ==
  ASSUME IInv, NEW c \in Callers, StoreFails(c) \/ CommitUnseen(c) \/ Crash(c)
  PROVE  IInv'
<1>1. Fault /\ faults' \in 0..MaxFaults
  BY QuotaAssumption DEF StoreFails, CommitUnseen, Crash, Fault, IInv, TypeOK
<1>2. CASE StoreFails(c)
  BY <1>1, <1>2, EndStep DEF StoreFails
<1>3. CASE Crash(c)
  BY <1>1, <1>3, EndStep DEF Crash
<1>4. CASE CommitUnseen(c)
  <2>1. PICK i \in Fresh : Grant(c, i)
    BY <1>4 DEF CommitUnseen
  <2>2. Idle \in Call /\ Idle.pc = "idle" /\ Idle.slot = NoSlot
    BY QuotaAssumption DEF Idle, Call, Ages
  <2>3. /\ call[c].pc = "record" /\ call' = [call EXCEPT ![c] = Idle]
        /\ UNCHANGED <<backend, sent>>
    BY <1>4 DEF CommitUnseen, At, End
  <2>4. lock = c
    BY <2>3 DEF IInv, Knows
  <2>5. lock' = Nobody
    BY <1>4, <2>4 DEF CommitUnseen, Unlock
  <2>6. QED
    BY <1>1, <2>1, <2>2, <2>3, <2>5, GrantStep
<1>5. QED
  BY <1>2, <1>3, <1>4

LEMMA WakeStep == ASSUME IInv, NEW c \in Callers, Wake(c) \/ Resume(c) PROVE IInv'
<1> DEFINE x == [call[c] EXCEPT !.pc = "acquire"]
<1>1. /\ call[c] \in Call /\ Knows(call[c], c, lock, Active, granted, sent, audited)
      /\ call[c].pc \in {"sleep", "backoff"}
  BY DEF IInv, TypeOK, Wake, Resume, At
<1>2. x \in Call /\ call' = [call EXCEPT ![c] = x]
  BY <1>1 DEF Call, Wake, Resume, Goto, IInv, TypeOK
<1>3. ~Holding(x) /\ Knows(x, c, lock, Active, granted, sent, audited)
  BY <1>1 DEF Call, Knows, Holding
<1>4. QED
  BY <1>2, <1>3, MoveStep DEF Wake, Resume

LEMMA RetryStep == ASSUME IInv, NEW c \in Callers, Retry(c) PROVE IInv'
<1> DEFINE x == [call[c] EXCEPT !.pc = "backoff", !.attempt = @ + 1, !.slot = NoSlot]
<1>1. call[c] \in Call /\ call[c].attempt <= MaxRetries
  BY DEF IInv, TypeOK, Retry, At
<1>2. call[c].attempt + 1 \in 0..MaxRetries + 1
  BY <1>1, QuotaAssumption DEF Call
<1>3. x \in Call /\ call' = [call EXCEPT ![c] = x]
  BY <1>1, <1>2 DEF Call, Retry, IInv, TypeOK
<1>4. ~Holding(x) /\ Knows(x, c, lock, Active, granted, sent, audited)
  BY <1>1 DEF Call, Knows, Holding
<1>5. QED
  BY <1>3, <1>4, MoveStep DEF Retry

LEMMA NextInv == IInv /\ [Next]_vars => IInv'
<1> SUFFICES ASSUME IInv, [Next]_vars PROVE IInv'
  OBVIOUS
<1>1. ASSUME NEW c \in Callers, Proceed(c) PROVE IInv'
  <2>1. CASE Lock(c)
    BY <2>1, LockStep
  <2>2. CASE Count(c)
    BY <2>2, CountStep
  <2>3. CASE Insert(c)
    BY <2>3, InsertStep
  <2>4. CASE Record(c)
    BY <2>4, RecordStep
  <2>5. CASE Audit(c)
    BY <2>5, AuditStep
  <2>6. CASE Wake(c) \/ Resume(c)
    BY <2>6, WakeStep
  <2>7. CASE Send(c)
    BY <2>7, SendStep
  <2>8. CASE Return(c)
    <3>1. faults' \in 0..MaxFaults
      BY <2>8 DEF Return, IInv, TypeOK
    <3>2. QED
      BY <2>8, <3>1, EndStep DEF Return
  <2>9. CASE Retry(c)
    BY <2>9, RetryStep
  <2>10. QED
    BY <1>1, <2>1, <2>2, <2>3, <2>4, <2>5, <2>6, <2>7, <2>8, <2>9 DEF Proceed
<1>2. CASE UNCHANGED vars
  <2>1. Active' = Active
    BY <1>2 DEF vars, Active
  <2>2. QED
    BY <1>2, <2>1 DEF vars, IInv, TypeOK, Distinct, SlotsOK, Knows, Holding
<1>3. QED
  BY <1>1, <1>2, TickStep, BeginStep, FaultStep DEF Next

----------------------------------------------------------------------------

(* The inductive invariant holds of every behaviour of the limiters.          *)
THEOREM QuotaInductive == Spec => []IInv
BY InitInv, NextInv, PTL DEF Spec

(* Every reachable state of both limiters is well typed: ages stay within the *)
(* window and a caller's wait never falls below zero.                         *)
THEOREM TypeCorrect == Spec => []TypeOK
<1>1. IInv => TypeOK
  BY DEF IInv
<1>2. QED
  BY <1>1, QuotaInductive, PTL

(* No window ever holds more slots than the limit, for any number of callers  *)
(* and of failures: the limiters' count and grant are one step to each other. *)
THEOREM GrantsBounded == Spec => []GrantsRespectLimit
<1>1. IInv => GrantsRespectLimit
  BY DEF IInv, GrantsRespectLimit
<1>2. QED
  BY <1>1, QuotaInductive, PTL

(* The requests of get_with_metadata follow their slots: no more than the     *)
(* limit leave within a window shortened by the longest delay.                *)
THEOREM SendsBounded == Spec => []SendsRespectShorterWindow
<1>1. IInv => SendsRespectShorterWindow
  <2> SUFFICES ASSUME IInv PROVE SendsRespectShorterWindow
    OBVIOUS
  <2> DEFINE Recent == {i \in Slots : sent[i] < Window - MaxDelay}
  <2>1. \A i \in Slots : granted[i] \in Ages /\ sent[i] \in Ages
    BY DEF IInv, TypeOK
  <2>2. \A i \in Recent : granted[i] < Window
    BY <2>1, QuotaAssumption DEF IInv, SlotsOK, Ages
  <2>3. Recent \in SUBSET Active
    BY <2>2 DEF Active
  <2>4. /\ Cardinality(Recent) \in Nat /\ Cardinality(Active) \in Nat
        /\ Cardinality(Recent) <= Cardinality(Active) /\ Cardinality(Active) <= Limit
    BY <2>3, FS_Subset, FS_CardinalityType DEF IInv
  <2>5. Cardinality(Recent) <= Limit
    BY <2>4, QuotaAssumption
  <2>6. QED
    BY <2>5 DEF SendsRespectShorterWindow
<1>2. QED
  BY <1>1, QuotaInductive, PTL

(* Every physical attempt, a retry too, leaves on a slot of its own that the  *)
(* ledger already holds.                                                      *)
THEOREM AttemptsHaveSlots == Spec => []EachAttemptHasItsSlot
<1>1. IInv => EachAttemptHasItsSlot
  <2> SUFFICES ASSUME IInv PROVE EachAttemptHasItsSlot
    OBVIOUS
  <2>1. ASSUME NEW c \in Callers, At(c, "send")
        PROVE  /\ sent[call[c].slot] = Window
               /\ \A d \in Callers : Dated(d) /\ call[d].slot = call[c].slot => d = c
    <3>1. Holding(call[c]) /\ call[c].slot \in Slots /\ sent[call[c].slot] = Window
      BY <2>1 DEF IInv, Knows, Holding, At
    <3>2. \A d \in Callers : Dated(d) /\ call[d].slot \in Slots => Holding(call[d])
      BY QuotaAssumption DEF IInv, Knows, Holding, Dated
    <3>3. QED
      BY <3>1, <3>2 DEF IInv, Distinct
  <2>2. QED
    BY <2>1 DEF EachAttemptHasItsSlot, IInv, SlotsOK
<1>2. QED
  BY <1>1, QuotaInductive, PTL
=============================================================================
