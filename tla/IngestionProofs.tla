-------------------------- MODULE IngestionProofs --------------------------
(***************************************************************************)
(* Proofs about four parts of the ingestion, which share no state: the SEC *)
(* client, the landing of articles, the chunks of a document, and the      *)
(* market pipeline's accounting with its certificate; for any processes,   *)
(* tickers, texts, dates, bars and limits.                                 *)
(***************************************************************************)
EXTENDS SecClient, ArticleLanding, ResearchChunks, MarketQuality, TLAPS,
        NaturalsInduction, WellFoundedInduction, FiniteSetTheorems, SequenceTheorems

(* Induction without an operator as a parameter: of the naturals for which     *)
(* something fails one would be the least.                                     *)
LEMMA Least ==
  ASSUME NEW T \in SUBSET Nat, T # {}
  PROVE  \E v \in T : \A w \in T : v <= w
<1>1. PICK v \in T : \A w \in T : ~ (<<w, v>> \in OpToRel(<, Nat))
  BY WFMin, NatLessThanWellFounded
<1>2. ASSUME NEW w \in T PROVE v <= w
  <2>1. w \in Nat /\ v \in Nat
    OBVIOUS
  <2>2. ~ (w < v)
    BY <1>1, <2>1, Zenon DEF OpToRel
  <2>3. QED
    BY <2>1, <2>2
<1>3. QED
  BY <1>2

LEMMA OneNumber ==
  /\ \A i \in 1 .. 1 : i = 1
  /\ \A v \in Nat : v <= v
OBVIOUS

(* ... and a finite one a greatest: the first elements of a list of them have  *)
(* one, or there would be a least number of elements that have none.           *)
LEMMA Greatest ==
  ASSUME NEW T \in SUBSET Nat, T # {}, IsFiniteSet(T)
  PROVE  \E v \in T : \A w \in T : w <= v
<1>1. PICK n \in Nat : ExistsBijection(1 .. n, T)
  BY FS_NatBijection
<1>2. PICK f \in Bijection(1 .. n, T) : TRUE
  BY <1>1 DEF ExistsBijection
<1>3. /\ f \in [1 .. n -> T] /\ \A t \in T : \E i \in 1 .. n : f[i] = t
  BY <1>2 DEF Bijection, Injection, Surjection
<1>31. \A i \in 1 .. n : f[i] \in Nat
  BY <1>3
<1> DEFINE Tops(k) == \E m \in 1 .. k : \A i \in 1 .. k : f[i] <= f[m]
           Without == {k \in 1 .. n : ~Tops(k)}
<1>4. Without = {}
  <2> SUFFICES ASSUME Without # {} PROVE FALSE
    OBVIOUS
  <2>1. Without \in SUBSET Nat
    OBVIOUS
  <2>2. PICK k \in Without : \A j \in Without : k <= j
    BY <2>1, Least
  <2>3. k \in 1 .. n /\ ~Tops(k) /\ k \in Nat /\ 1 <= k /\ k <= n
    BY <2>2
  <2>31. k \in 1 .. n /\ k \in Nat /\ 1 <= k /\ k <= n
    BY <2>3
  <2>4. CASE k = 1
    <3>1. f[1] \in Nat
      BY <1>31, <2>3, <2>4
    <3>11. f[1] <= f[1]
      BY <3>1, OneNumber, Zenon
    <3>2. ASSUME NEW i \in 1 .. 1 PROVE f[i] <= f[1]
      <4>1. i = 1
        BY OneNumber, Zenon
      <4>2. QED
        BY <3>11, <4>1, Zenon
    <3>3. 1 \in 1 .. 1
      OBVIOUS
    <3>4. Tops(1)
      BY <3>2, <3>3
    <3>5. QED
      BY <2>3, <2>4, <3>4
  <2>5. CASE k > 1
    <3>0. k - 1 \in 1 .. n /\ ~(k <= k - 1)
      BY <2>3, <2>5
    <3>1. k - 1 \in 1 .. n /\ k - 1 \notin Without
      BY <3>0, <2>2
    <3>2. PICK m \in 1 .. k - 1 : \A i \in 1 .. k - 1 : f[i] <= f[m]
      BY <3>1
    <3>3. m \in 1 .. n /\ m \in 1 .. k /\ f[m] \in Nat /\ f[k] \in Nat
      BY <1>31, <2>31, <3>2
    <3>4. CASE f[k] <= f[m]
      <4>1. ASSUME NEW i \in 1 .. k PROVE f[i] <= f[m]
        <5>1. CASE i = k
          BY <5>1, <3>4
        <5>2. CASE i # k
          <6>1. i \in 1 .. k - 1
            BY <5>2, <2>31
          <6>2. QED
            BY <6>1, <3>2
        <5>3. QED
          BY <5>1, <5>2
      <4>2. QED
        BY <4>1, <3>3, <2>3
    <3>5. CASE f[m] <= f[k]
      <4>1. ASSUME NEW i \in 1 .. k PROVE f[i] <= f[k]
        <5>0. i \in 1 .. n
          BY <2>31
        <5>1. f[i] \in Nat
          BY <1>31, <5>0
        <5>2. CASE i = k
          <6>1. \A x \in Nat : x <= x
            OBVIOUS
          <6>2. QED
            BY <5>2, <6>1, <3>3, Zenon
        <5>3. CASE i # k
          <6>1. i \in 1 .. k - 1
            BY <5>3, <2>31
          <6>2. f[i] <= f[m]
            BY <6>1, <3>2
          <6>3. \A x, y, z \in Nat : x <= y /\ y <= z => x <= z
            OBVIOUS
          <6>4. QED
            BY <5>1, <6>2, <6>3, <3>3, <3>5, Zenon
        <5>4. QED
          BY <5>2, <5>3
      <4>2. k \in 1 .. k
        BY <2>31
      <4>3. QED
        BY <4>1, <4>2, <2>3
    <3>6. \A x, y \in Nat : x <= y \/ y <= x
      OBVIOUS
    <3>7. QED
      BY <3>3, <3>4, <3>5, <3>6, Zenon
  <2>6. QED
    BY <2>3, <2>4, <2>5
<1>5. n \in 1 .. n
  <2>1. PICK i \in 1 .. n : TRUE
    BY <1>3
  <2>2. QED
    BY <2>1
<1>6. PICK m \in 1 .. n : \A i \in 1 .. n : f[i] <= f[m]
  BY <1>4, <1>5
<1>7. f[m] \in T /\ \A t \in T : t <= f[m]
  BY <1>3, <1>6
<1>8. QED
  BY <1>7

----------------------------------------------------------------------------
(* SecClient.                                                                  *)
Turns == [pc : {"idle", "acquire", "send", "backoff"}, attempt : Nat]

(* The deque is the end of the history, what came before is out of the window; *)
(* it never holds more than the limit; and a backoff is followed by a turn.    *)
SecClientInv ==
    /\ grants \in Seq(Nat) /\ released \in Seq(Nat)
    /\ fetching \in [SecThreads -> Turns]
    /\ \E k \in Nat :
          /\ Len(grants) = k + Len(released)
          /\ \A i \in 1 .. Len(released) : released[i] = grants[k + i]
          /\ \A i \in 1 .. k : ~InWindow(grants[i])
    /\ Len(released) <= SecLimit
    /\ \A t \in SecThreads : fetching[t].pc = "backoff" => fetching[t].attempt <= SecRetries

(* What acquire drops is out of the window.                                    *)
LEMMA ExpiredOK ==
  ASSUME NEW ages \in Seq(Nat)
  PROVE  /\ Expired(ages) \in 0 .. Len(ages)
         /\ \A i \in 1 .. Expired(ages) : ~InWindow(ages[i])
<1> DEFINE Stops == {n \in 0 .. Len(ages) : n < Len(ages) => InWindow(ages[n + 1])}
<1>1. Stops \in SUBSET Nat /\ Len(ages) \in Stops
  OBVIOUS
<1>2. PICK n \in Stops : \A m \in Stops : n <= m
  BY <1>1, Least
<1>3. \A i \in 1 .. n : ~InWindow(ages[i])
  <2> SUFFICES ASSUME NEW i \in 1 .. n, InWindow(ages[i]) PROVE FALSE
    OBVIOUS
  <2>1. i - 1 \in Stops
    BY <1>2
  <2>2. n <= i - 1
    BY <1>2, <2>1
  <2>3. i \in Int /\ n \in Int /\ i <= n
    BY <1>1, <1>2
  <2>4. QED
    BY <2>2, <2>3
<1>4. QED
  BY <1>2, <1>3, Zenon DEF Expired

LEMMA RecentOK ==
  ASSUME NEW ages \in Seq(Nat)
  PROVE  /\ Recent(ages) \in Seq(Nat)
         /\ Len(Recent(ages)) = Len(ages) - Expired(ages)
         /\ \A i \in 1 .. Len(Recent(ages)) : Recent(ages)[i] = ages[Expired(ages) + i]
<1>1. Expired(ages) \in 0 .. Len(ages)
  BY ExpiredOK
<1>2. Expired(ages) + 1 \in 1 .. Len(ages) + 1
  BY <1>1
<1>3. \A i \in Expired(ages) + 1 .. Len(ages) : ages[i] \in Nat
  BY <1>1
<1>4. /\ Recent(ages) \in Seq(Nat)
      /\ Len(Recent(ages)) = IF Expired(ages) + 1 <= Len(ages)
                             THEN Len(ages) - (Expired(ages) + 1) + 1 ELSE 0
      /\ \A i \in 1 .. Len(ages) - (Expired(ages) + 1) + 1 :
            Recent(ages)[i] = ages[(Expired(ages) + 1) + i - 1]
  <2>1. Expired(ages) + 1 \in Int /\ Len(ages) \in Int
    BY <1>2
  <2> DEFINE m == Expired(ages) + 1
             n == Len(ages)
  <2>2. m \in Int /\ n \in Int /\ \A i \in m .. n : ages[i] \in Nat
    BY <1>3, <2>1
  <2> HIDE DEF m, n
  <2>3. /\ SubSeq(ages, m, n) \in Seq(Nat)
        /\ Len(SubSeq(ages, m, n)) = IF m <= n THEN n - m + 1 ELSE 0
        /\ \A i \in 1 .. n - m + 1 : SubSeq(ages, m, n)[i] = ages[m + i - 1]
    BY <2>2, SubSeqProperties
  <2>4. QED
    BY <2>3 DEF Recent, m, n
<1>5. Len(Recent(ages)) = Len(ages) - Expired(ages)
  BY <1>1, <1>4
<1>6. ASSUME NEW i \in 1 .. Len(Recent(ages))
      PROVE  Recent(ages)[i] = ages[Expired(ages) + i]
  <2> DEFINE e == Expired(ages)
  <2>1. e \in Nat /\ Len(ages) \in Nat /\ i \in 1 .. Len(ages) - e
    BY <1>1, <1>5
  <2>2. (e + 1) + i - 1 = e + i /\ i \in 1 .. Len(ages) - (e + 1) + 1
    <3> HIDE DEF e
    <3>1. QED
      BY <2>1
  <2>3. QED
    BY <1>4, <2>2, Zenon
<1>7. QED
  BY <1>4, <1>5, <1>6, Zenon

LEMMA SecInitial == SecInit => SecClientInv
BY SecClientAssumption DEF SecInit, SecClientInv, NoFetch, Turns

LEMMA AcquireStep ==
  ASSUME SecClientInv, NEW t \in SecThreads, Acquire(t)
  PROVE  SecClientInv'
<1> DEFINE e == Expired(released)
           r == Recent(released)
<1>0. /\ grants \in Seq(Nat) /\ released \in Seq(Nat) /\ fetching \in [SecThreads -> Turns]
      /\ Len(released) <= SecLimit
  BY DEF SecClientInv
<1>1. PICK k \in Nat :
          /\ Len(grants) = k + Len(released)
          /\ \A i \in 1 .. Len(released) : released[i] = grants[k + i]
          /\ \A i \in 1 .. k : ~InWindow(grants[i])
  BY DEF SecClientInv
<1>2. /\ e \in 0 .. Len(released) /\ \A i \in 1 .. e : ~InWindow(released[i])
      /\ r \in Seq(Nat) /\ Len(r) = Len(released) - e
      /\ \A i \in 1 .. Len(r) : r[i] = released[e + i]
  BY <1>0, ExpiredOK, RecentOK
<1> HIDE DEF e, r
<1>3. /\ Len(grants) = (k + e) + Len(r) /\ k + e \in Nat
      /\ \A i \in 1 .. Len(r) : r[i] = grants[(k + e) + i]
  <2>1. Len(grants) = (k + e) + Len(r) /\ k + e \in Nat
    BY <1>0, <1>1, <1>2
  <2>2. ASSUME NEW i \in 1 .. Len(r) PROVE r[i] = grants[(k + e) + i]
    <3>1. e + i \in 1 .. Len(released) /\ k + (e + i) = (k + e) + i
      BY <1>0, <1>2
    <3>2. r[i] = released[e + i]
      BY <1>2
    <3>3. QED
      BY <3>1, <3>2, <1>1
  <2>3. QED
    BY <2>1, <2>2
<1>4. \A i \in 1 .. k + e : ~InWindow(grants[i])
  <2> SUFFICES ASSUME NEW i \in 1 .. k + e, i > k PROVE ~InWindow(grants[i])
    BY <1>1
  <2>1. i - k \in 1 .. e /\ i - k \in 1 .. Len(released) /\ k + (i - k) = i
    BY <1>0, <1>2
  <2>2. released[i - k] = grants[i]
    BY <2>1, <1>1
  <2>3. QED
    BY <2>1, <2>2, <1>2
<1>5. CASE Len(r) < SecLimit
  <2>1. /\ released' = Append(r, 0) /\ grants' = Append(grants, 0)
        /\ fetching' = [fetching EXCEPT ![t].pc = "send"]
    BY <1>5 DEF Acquire, r
  <2>2. /\ grants' \in Seq(Nat) /\ released' \in Seq(Nat)
        /\ Len(released') = Len(r) + 1 /\ Len(grants') = Len(grants) + 1
    BY <1>0, <1>2, <2>1
  <2>3. \A i \in 1 .. Len(released') : released'[i] = grants'[(k + e) + i]
    <3> SUFFICES ASSUME NEW i \in 1 .. Len(r) + 1 PROVE released'[i] = grants'[(k + e) + i]
      BY <2>2
    <3>1. CASE i \in 1 .. Len(r)
      <4>0. (k + e) + i \in 1 .. Len(grants)
        BY <3>1, <1>0, <1>2, <1>3
      <4>1. released'[i] = r[i]
        BY <3>1, <1>2, <2>1
      <4>2. grants'[(k + e) + i] = grants[(k + e) + i]
        BY <4>0, <1>0, <2>1
      <4>3. QED
        BY <3>1, <4>1, <4>2, <1>3
    <3>2. CASE i = Len(r) + 1
      <4>1. (k + e) + i = Len(grants) + 1
        BY <3>2, <1>2, <1>3
      <4>2. released'[i] = 0
        BY <3>2, <1>2, <2>1
      <4>3. grants'[Len(grants) + 1] = 0
        BY <1>0, <2>1
      <4>4. grants'[(k + e) + i] = 0
        BY <4>1, <4>3, Zenon
      <4>5. QED
        BY <4>2, <4>4
    <3>3. QED
      BY <3>1, <3>2, <1>2
  <2>4. \A i \in 1 .. k + e : ~InWindow(grants'[i])
    BY <1>0, <1>2, <1>3, <1>4, <2>1
  <2>5. fetching' \in [SecThreads -> Turns]
        /\ \A u \in SecThreads : fetching'[u].pc = "backoff" => fetching'[u].attempt <= SecRetries
    BY <1>0, <2>1 DEF SecClientInv, Turns
  <2>6. Len(released') <= SecLimit
    BY <1>5, <1>2, <2>2, SecClientAssumption
  <2>7. Len(grants') = (k + e) + Len(released')
    BY <1>0, <1>2, <1>3, <2>2
  <2>8. QED
    BY <1>3, <2>2, <2>3, <2>4, <2>5, <2>6, <2>7 DEF SecClientInv
<1>6. CASE ~(Len(r) < SecLimit)
  <2>1. released' = r /\ grants' = grants /\ fetching' = fetching
    BY <1>6 DEF Acquire, r
  <2>2. Len(r) <= SecLimit
    BY <1>0, <1>2, SecClientAssumption
  <2>3. QED
    BY <1>0, <1>2, <1>3, <1>4, <2>1, <2>2 DEF SecClientInv
<1>7. QED
  BY <1>5, <1>6

(* A thread's own steps: the others and the limiter stay as they are.          *)
LEMMA ThreadStep ==
  ASSUME SecClientInv, NEW t \in SecThreads, UNCHANGED <<released, grants>>,
         NEW turn \in Turns, fetching' = [fetching EXCEPT ![t] = turn],
         turn.pc = "backoff" => turn.attempt <= SecRetries
  PROVE  SecClientInv'
<1>1. fetching' \in [SecThreads -> Turns]
      /\ \A u \in SecThreads : fetching'[u].pc = "backoff" => fetching'[u].attempt <= SecRetries
  BY DEF SecClientInv
<1>2. QED
  BY <1>1 DEF SecClientInv

LEMMA OwnSteps ==
  ASSUME SecClientInv, NEW t \in SecThreads,
         GetBytes(t) \/ Receive(t) \/ Transient(t) \/ TurnAgain(t)
  PROVE  SecClientInv'
<1>0. fetching[t] \in Turns /\ NoFetch \in Turns /\ NoFetch.pc # "backoff"
  BY DEF SecClientInv, NoFetch, Turns
<1>1. CASE GetBytes(t)
  <2>1. [pc |-> "acquire", attempt |-> 1] \in Turns
    BY DEF Turns
  <2>2. QED
    BY <1>1, <2>1, ThreadStep DEF GetBytes
<1>2. CASE Receive(t)
  BY <1>0, <1>2, ThreadStep DEF Receive
<1>3. CASE Transient(t)
  <2> DEFINE turn == [pc |-> "backoff", attempt |-> fetching[t].attempt]
  <2>1. turn \in Turns
    BY <1>0 DEF Turns
  <2>2. CASE fetching[t].attempt > SecRetries
    BY <1>0, <1>3, <2>2, ThreadStep DEF Transient
  <2>3. CASE ~(fetching[t].attempt > SecRetries)
    <3>1. turn.attempt <= SecRetries
      BY <2>3, <1>0, SecClientAssumption DEF Turns
    <3>2. fetching' = [fetching EXCEPT ![t] = turn] /\ UNCHANGED <<released, grants>>
      BY <1>3, <2>3 DEF Transient
    <3>3. QED
      BY <2>1, <3>1, <3>2, ThreadStep
  <2>4. QED
    BY <2>2, <2>3
<1>4. CASE TurnAgain(t)
  <2> DEFINE turn == [pc |-> "acquire", attempt |-> fetching[t].attempt + 1]
  <2>1. turn \in Turns /\ turn.pc # "backoff"
    BY <1>0 DEF Turns
  <2>2. fetching[t].pc = "backoff" /\ UNCHANGED <<released, grants>>
    BY <1>4 DEF TurnAgain
  <2>3. ~(fetching[t].attempt > SecRetries)
    <3>1. fetching[t].attempt <= SecRetries
      BY <2>2 DEF SecClientInv
    <3>2. fetching[t].attempt \in Nat
      BY <1>0 DEF Turns
    <3>3. QED
      BY <3>1, <3>2, SecClientAssumption
  <2>4. fetching' = [fetching EXCEPT ![t] = turn]
    BY <1>4, <2>3 DEF TurnAgain
  <2>5. QED
    BY <2>1, <2>2, <2>4, ThreadStep
<1>5. QED
  BY <1>1, <1>2, <1>3, <1>4

LEMMA OlderOK ==
  ASSUME NEW ages \in Seq(Nat)
  PROVE  /\ Older(ages) \in Seq(Nat) /\ Len(Older(ages)) = Len(ages)
         /\ \A i \in 1 .. Len(ages) :
               /\ Older(ages)[i] = IF InWindow(ages[i]) THEN ages[i] + 1 ELSE ages[i]
               /\ ~InWindow(ages[i]) => ~InWindow(Older(ages)[i])
BY DEF Older

LEMMA TickStep ==
  ASSUME SecClientInv, SecTick
  PROVE  SecClientInv'
<1>0. grants \in Seq(Nat) /\ released \in Seq(Nat) /\ released' = Older(released)
      /\ grants' = Older(grants) /\ fetching' = fetching
  BY DEF SecClientInv, SecTick
<1>1. PICK k \in Nat :
          /\ Len(grants) = k + Len(released)
          /\ \A i \in 1 .. Len(released) : released[i] = grants[k + i]
          /\ \A i \in 1 .. k : ~InWindow(grants[i])
  BY DEF SecClientInv
<1>2. /\ grants' \in Seq(Nat) /\ released' \in Seq(Nat)
      /\ Len(released') = Len(released) /\ Len(grants') = Len(grants)
      /\ \A i \in 1 .. Len(released) :
            released'[i] = IF InWindow(released[i]) THEN released[i] + 1 ELSE released[i]
      /\ \A i \in 1 .. Len(grants) :
            /\ grants'[i] = IF InWindow(grants[i]) THEN grants[i] + 1 ELSE grants[i]
            /\ ~InWindow(grants[i]) => ~InWindow(grants'[i])
  BY <1>0, OlderOK
<1>3. \A i \in 1 .. Len(released') : released'[i] = grants'[k + i]
  <2> SUFFICES ASSUME NEW i \in 1 .. Len(released) PROVE released'[i] = grants'[k + i]
    BY <1>2
  <2>1. k + i \in 1 .. Len(grants) /\ released[i] = grants[k + i]
    BY <1>0, <1>1
  <2>2. QED
    BY <1>2, <2>1
<1>4. \A i \in 1 .. k : ~InWindow(grants'[i])
  BY <1>0, <1>1, <1>2
<1>5. QED
  BY <1>0, <1>1, <1>2, <1>3, <1>4 DEF SecClientInv

LEMMA SecClientInductive == SecClientSpec => []SecClientInv
<1>1. SecClientInv /\ [SecClientNext]_secVars => SecClientInv'
  <2> SUFFICES ASSUME SecClientInv, [SecClientNext]_secVars PROVE SecClientInv'
    OBVIOUS
  <2>1. ASSUME NEW t \in SecThreads,
               GetBytes(t) \/ Acquire(t) \/ Receive(t) \/ Transient(t) \/ TurnAgain(t)
        PROVE  SecClientInv'
    BY <2>1, OwnSteps, AcquireStep
  <2>2. CASE UNCHANGED secVars
    BY <2>2 DEF SecClientInv, secVars
  <2>3. QED
    BY <2>1, <2>2, TickStep DEF SecClientNext
<1>2. QED
  BY <1>1, SecInitial, PTL DEF SecClientSpec

(* For any threads, limit, window, retries and calls: no window holds more     *)
(* requests than the limit, and no call runs out of turns (SecRequestsBounded).*)
THEOREM SecBounded == SecClientSpec => []SecRequestsBounded
<1>1. SecClientInv => SecRequestsBounded
  <2> SUFFICES ASSUME SecClientInv PROVE SecRequestsBounded
    OBVIOUS
  <2>1. PICK k \in Nat :
            /\ Len(grants) = k + Len(released)
            /\ \A i \in 1 .. k : ~InWindow(grants[i])
    BY DEF SecClientInv
  <2>2. grants \in Seq(Nat) /\ released \in Seq(Nat) /\ Len(released) <= SecLimit
    BY DEF SecClientInv
  <2> DEFINE inside == {i \in DOMAIN grants : InWindow(grants[i])}
  <2>3. inside \subseteq k + 1 .. k + Len(released)
    BY <2>1, <2>2
  <2>4. /\ IsFiniteSet(k + 1 .. k + Len(released))
        /\ Cardinality(k + 1 .. k + Len(released)) = Len(released)
    <3>1. k + 1 \in Int /\ k + Len(released) \in Int /\ Len(released) \in Nat
      BY <2>2
    <3>2. /\ IsFiniteSet(k + 1 .. k + Len(released))
          /\ Cardinality(k + 1 .. k + Len(released)) =
                IF k + 1 > k + Len(released) THEN 0 ELSE (k + Len(released)) - (k + 1) + 1
      BY <3>1, FS_Interval, Zenon
    <3>3. QED
      BY <3>1, <3>2
  <2>5. Cardinality(inside) <= Len(released) /\ Cardinality(inside) \in Nat
    BY <2>3, <2>4, FS_Subset, FS_CardinalityType
  <2>6. Cardinality(inside) <= SecLimit
    BY <2>2, <2>5, SecClientAssumption
  <2>7. \A t \in SecThreads : fetching[t].pc # "assertion"
    BY DEF SecClientInv, Turns
  <2>8. QED
    BY <2>6, <2>7 DEF SecRequestsBounded
<1>2. QED
  BY <1>1, SecClientInductive, PTL

----------------------------------------------------------------------------
(* ArticleLanding.                                                             *)
Answering == {"check", "response", "manifest", "point"}
LandingType == [pc : {"idle", "cached", "request"} \cup Answering,
                query : Queries, news : News \cup {NoNews}]

(* From its request on a query has no recent answer in the cache, and the      *)
(* answer under way is the last one; the pointer is written for a whole pair.  *)
UnderWay ==
    /\ landing.pc \in Answering \cup {"request"} => ~cache[Query].fresh
    /\ landing.pc \in Answering => latest[Query] = Answered
    /\ landing.pc = "manifest" => Answered \in responses[Query]
    /\ landing.pc = "point" => Whole(Query, Answered)

ArticlesInv ==
    /\ responses \in [Queries -> SUBSET News] /\ described \in [Queries -> SUBSET News]
    /\ cache \in [Queries -> [news : News \cup {NoNews}, fresh : BOOLEAN]]
    /\ latest \in [Queries -> News \cup {NoNews}]
    /\ landing \in LandingType
    /\ landing.pc \in Answering => Answered \in News
    /\ UnderWay
    /\ CacheServesLatest

LEMMA ArticlesInitial == ArticlesInit => ArticlesInv
BY ArticleAssumption
   DEF ArticlesInit, ArticlesInv, LandingType, NoLanding, NoCache, Queries, UnderWay,
       CacheServesLatest, Answering

(* The landing goes to a ticker's first step, or rests.                        *)
LEMMA NextTickerOK ==
  ASSUME landing \in LandingType, NextTicker
  PROVE  landing' \in LandingType /\ landing'.pc \in {"idle", "cached"}
BY ArticleAssumption DEF NextTicker, LandingType, NoLanding, Queries, Query

LEMMA RestingOK ==
  ASSUME ArticlesInv, landing' \in LandingType, landing'.pc \in {"idle", "cached", "request"},
         landing'.pc = "request" => landing'.query = Query /\ ~cache[Query].fresh,
         UNCHANGED <<responses, described, cache, latest>>
  PROVE  ArticlesInv'
BY DEF ArticlesInv, UnderWay, CacheServesLatest, Answering, Whole, Query

LEMMA ArticlesStep ==
  ASSUME ArticlesInv, ArticlesNext
  PROVE  ArticlesInv'
<1> DEFINE q == landing.query
           a == landing.news
<1>0. /\ responses \in [Queries -> SUBSET News] /\ described \in [Queries -> SUBSET News]
      /\ cache \in [Queries -> [news : News \cup {NoNews}, fresh : BOOLEAN]]
      /\ latest \in [Queries -> News \cup {NoNews}]
      /\ landing \in LandingType /\ q \in Queries /\ UnderWay /\ CacheServesLatest
      /\ landing.pc \in Answering => a \in News
  BY DEF ArticlesInv, LandingType, Answered
<1>1. NoLanding \in LandingType /\ NoLanding.pc = "idle"
  BY ArticleAssumption DEF NoLanding, LandingType, Queries
<1>2. CASE StartLanding
  <2>1. landing' \in LandingType /\ landing'.pc = "cached"
    BY <1>1, <1>2 DEF StartLanding, LandingType
  <2>2. QED
    BY <2>1, <1>2, RestingOK DEF StartLanding
<1>3. CASE Cached
  <2>1. CASE ~cache[q].fresh
    <3>1. landing' = [landing EXCEPT !.pc = "request"]
      BY <1>3, <2>1 DEF Cached, LandingTo, Query
    <3>2. landing' \in LandingType /\ landing'.pc = "request" /\ landing'.query = q
      BY <3>1, <1>0 DEF LandingType
    <3>3. QED
      BY <3>2, <2>1, <1>3, RestingOK DEF Cached, Query
  <2>2. CASE cache[q].fresh
    BY <1>0, <1>1, <1>3, <2>2, NextTickerOK, RestingOK DEF Cached, Query
  <2>3. QED
    BY <2>1, <2>2
<1>4. CASE RequestNews
  <2>1. PICK n \in News : /\ landing' = [landing EXCEPT !.pc = "check", !.news = n]
                          /\ latest' = [latest EXCEPT ![q] = n]
    BY <1>4 DEF RequestNews, Query
  <2>2. /\ landing' \in LandingType /\ landing'.pc = "check" /\ landing'.query = q
        /\ landing'.news = n
    BY <2>1, <1>0 DEF LandingType, Answering
  <2>3. UNCHANGED <<responses, described, cache>> /\ ~cache[q].fresh
    BY <1>0, <1>4 DEF RequestNews, UnderWay, Query
  <2>4. latest' \in [Queries -> News \cup {NoNews}] /\ latest'[q] = n
        /\ \A r \in Queries : r # q => latest'[r] = latest[r]
    BY <1>0, <2>1
  <2>5. CacheServesLatest'
    BY <1>0, <2>3, <2>4 DEF CacheServesLatest, Whole
  <2>6. UnderWay'
    BY <2>2, <2>3, <2>4 DEF UnderWay, Query, Answered, Answering
  <2>7. QED
    BY <1>0, <2>2, <2>3, <2>4, <2>5, <2>6 DEF ArticlesInv, Answered
<1>5. CASE CheckManifest
  <2>0. /\ UNCHANGED <<responses, described, cache, latest>> /\ landing.pc = "check"
    BY <1>5 DEF CheckManifest
  <2>1. CASE landing' = NoLanding
    BY <2>0, <2>1, <1>1, RestingOK
  <2>2. CASE landing' = [landing EXCEPT !.pc = "response"]
    <3>1. /\ landing' \in LandingType /\ landing'.pc = "response" /\ landing'.query = q
          /\ landing'.news = a
      BY <2>2, <1>0 DEF LandingType, Answering
    <3>2. UnderWay' /\ CacheServesLatest'
      BY <3>1, <2>0, <1>0 DEF UnderWay, Query, Answered, Answering, CacheServesLatest, Whole
    <3>3. QED
      BY <1>0, <2>0, <3>1, <3>2 DEF ArticlesInv, Answered, Answering
  <2>3. CASE landing' = [landing EXCEPT !.pc = "point"] /\ Whole(q, a)
    <3>1. /\ landing' \in LandingType /\ landing'.pc = "point" /\ landing'.query = q
          /\ landing'.news = a
      BY <2>3, <1>0 DEF LandingType, Answering
    <3>2. UnderWay' /\ CacheServesLatest'
      BY <3>1, <2>0, <2>3, <1>0 DEF UnderWay, Query, Answered, Answering, CacheServesLatest, Whole
    <3>3. QED
      BY <1>0, <2>0, <3>1, <3>2 DEF ArticlesInv, Answered, Answering
  <2>4. QED
    BY <1>5, <2>1, <2>2, <2>3 DEF CheckManifest, LandingTo, Query, Answered, Whole
<1>6. CASE WriteResponse
  <2>0. /\ responses' = [responses EXCEPT ![q] = @ \cup {a}]
        /\ landing' = [landing EXCEPT !.pc = "manifest"] /\ landing.pc = "response"
        /\ UNCHANGED <<described, cache, latest>>
    BY <1>6 DEF WriteResponse, LandingTo, Query, Answered
  <2>1. /\ landing' \in LandingType /\ landing'.pc = "manifest" /\ landing'.query = q
        /\ landing'.news = a
    BY <2>0, <1>0 DEF LandingType, Answering
  <2>2. /\ responses' \in [Queries -> SUBSET News] /\ a \in responses'[q]
        /\ \A r \in Queries : responses[r] \subseteq responses'[r]
    BY <2>0, <1>0 DEF Answering
  <2>3. UnderWay' /\ CacheServesLatest'
    BY <2>0, <2>1, <2>2, <1>0 DEF UnderWay, Query, Answered, Answering, CacheServesLatest, Whole
  <2>4. QED
    BY <1>0, <2>0, <2>1, <2>2, <2>3 DEF ArticlesInv, Answered, Answering
<1>7. CASE WriteManifest
  <2>0. /\ described' = [described EXCEPT ![q] = @ \cup {a}]
        /\ landing' = [landing EXCEPT !.pc = "point"] /\ landing.pc = "manifest"
        /\ UNCHANGED <<responses, cache, latest>>
    BY <1>7 DEF WriteManifest, LandingTo, Query, Answered
  <2>1. /\ landing' \in LandingType /\ landing'.pc = "point" /\ landing'.query = q
        /\ landing'.news = a
    BY <2>0, <1>0 DEF LandingType, Answering
  <2>2. /\ described' \in [Queries -> SUBSET News] /\ a \in described'[q]
        /\ \A r \in Queries : described[r] \subseteq described'[r]
    BY <2>0, <1>0 DEF Answering
  <2>3. UnderWay' /\ CacheServesLatest'
    BY <2>0, <2>1, <2>2, <1>0 DEF UnderWay, Query, Answered, Answering, CacheServesLatest, Whole
  <2>4. QED
    BY <1>0, <2>0, <2>1, <2>2, <2>3 DEF ArticlesInv, Answered, Answering
<1>8. CASE Point
  <2>0. /\ cache' = [cache EXCEPT ![q] = [news |-> a, fresh |-> TRUE]]
        /\ landing' \in LandingType /\ landing'.pc \in {"idle", "cached"}
        /\ UNCHANGED <<responses, described, latest>> /\ landing.pc = "point"
    BY <1>0, <1>8, NextTickerOK DEF Point, Query, Answered
  <2>1. /\ a \in News /\ Whole(q, a) /\ latest[q] = a
    BY <1>0, <2>0 DEF UnderWay, Query, Answered, Answering
  <2>2. /\ cache' \in [Queries -> [news : News \cup {NoNews}, fresh : BOOLEAN]]
        /\ cache'[q].news = a /\ \A r \in Queries : r # q => cache'[r] = cache[r]
    BY <1>0, <2>0, <2>1
  <2>3. CacheServesLatest'
    BY <1>0, <2>0, <2>1, <2>2 DEF CacheServesLatest, Whole
  <2>4. UnderWay'
    BY <2>0 DEF UnderWay, Answering
  <2>5. QED
    BY <1>0, <2>0, <2>2, <2>3, <2>4 DEF ArticlesInv, Answering
<1>9. CASE LandingFails
  BY <1>1, <1>9, RestingOK DEF LandingFails
<1>10. ASSUME NEW r \in Queries, Expire(r) PROVE ArticlesInv'
  <2>0. /\ cache' = [cache EXCEPT ![r].fresh = FALSE]
        /\ UNCHANGED <<responses, described, latest, landing>>
    BY <1>10 DEF Expire
  <2>1. /\ cache' \in [Queries -> [news : News \cup {NoNews}, fresh : BOOLEAN]]
        /\ ~cache'[r].fresh /\ \A s \in Queries : s # r => cache'[s] = cache[s]
    BY <1>0, <2>0
  <2>2. \A s \in Queries : cache'[s].fresh => cache'[s] = cache[s] /\ cache[s].fresh
    BY <2>1
  <2>3. CacheServesLatest' /\ UnderWay'
    BY <1>0, <2>0, <2>2 DEF CacheServesLatest, UnderWay, Whole, Query, Answered, Answering
  <2>4. QED
    BY <1>0, <2>0, <2>1, <2>3 DEF ArticlesInv, Answered
<1>11. QED
  BY <1>2, <1>3, <1>4, <1>5, <1>6, <1>7, <1>8, <1>9, <1>10 DEF ArticlesNext, LandNews

(* For any tickers, answers and failures: what the cache serves is the last    *)
(* answer, from a whole pair (CacheServesLatest).                              *)
THEOREM CacheServes == ArticlesSpec => []CacheServesLatest
<1>1. ArticlesInv /\ UNCHANGED articleVars => ArticlesInv'
  BY DEF ArticlesInv, UnderWay, CacheServesLatest, Whole, Query, Answered, articleVars
<1>2. ArticlesInv /\ [ArticlesNext]_articleVars => ArticlesInv'
  BY <1>1, ArticlesStep
<1>3. ArticlesInv => CacheServesLatest
  BY DEF ArticlesInv
<1>4. QED
  BY <1>2, <1>3, ArticlesInitial, PTL DEF ArticlesSpec

----------------------------------------------------------------------------
(* ResearchChunks.                                                             *)
TextOK ==
    /\ document.length \in Nat
    /\ document.heads \subseteq 0 .. document.length - 1
    /\ document.selected \subseteq document.heads

ChunkType == [section : Nat, parent : Nat, parentEnd : Nat, from : Nat, to : Nat]

Held(t) == \E i \in DOMAIN chunks : chunks[i].from <= t /\ t < chunks[i].to

(* Where the loops stand: inside a section, a parent and before its end; what  *)
(* is before that is in a chunk, and how the last chunk lies to the next.      *)
InSection ==
    /\ cursor.section \in Sections
    /\ cursor.section <= cursor.parent /\ cursor.parent <= cursor.child
    /\ cursor.parent < SectionEnd(cursor.section) /\ cursor.child < ParentEnd
    /\ \A h \in Sections : h < cursor.section => \A t \in h .. SectionEnd(h) - 1 : Held(t)
    /\ \A t \in cursor.section .. cursor.child - 1 : Held(t)
    /\ chunks # <<>> =>
          LET last == chunks[Len(chunks)] IN
          \/ /\ cursor.parent = last.parent /\ cursor.child = last.to - Overlap
             /\ last.to < ParentEnd
          \/ cursor.child = cursor.parent /\ last.to <= cursor.parent

Between ==
    /\ \A h \in Sections : h <= cursor.section => \A t \in h .. SectionEnd(h) - 1 : Held(t)
    /\ chunks # <<>> =>
          \A s \in Sections : s > cursor.section => chunks[Len(chunks)].to <= s

ChunksInv ==
    /\ TextOK
    /\ cursor \in [pc : {"section", "cut", "done"}, section : Int, parent : Nat, child : Nat]
    /\ chunks \in Seq(ChunkType)
    /\ cursor.pc = "cut" => InSection
    /\ cursor.pc # "cut" => Between
    /\ cursor.pc = "done" => \A s \in Sections : s <= cursor.section
    /\ ChunksAreSound

LEMMA SectionEndOK ==
  ASSUME TextOK, NEW s \in Sections
  PROVE  /\ s \in Nat /\ s < document.length
         /\ SectionEnd(s) \in Nat /\ SectionEnd(s) \in Bounds
         /\ s < SectionEnd(s) /\ SectionEnd(s) <= document.length
         /\ \A b \in Bounds : b > s => SectionEnd(s) <= b
<1>1. s \in Nat /\ s < document.length
  BY DEF TextOK, Sections
<1> DEFINE After == {b \in Bounds : b > s}
<1>2. Bounds \subseteq Nat /\ \A b \in Bounds : b <= document.length
  BY DEF TextOK, Bounds
<1>3. document.length \in After
  BY <1>1 DEF Bounds, TextOK
<1>4. PICK e \in After : \A b \in After : e <= b
  BY <1>2, <1>3, Least
<1>5. e \in Bounds /\ e > s /\ \A b \in Bounds : b > s => e <= b
  BY <1>4
<1>6. /\ SectionEnd(s) \in Bounds /\ SectionEnd(s) > s
      /\ \A b \in Bounds : b > s => SectionEnd(s) <= b
  BY <1>5, Zenon DEF SectionEnd
<1>7. QED
  BY <1>1, <1>2, <1>6

LEMMA SectionsApart ==
  ASSUME TextOK, NEW r \in Sections, NEW s \in Sections, r < s
  PROVE  SectionEnd(r) <= s
<1>1. s \in Bounds
  BY DEF Sections, Bounds, TextOK
<1>2. QED
  BY <1>1, SectionEndOK

(* A token that should be found lies in a section.                             *)
LEMMA FindableInSection ==
  ASSUME TextOK, NEW t \in Findable
  PROVE  \E h \in Sections : h <= t /\ t < SectionEnd(h)
<1>1. t \in Nat /\ t < document.length
  BY DEF Findable, TextOK
<1>2. CASE document.heads = {}
  <2>1. document.selected = {} /\ 0 \in Sections /\ Bounds = {document.length}
    BY <1>1, <1>2 DEF TextOK, Sections, Bounds
  <2>2. SectionEnd(0) = document.length
    BY <2>1, SectionEndOK
  <2>3. QED
    BY <1>1, <2>1, <2>2
<1>3. CASE document.heads # {}
  <2>1. PICK h \in document.heads :
             /\ h <= t /\ \A g \in document.heads : g <= t => g <= h
             /\ document.selected = {} \/ h \in document.selected
    BY <1>3 DEF Findable
  <2>2. h \in Sections
    BY <1>3, <2>1 DEF Sections
  <2>3. /\ SectionEnd(h) \in Nat /\ SectionEnd(h) \in Bounds
        /\ h < SectionEnd(h)
    BY <2>2, SectionEndOK
  <2>4. h \in Nat
    BY DEF TextOK
  <2>5. t < SectionEnd(h)
    <3>1. CASE SectionEnd(h) = document.length
      BY <3>1, <1>1
    <3>2. CASE SectionEnd(h) \in document.heads
      BY <3>2, <2>1, <2>3, <2>4, <1>1
    <3>3. QED
      BY <3>1, <3>2, <2>3 DEF Bounds
  <2>6. QED
    BY <2>1, <2>2, <2>5
<1>4. QED
  BY <1>2, <1>3

(* The ends of the windows under the cursor.                                   *)
LEMMA WindowEnds ==
  ASSUME TextOK, cursor.section \in Sections, cursor.parent \in Nat, cursor.child \in Nat,
         cursor.parent < SectionEnd(cursor.section)
  PROVE  /\ ParentEnd \in Nat /\ ParentEnd <= SectionEnd(cursor.section)
         /\ cursor.parent < ParentEnd /\ ParentEnd - cursor.parent <= ParentTokens
         /\ cursor.child < ParentEnd =>
               /\ ChunkEnd \in Nat /\ cursor.child < ChunkEnd /\ ChunkEnd <= ParentEnd
               /\ ChunkEnd - cursor.child <= Target
               /\ ChunkEnd < ParentEnd => ChunkEnd = cursor.child + Target
<1>1. SectionEnd(cursor.section) \in Nat
  BY SectionEndOK
<1>2. /\ ParentEnd \in Nat /\ ParentEnd <= SectionEnd(cursor.section)
      /\ cursor.parent < ParentEnd /\ ParentEnd - cursor.parent <= ParentTokens
  BY <1>1, ChunksAssumption DEF ParentEnd, UpTo
<1>3. QED
  BY <1>2, ChunksAssumption DEF ChunkEnd, UpTo

LEMMA ChunksInitial == ChunksInit => ChunksInv
<1> SUFFICES ASSUME ChunksInit PROVE ChunksInv
  OBVIOUS
<1>1. TextOK
  BY ChunksAssumption DEF ChunksInit, TextOK
<1>2. \A s \in Sections : s \in Nat
  BY <1>1, SectionEndOK
<1>3. cursor \in [pc : {"section", "cut", "done"}, section : Int, parent : Nat, child : Nat]
  BY DEF ChunksInit
<1>4. chunks = <<>> /\ cursor.pc = "section" /\ cursor.section = -1
  BY DEF ChunksInit
<1>5. Between
  BY <1>2, <1>4 DEF Between
<1>6. ChunksAreSound
  BY <1>4 DEF ChunksAreSound
<1>7. QED
  BY <1>1, <1>3, <1>4, <1>5, <1>6 DEF ChunksInv

LEMMA BeginSectionStep == ChunksInv /\ BeginSection => ChunksInv'
<1> SUFFICES ASSUME ChunksInv, BeginSection PROVE ChunksInv'
  OBVIOUS
<1>0. UNCHANGED <<document, chunks>> /\ Sections' = Sections
      /\ \A t : Held(t)' <=> Held(t)
  BY DEF BeginSection, Sections, Held
<1>1. PICK s \in Sections :
          /\ s > cursor.section /\ \A r \in Sections : r > cursor.section => s <= r
          /\ cursor' = [pc |-> "cut", section |-> s, parent |-> s, child |-> s]
  BY DEF BeginSection
<1>2. TextOK /\ TextOK'
  BY <1>0 DEF ChunksInv, TextOK
<1>3. /\ s \in Nat /\ s < SectionEnd(s) /\ SectionEnd(s) \in Nat
  BY <1>2, SectionEndOK
<1>4. \A h : SectionEnd(h)' = SectionEnd(h)
  BY <1>0 DEF SectionEnd, Bounds
<1>5. /\ cursor'.pc = "cut" /\ cursor'.section = s /\ cursor'.parent = s /\ cursor'.child = s
      /\ cursor' \in [pc : {"section", "cut", "done"}, section : Int, parent : Nat, child : Nat]
  BY <1>1, <1>3
<1>6. s < ParentEnd'
  BY <1>3, <1>4, <1>5, ChunksAssumption DEF ParentEnd, UpTo
<1>7. Between /\ cursor.section \in Int
  BY DEF ChunksInv, BeginSection
<1>8. \A h \in Sections : h < s => \A t \in h .. SectionEnd(h) - 1 : Held(t)
  <2>1. ASSUME NEW h \in Sections, h < s PROVE h <= cursor.section
    BY <2>1, <1>1, <1>2, <1>3, <1>7, SectionEndOK
  <2>2. QED
    BY <2>1, <1>7 DEF Between
<1>9. chunks # <<>> => chunks[Len(chunks)].to <= s
  BY <1>1, <1>7 DEF Between
<1>10. InSection'
  <2>1. SectionEnd(cursor.section)' = SectionEnd(s)
    BY <1>0, <1>5 DEF SectionEnd, Bounds
  <2>2. QED
    <3>1. /\ cursor'.section \in Sections' /\ cursor'.section <= cursor'.parent
          /\ cursor'.parent <= cursor'.child
          /\ (cursor.parent < SectionEnd(cursor.section))' /\ cursor'.child < ParentEnd'
      BY <2>1, <1>0, <1>3, <1>5, <1>6
    <3>2. /\ \A h \in Sections' : h < cursor'.section
                => \A t \in h .. SectionEnd(h)' - 1 : Held(t)'
          /\ \A t \in cursor'.section .. cursor'.child - 1 : Held(t)'
      <4>1. cursor'.section .. cursor'.child - 1 = {}
        BY <1>3, <1>5
      <4>2. \A h \in Sections : h < s => \A t \in h .. SectionEnd(h)' - 1 : Held(t)'
        <5>1. SUFFICES ASSUME NEW h \in Sections, h < s, NEW t \in h .. SectionEnd(h)' - 1
                       PROVE Held(t)'
          OBVIOUS
        <5>2. t \in h .. SectionEnd(h) - 1
          BY <1>4
        <5>3. Held(t)
          BY <5>1, <5>2, <1>8
        <5>4. QED
          BY <5>3, <1>0
      <4>3. QED
        BY <4>1, <4>2, <1>0, <1>5
    <3>3. chunks' # <<>> => /\ cursor'.child = cursor'.parent
                           /\ chunks'[Len(chunks')].to <= cursor'.parent
      BY <1>0, <1>5, <1>9
    <3>4. QED
      BY <3>1, <3>2, <3>3 DEF InSection
<1>11. ChunksAreSound'
  BY <1>0 DEF ChunksInv, ChunksAreSound
<1>12. QED
  BY <1>0, <1>2, <1>5, <1>10, <1>11 DEF ChunksInv

LEMMA EndDocumentStep == ChunksInv /\ EndDocument => ChunksInv'
<1> SUFFICES ASSUME ChunksInv, EndDocument PROVE ChunksInv'
  OBVIOUS
<1>0. /\ UNCHANGED <<document, chunks>> /\ Sections' = Sections
      /\ cursor' = [cursor EXCEPT !.pc = "done"] /\ cursor.pc = "section"
      /\ \A s \in Sections : s <= cursor.section
  BY DEF EndDocument, Sections
<1>1. /\ \A t : Held(t)' <=> Held(t)
      /\ \A h : SectionEnd(h)' = SectionEnd(h)
  BY <1>0 DEF Held, SectionEnd, Bounds
<1>2. /\ cursor'.pc = "done" /\ cursor'.section = cursor.section
      /\ cursor' \in [pc : {"section", "cut", "done"}, section : Int, parent : Nat, child : Nat]
  BY <1>0 DEF ChunksInv
<1>3. Between'
  BY <1>0, <1>1, <1>2 DEF Between, ChunksInv
<1>4. TextOK' /\ ChunksAreSound'
  BY <1>0 DEF ChunksInv, TextOK, ChunksAreSound
<1>5. QED
  BY <1>0, <1>2, <1>3, <1>4 DEF ChunksInv

LEMMA CutStep == ChunksInv /\ Cut => ChunksInv'
<1> SUFFICES ASSUME ChunksInv, Cut PROVE ChunksInv'
  OBVIOUS
<1> DEFINE new == [section |-> cursor.section, parent |-> cursor.parent,
                   parentEnd |-> ParentEnd, from |-> cursor.child, to |-> ChunkEnd]
           n == Len(chunks)
           e == SectionEnd(cursor.section)
<1>0. /\ UNCHANGED document /\ Sections' = Sections
      /\ chunks' = Append(chunks, new) /\ cursor' = NextWindow /\ cursor.pc = "cut"
  BY DEF Cut, Sections
<1>1. /\ TextOK /\ InSection /\ ChunksAreSound /\ chunks \in Seq(ChunkType)
      /\ cursor \in [pc : {"section", "cut", "done"}, section : Int, parent : Nat, child : Nat]
  BY <1>0 DEF ChunksInv
<1>2. /\ cursor.section \in Sections /\ cursor.section <= cursor.parent
      /\ cursor.parent <= cursor.child /\ cursor.child < ParentEnd /\ cursor.parent < e
  BY <1>1 DEF InSection
<1>3. /\ cursor.section \in Nat /\ e \in Nat /\ e \in Bounds /\ cursor.section < e
      /\ \A b \in Bounds : b > cursor.section => e <= b
  BY <1>1, <1>2, SectionEndOK
<1>4. /\ ParentEnd \in Nat /\ ParentEnd <= e
      /\ ParentEnd - cursor.parent <= ParentTokens
      /\ ChunkEnd \in Nat /\ cursor.child < ChunkEnd /\ ChunkEnd <= ParentEnd
      /\ ChunkEnd - cursor.child <= Target
      /\ ChunkEnd < ParentEnd => ChunkEnd = cursor.child + Target
  BY <1>1, <1>2, WindowEnds
<1>5. new \in ChunkType
  BY <1>1, <1>3, <1>4 DEF ChunkType
<1>6. /\ chunks' \in Seq(ChunkType) /\ Len(chunks') = n + 1 /\ n \in Nat
      /\ DOMAIN chunks' = 1 .. n + 1 /\ DOMAIN chunks = 1 .. n
      /\ chunks'[n + 1] = new /\ \A i \in 1 .. n : chunks'[i] = chunks[i]
  BY <1>0, <1>1, <1>5
<1>7. /\ \A h : SectionEnd(h)' = SectionEnd(h) /\ TextOK'
  BY <1>0, <1>1 DEF SectionEnd, Bounds, TextOK
<1>8. \A t : Held(t) => Held(t)'
  BY <1>6 DEF Held
<1>9. \A t \in cursor.child .. ChunkEnd - 1 : Held(t)'
  <2> SUFFICES ASSUME NEW t \in cursor.child .. ChunkEnd - 1 PROVE Held(t)'
    OBVIOUS
  <2>1. chunks'[n + 1].from <= t /\ t < chunks'[n + 1].to
    BY <1>1, <1>4, <1>6
  <2>2. n + 1 \in DOMAIN chunks'
    BY <1>6
  <2>3. QED
    BY <2>1, <2>2 DEF Held
<1>10. \A t \in cursor.section .. ChunkEnd - 1 : Held(t)'
  BY <1>1, <1>2, <1>3, <1>4, <1>8, <1>9 DEF InSection
<1>11. \A h \in Sections : h < cursor.section => \A t \in h .. SectionEnd(h) - 1 : Held(t)'
  BY <1>1, <1>8 DEF InSection
<1>12. n > 0 => /\ chunks[n] \in ChunkType /\ chunks[n].from < chunks[n].to
                /\ chunks[n].parent <= chunks[n].from
                /\ \/ /\ cursor.parent = chunks[n].parent /\ cursor.child = chunks[n].to - Overlap
                      /\ chunks[n].to < ParentEnd
                   \/ cursor.child = cursor.parent /\ chunks[n].to <= cursor.parent
  <2> SUFFICES ASSUME n > 0
               PROVE /\ chunks[n] \in ChunkType /\ chunks[n].from < chunks[n].to
                     /\ chunks[n].parent <= chunks[n].from
                     /\ \/ /\ cursor.parent = chunks[n].parent
                           /\ cursor.child = chunks[n].to - Overlap
                           /\ chunks[n].to < ParentEnd
                        \/ cursor.child = cursor.parent /\ chunks[n].to <= cursor.parent
    OBVIOUS
  <2>1. chunks # <<>> /\ n \in DOMAIN chunks
    BY <1>6
  <2>2. chunks[n] \in ChunkType
    BY <1>1, <2>1
  <2>3. chunks[n].to - chunks[n].from \in 1 .. Target /\ chunks[n].parent <= chunks[n].from
    BY <1>1, <2>1 DEF ChunksAreSound
  <2>4. chunks[n].to \in Nat /\ chunks[n].from \in Nat
    BY <2>2 DEF ChunkType
  <2>5. chunks[n].from < chunks[n].to
    BY <2>3, <2>4, ChunksAssumption
  <2>6. QED
    BY <1>1, <2>1, <2>2, <2>3, <2>5 DEF InSection
<1>13. n > 0 => /\ chunks[n].to < ChunkEnd
                /\ cursor.parent = chunks[n].parent => cursor.child = chunks[n].to - Overlap
                /\ cursor.parent # chunks[n].parent => cursor.child >= chunks[n].to
  <2> SUFFICES ASSUME n > 0
               PROVE /\ chunks[n].to < ChunkEnd
                     /\ cursor.parent = chunks[n].parent => cursor.child = chunks[n].to - Overlap
                     /\ cursor.parent # chunks[n].parent => cursor.child >= chunks[n].to
    OBVIOUS
  <2>1. /\ chunks[n].to \in Nat /\ chunks[n].from \in Nat /\ chunks[n].parent \in Nat
        /\ cursor.child \in Nat /\ cursor.parent \in Nat
    BY <1>1, <1>12 DEF ChunkType
  <2>2. CASE /\ cursor.parent = chunks[n].parent /\ cursor.child = chunks[n].to - Overlap
             /\ chunks[n].to < ParentEnd
    <3>1. chunks[n].to < ChunkEnd
      <4>1. CASE ChunkEnd < ParentEnd
        BY <4>1, <2>1, <2>2, <1>4, ChunksAssumption
      <4>2. CASE ~(ChunkEnd < ParentEnd)
        BY <4>2, <2>1, <2>2, <1>4
      <4>3. QED
        BY <4>1, <4>2
    <3>2. QED
      BY <3>1, <2>2
  <2>3. CASE cursor.child = cursor.parent /\ chunks[n].to <= cursor.parent
    <3>1. chunks[n].to < ChunkEnd /\ chunks[n].parent < cursor.parent
      BY <2>1, <2>3, <1>4, <1>12
    <3>2. QED
      BY <3>1, <2>1, <2>3
  <2>4. QED
    BY <1>12, <2>2, <2>3
<1>14. ChunksAreSound'
  <2>1. ASSUME NEW i \in DOMAIN chunks'
        PROVE  LET c == chunks'[i] IN
               /\ c.section <= c.parent /\ c.parent <= c.from /\ c.to <= c.parentEnd
               /\ c.to - c.from \in 1 .. Target /\ c.parentEnd - c.parent <= ParentTokens
               /\ \A h \in document.heads : ~(c.section < h /\ h < c.parentEnd)
    <3>1. CASE i \in 1 .. n
      BY <3>1, <1>1, <1>6, Zenon DEF ChunksAreSound
    <3>2. CASE i = n + 1
      <4>1. chunks'[i] = new
        BY <3>2, <1>6
      <4>2. /\ new.section = cursor.section /\ new.parent = cursor.parent
            /\ new.parentEnd = ParentEnd /\ new.from = cursor.child /\ new.to = ChunkEnd
        OBVIOUS
      <4>3. ChunkEnd - cursor.child \in 1 .. Target
        BY <1>1, <1>4, ChunksAssumption
      <4>4. \A h \in document.heads : ~(cursor.section < h /\ h < ParentEnd)
        <5>1. ASSUME NEW h \in document.heads PROVE h \in Bounds /\ h \in Nat
          BY <1>1 DEF Bounds, TextOK
        <5>2. QED
          BY <5>1, <1>3, <1>4
      <4>5. QED
        BY <4>1, <4>2, <4>3, <4>4, <1>2, <1>4
    <3>3. QED
      BY <3>1, <3>2, <1>6
  <2>2. ASSUME NEW i \in 2 .. Len(chunks')
        PROVE  /\ chunks'[i - 1].to < chunks'[i].to
               /\ chunks'[i].parent = chunks'[i - 1].parent
                    => chunks'[i].from = chunks'[i - 1].to - Overlap
               /\ chunks'[i].parent # chunks'[i - 1].parent => chunks'[i].from >= chunks'[i - 1].to
    <3>1. CASE i \in 2 .. n
      <4>1. chunks'[i] = chunks[i] /\ chunks'[i - 1] = chunks[i - 1]
        BY <3>1, <1>6
      <4>2. QED
        BY <3>1, <4>1, <1>1 DEF ChunksAreSound
    <3>2. CASE i = n + 1
      <4>1. n > 0 /\ chunks'[i] = new /\ chunks'[i - 1] = chunks[n]
        BY <3>2, <1>6
      <4>2. QED
        BY <4>1, <1>13
    <3>3. QED
      BY <3>1, <3>2, <1>6
  <2>3. QED
    BY <2>1, <2>2, <1>0 DEF ChunksAreSound
<1>15. CASE ChunkEnd < ParentEnd
  <2>1. cursor' = [cursor EXCEPT !.child = ChunkEnd - Overlap]
    BY <1>0, <1>15 DEF NextWindow
  <2>2. ChunkEnd - Overlap \in Nat /\ cursor.child < ChunkEnd - Overlap
        /\ ChunkEnd - Overlap <= ChunkEnd
    BY <1>1, <1>4, <1>15, ChunksAssumption
  <2>3. /\ cursor'.pc = "cut" /\ cursor'.section = cursor.section
        /\ cursor'.parent = cursor.parent /\ cursor'.child = ChunkEnd - Overlap
        /\ cursor' \in [pc : {"section", "cut", "done"}, section : Int, parent : Nat, child : Nat]
    BY <1>0, <1>1, <2>1, <2>2
  <2>4. ParentEnd' = ParentEnd
    BY <2>3, <1>7 DEF ParentEnd
  <2>5. cursor.parent <= ChunkEnd - Overlap /\ ChunkEnd - Overlap < ParentEnd
    BY <1>1, <1>2, <1>4, <2>2, <1>15, ChunksAssumption
  <2>6. \A t \in cursor.section .. (ChunkEnd - Overlap) - 1 : Held(t)'
    BY <1>10, <1>3, <1>4, <2>2
  <2>7. InSection'
    <3>1. chunks'[Len(chunks')] = new /\ new.parent = cursor.parent /\ new.to = ChunkEnd
      BY <1>6
    <3>2. /\ cursor'.parent = chunks'[Len(chunks')].parent
          /\ cursor'.child = chunks'[Len(chunks')].to - Overlap
          /\ chunks'[Len(chunks')].to < ParentEnd'
      BY <3>1, <2>3, <2>4, <1>15
    <3>3. /\ cursor'.section \in Sections'
          /\ cursor'.section <= cursor'.parent /\ cursor'.parent <= cursor'.child
          /\ (cursor.parent < SectionEnd(cursor.section))' /\ cursor'.child < ParentEnd'
      <4>1. SectionEnd(cursor.section)' = e
        BY <1>0, <2>3 DEF SectionEnd, Bounds
      <4>2. QED
        BY <4>1, <1>0, <1>2, <2>3, <2>4, <2>5
    <3>4. /\ \A h \in Sections' : h < cursor'.section
                => \A t \in h .. SectionEnd(h)' - 1 : Held(t)'
          /\ \A t \in cursor'.section .. cursor'.child - 1 : Held(t)'
      BY <1>0, <1>7, <1>11, <2>3, <2>6
    <3>5. QED
      BY <3>2, <3>3, <3>4 DEF InSection
  <2>8. QED
    BY <1>6, <1>7, <1>14, <2>3, <2>7 DEF ChunksInv
<1>16. CASE ~(ChunkEnd < ParentEnd) /\ ParentEnd < e
  <2>0. ChunkEnd = ParentEnd
    BY <1>4, <1>16
  <2>1. cursor' = [cursor EXCEPT !.parent = ParentEnd, !.child = ParentEnd]
    BY <1>0, <1>16 DEF NextWindow
  <2>3. /\ cursor'.pc = "cut" /\ cursor'.section = cursor.section
        /\ cursor'.parent = ParentEnd /\ cursor'.child = ParentEnd
        /\ cursor' \in [pc : {"section", "cut", "done"}, section : Int, parent : Nat, child : Nat]
    BY <1>0, <1>1, <1>4, <2>1
  <2>4. ParentEnd < ParentEnd'
    <3>1. ParentEnd' = UpTo(ParentEnd, ParentTokens, e)
      BY <2>3, <1>7 DEF ParentEnd, UpTo
    <3>2. QED
      BY <3>1, <1>3, <1>4, <1>16, ChunksAssumption DEF UpTo
  <2>7. InSection'
    <3>1. chunks'[Len(chunks')] = new /\ new.to = ParentEnd
      BY <1>6, <2>0
    <3>2. cursor'.child = cursor'.parent /\ chunks'[Len(chunks')].to <= cursor'.parent
      BY <3>1, <2>3, <1>4
    <3>3. /\ cursor'.section \in Sections'
          /\ cursor'.section <= cursor'.parent /\ cursor'.parent <= cursor'.child
          /\ (cursor.parent < SectionEnd(cursor.section))' /\ cursor'.child < ParentEnd'
      <4>1. cursor.section <= ParentEnd
        BY <1>1, <1>2, <1>3, <1>4
      <4>2. SectionEnd(cursor.section)' = e
        BY <1>0, <2>3 DEF SectionEnd, Bounds
      <4>3. QED
        BY <4>1, <4>2, <1>0, <1>2, <1>4, <1>16, <2>3, <2>4
    <3>4. /\ \A h \in Sections' : h < cursor'.section
                => \A t \in h .. SectionEnd(h)' - 1 : Held(t)'
          /\ \A t \in cursor'.section .. cursor'.child - 1 : Held(t)'
      BY <1>0, <1>7, <1>10, <1>11, <2>0, <2>3
    <3>5. QED
      BY <3>2, <3>3, <3>4 DEF InSection
  <2>8. QED
    BY <1>6, <1>7, <1>14, <2>3, <2>7 DEF ChunksInv
<1>17. CASE ~(ChunkEnd < ParentEnd) /\ ~(ParentEnd < e)
  <2>0. ChunkEnd = e
    BY <1>3, <1>4, <1>17
  <2>1. cursor' = [cursor EXCEPT !.pc = "section"]
    BY <1>0, <1>17 DEF NextWindow
  <2>3. /\ cursor'.pc = "section" /\ cursor'.section = cursor.section
        /\ cursor' \in [pc : {"section", "cut", "done"}, section : Int, parent : Nat, child : Nat]
    BY <1>0, <1>1, <2>1
  <2>4. \A h \in Sections : h <= cursor.section => \A t \in h .. SectionEnd(h) - 1 : Held(t)'
    <3>1. \A h \in Sections : h \in Nat
      BY <1>1, SectionEndOK
    <3>2. ASSUME NEW h \in Sections, h <= cursor.section PROVE h < cursor.section \/ h = cursor.section
      BY <3>1, <3>2, <1>3
    <3>3. QED
      BY <3>2, <1>10, <1>11, <2>0
  <2>5. chunks'[Len(chunks')].to = e
    BY <1>6, <2>0
  <2>6. \A s \in Sections : s > cursor.section => e <= s
    <3>1. ASSUME NEW s \in Sections, s > cursor.section PROVE cursor.section < s
      BY <3>1, <1>1, <1>3, SectionEndOK
    <3>2. QED
      BY <3>1, <1>1, <1>2, SectionsApart
  <2>7. Between'
    BY <1>0, <1>7, <2>3, <2>4, <2>5, <2>6 DEF Between
  <2>8. QED
    BY <1>6, <1>7, <1>14, <2>3, <2>7 DEF ChunksInv
<1>18. QED
  BY <1>15, <1>16, <1>17

LEMMA ChunksInductive == ChunksSpec => []ChunksInv
<1>1. ChunksInv /\ UNCHANGED chunkVars => ChunksInv'
  <2> SUFFICES ASSUME ChunksInv, UNCHANGED chunkVars PROVE ChunksInv'
    OBVIOUS
  <2>1. document' = document /\ cursor' = cursor /\ chunks' = chunks
    BY DEF chunkVars
  <2>2. /\ TextOK' = TextOK /\ Sections' = Sections /\ Bounds' = Bounds
        /\ ChunksAreSound' = ChunksAreSound
    BY <2>1 DEF TextOK, Sections, Bounds, ChunksAreSound
  <2>3. /\ \A h : SectionEnd(h)' = SectionEnd(h)
        /\ SectionEnd(cursor.section)' = SectionEnd(cursor.section)
        /\ \A t : Held(t)' <=> Held(t)
    BY <2>1, <2>2 DEF SectionEnd, Held
  <2>4. ParentEnd' = ParentEnd
    BY <2>1, <2>3 DEF ParentEnd
  <2>5. (Between => Between') /\ (InSection => InSection')
    BY <2>1, <2>2, <2>3, <2>4 DEF Between, InSection
  <2>6. QED
    BY <2>1, <2>2, <2>5 DEF ChunksInv
<1>2. ChunksInv /\ [ChunksNext]_chunkVars => ChunksInv'
  BY <1>1, BeginSectionStep, EndDocumentStep, CutStep DEF ChunksNext
<1>3. QED
  BY <1>2, ChunksInitial, PTL DEF ChunksSpec

(* No token of a section is lost between two windows.                          *)
LEMMA TokensAreKept == ChunksInv => NothingLost
<1> SUFFICES ASSUME ChunksInv, cursor.pc = "done", NEW t \in Findable PROVE Held(t)
  BY DEF NothingLost, Held
<1>1. TextOK /\ Between /\ \A s \in Sections : s <= cursor.section
  BY DEF ChunksInv
<1>2. PICK h \in Sections : h <= t /\ t < SectionEnd(h)
  BY <1>1, FindableInSection
<1>3. t \in h .. SectionEnd(h) - 1
  BY <1>1, <1>2, SectionEndOK DEF Findable, TextOK
<1>4. QED
  BY <1>1, <1>3 DEF Between

(* Whatever the lengths of texts, sections, windows and overlap: no token that *)
(* should be found is lost, chunks lie within their bounds, and none only      *)
(* repeats the one before (ChunksCoverText).                                   *)
THEOREM ChunksCover == ChunksSpec => []ChunksCoverText
<1>1. ChunksInv => ChunksCoverText
  BY TokensAreKept DEF ChunksInv, ChunksCoverText
<1>2. QED
  BY <1>1, ChunksInductive, PTL

----------------------------------------------------------------------------
(* MarketQuality: what a date gives to the tables.                             *)

(* Silver and quarantine share the bars of a date out.                         *)
LEMMA SharedOut ==
  ASSUME NEW d \in Dates
  PROVE  /\ SilverOf[d] \cup QuarantineOf[d] = Content[d]
         /\ SilverOf[d] \cap QuarantineOf[d] = {}
BY DEF SilverOf, QuarantineOf

LEMMA BarsOK ==
  ASSUME NEW d \in Dates
  PROVE  /\ IsFiniteSet(Content[d])
         /\ \A b \in Content[d] : b.ticker \in STRING /\ b.bad \in BOOLEAN /\ b.id \in Nat
         /\ \A a, b \in Content[d] : a.id = b.id => a = b
BY QualityAssumption DEF Bars

(* Silver has one bar of a ticker,                                             *)
LEMMA OneOfATicker ==
  ASSUME NEW d \in Dates, NEW x \in SilverOf[d], NEW y \in SilverOf[d], x.ticker = y.ticker
  PROVE  x = y
<1>1. /\ x \in Content[d] /\ y \in Content[d] /\ Good(x) /\ Good(y)
      /\ ~Outranks(y, x) /\ ~Outranks(x, y)
  BY DEF SilverOf, First
<1>2. ~(y.id > x.id) /\ ~(x.id > y.id)
  BY <1>1 DEF Outranks
<1>3. x.id \in Nat /\ y.id \in Nat
  BY <1>1, BarsOK
<1>4. QED
  BY <1>1, <1>2, <1>3, BarsOK

(* ... of each ticker that has a valid one: that of the greatest id.           *)
LEMMA KeysAreValid ==
  ASSUME NEW d \in Dates
  PROVE  KeysOf[d] = Valid[d]
<1>1. KeysOf[d] \subseteq Valid[d]
  BY DEF KeysOf, Valid, Tickers, SilverOf
<1>2. ASSUME NEW t \in Valid[d] PROVE t \in KeysOf[d]
  <2> DEFINE of == {b \in Content[d] : Good(b) /\ b.ticker = t}
             ids == {b.id : b \in of}
             f == [b \in of |-> b.id]
  <2>1. of # {} /\ of \subseteq Content[d] /\ IsFiniteSet(of)
    BY BarsOK, FS_Subset DEF Valid, Tickers
  <2>2. f \in Surjection(of, ids)
    BY DEF Surjection
  <2>3. IsFiniteSet(ids)
    BY <2>1, <2>2, FS_Surjection
  <2>4. ids \in SUBSET Nat /\ ids # {}
    BY <2>1, BarsOK
  <2>5. PICK n \in ids : \A i \in ids : i <= n
    BY <2>3, <2>4, Greatest
  <2>6. PICK b \in of : b.id = n
    BY <2>5
  <2>7. ASSUME NEW x \in Content[d], Outranks(x, b) PROVE FALSE
    <3>1. x.ticker = t /\ Good(b) /\ Good(x) /\ x.id > b.id
      BY <2>6, <2>7 DEF Outranks
    <3>2. x.id \in ids /\ x.id \in Nat /\ b.id \in Nat
      BY <3>1, <2>6, BarsOK
    <3>3. QED
      BY <3>1, <3>2, <2>5, <2>6
  <2>8. b \in SilverOf[d]
    BY <2>6, <2>7 DEF SilverOf, First
  <2>9. QED
    BY <2>6, <2>8 DEF KeysOf, Tickers
<1>3. QED
  BY <1>1, <1>2

----------------------------------------------------------------------------
(* Tables: finite, and counted date by date.                                   *)
Finite(of) == DOMAIN of = Dates /\ \A d \in Dates : IsFiniteSet(of[d])

LEMMA TableIs ==
  ASSUME NEW of, NEW D \in SUBSET Dates, NEW x
  PROVE  x \in Table(of, D) <=> \E d, b : d \in D /\ b \in of[d] /\ x = <<d, b>>
BY DEF Table

LEMMA InTable ==
  ASSUME NEW of, NEW D, NEW d \in D, NEW b \in of[d]
  PROVE  <<d, b>> \in Table(of, D)
BY DEF Table

LEMMA FiniteTable ==
  ASSUME NEW of, Finite(of), NEW D \in SUBSET Dates
  PROVE  IsFiniteSet(Table(of, D)) /\ Rows(of, D) \in Nat
<1> DEFINE parts == {{d} \X of[d] : d \in D}
           f == [d \in D |-> {d} \X of[d]]
<1>1. IsFiniteSet(D)
  BY QualityAssumption, FS_Subset
<1>2. f \in Surjection(D, parts)
  BY DEF Surjection
<1>3. IsFiniteSet(parts)
  BY <1>1, <1>2, FS_Surjection
<1>4. ASSUME NEW p \in parts PROVE IsFiniteSet(p)
  <2>1. PICK d \in D : p = {d} \X of[d]
    OBVIOUS
  <2>2. IsFiniteSet({d}) /\ IsFiniteSet(of[d])
    BY FS_Singleton DEF Finite
  <2>3. QED
    BY <2>1, <2>2, FS_Product
<1>5. IsFiniteSet(Table(of, D))
  BY <1>3, <1>4, FS_UNION DEF Table
<1>6. QED
  BY <1>5, FS_CardinalityType DEF Rows

LEMMA RowsGrow ==
  ASSUME NEW of, Finite(of), NEW D \in SUBSET Dates, NEW C \in SUBSET D
  PROVE  Rows(of, C) <= Rows(of, D)
<1>1. Table(of, C) \subseteq Table(of, D)
  BY DEF Table
<1>2. QED
  BY <1>1, FiniteTable, FS_Subset DEF Rows

LEMMA RowsAdd ==
  ASSUME NEW of, Finite(of), NEW D \in SUBSET Dates, NEW C \in SUBSET D
  PROVE  Rows(of, D) = Rows(of, C) + Rows(of, D \ C)
<1> DEFINE c == Table(of, C)
           r == Table(of, D \ C)
<1>1. Table(of, D) = c \cup r
  BY DEF Table
<1>2. c \cap r = {}
  <2> SUFFICES ASSUME NEW x, x \in c, x \in r PROVE FALSE
    OBVIOUS
  <2>1. PICK d, b : d \in C /\ b \in of[d] /\ x = <<d, b>>
    BY TableIs
  <2>2. PICK e, g : e \in D \ C /\ g \in of[e] /\ x = <<e, g>>
    BY TableIs
  <2>3. QED
    BY <2>1, <2>2
<1>3. IsFiniteSet(c) /\ IsFiniteSet(r)
  BY FiniteTable
<1> HIDE DEF c, r
<1>4. Cardinality(c \cup r) = Cardinality(c) + Cardinality(r) - Cardinality(c \cap r)
  BY <1>3, FS_Union
<1>5. Cardinality(c \cap r) = 0
  BY <1>2, FS_EmptySet
<1>6. Cardinality(c) \in Nat /\ Cardinality(r) \in Nat
  BY <1>3, FS_CardinalityType
<1>7. Cardinality(c \cup r) = Cardinality(c) + Cardinality(r)
  BY <1>4, <1>5, <1>6
<1>8. QED
  BY <1>1, <1>7 DEF Rows, c, r

LEMMA RowsOfDate ==
  ASSUME NEW of, Finite(of), NEW d \in Dates
  PROVE  Rows(of, {d}) = Cardinality(of[d]) /\ Cardinality(of[d]) \in Nat
<1>1. Table(of, {d}) = {d} \X of[d]
  BY DEF Table
<1>2. IsFiniteSet({d}) /\ Cardinality({d}) = 1 /\ IsFiniteSet(of[d])
  BY FS_Singleton DEF Finite
<1>3. Cardinality(of[d]) \in Nat
  BY <1>2, FS_CardinalityType
<1>4. Cardinality({d} \X of[d]) = Cardinality({d}) * Cardinality(of[d])
  BY <1>2, FS_Product
<1>5. Cardinality({d} \X of[d]) = Cardinality(of[d])
  BY <1>2, <1>3, <1>4
<1>6. QED
  BY <1>1, <1>3, <1>5 DEF Rows

LEMMA TablesFinite ==
  Finite(Content) /\ Finite(SilverOf) /\ Finite(QuarantineOf) /\ Finite(Valid)
  /\ Finite(KeysOf) /\ Finite(TwiceOf)
<1>1. Finite(Content)
  BY QualityAssumption DEF Finite
<1>2. \A d \in Dates : SilverOf[d] \in SUBSET Content[d] /\ QuarantineOf[d] \in SUBSET Content[d]
  BY SharedOut
<1>3. Finite(SilverOf) /\ Finite(QuarantineOf)
  BY <1>1, <1>2, FS_Subset DEF Finite, SilverOf, QuarantineOf
<1>4. ASSUME NEW d \in Dates PROVE IsFiniteSet(KeysOf[d])
  <2> DEFINE f == [b \in SilverOf[d] |-> b.ticker]
  <2>1. f \in Surjection(SilverOf[d], KeysOf[d])
    BY DEF Surjection, KeysOf, Tickers
  <2>2. QED
    BY <1>3, <2>1, FS_Surjection DEF Finite
<1>5. Finite(KeysOf) /\ Finite(Valid)
  BY <1>4, KeysAreValid DEF Finite, KeysOf, Valid
<1>6. \A d \in Dates : TwiceOf[d] \in SUBSET KeysOf[d]
  BY DEF TwiceOf
<1>7. Finite(TwiceOf)
  BY <1>5, <1>6, FS_Subset DEF Finite, TwiceOf
<1>8. QED
  BY <1>1, <1>3, <1>5, <1>7

(* The two tables together have the rows of bronze.                            *)
LEMMA RowsShared ==
  ASSUME NEW D \in SUBSET Dates
  PROVE  Rows(Content, D) = Rows(SilverOf, D) + Rows(QuarantineOf, D)
<1> DEFINE s == Table(SilverOf, D)
           q == Table(QuarantineOf, D)
<1>1. Table(Content, D) = s \cup q
  <2>1. \A d \in D : Content[d] = SilverOf[d] \cup QuarantineOf[d]
    BY SharedOut
  <2>2. QED
    BY <2>1 DEF Table
<1>2. s \cap q = {}
  <2> SUFFICES ASSUME NEW x, x \in s, x \in q PROVE FALSE
    OBVIOUS
  <2>1. PICK d, b : d \in D /\ b \in SilverOf[d] /\ x = <<d, b>>
    BY TableIs
  <2>2. PICK e, g : e \in D /\ g \in QuarantineOf[e] /\ x = <<e, g>>
    BY TableIs
  <2>3. d = e /\ b = g
    BY <2>1, <2>2
  <2>4. QED
    BY <2>1, <2>2, <2>3, SharedOut
<1>3. IsFiniteSet(s) /\ IsFiniteSet(q)
  BY FiniteTable, TablesFinite
<1> HIDE DEF s, q
<1>4. Cardinality(s \cup q) = Cardinality(s) + Cardinality(q) - Cardinality(s \cap q)
  BY <1>3, FS_Union
<1>5. Cardinality(s \cap q) = 0
  BY <1>2, FS_EmptySet
<1>6. Cardinality(s) \in Nat /\ Cardinality(q) \in Nat
  BY <1>3, FS_CardinalityType
<1>7. Cardinality(s \cup q) = Cardinality(s) + Cardinality(q)
  BY <1>4, <1>5, <1>6
<1>8. QED
  BY <1>1, <1>7 DEF Rows, s, q

(* Silver has a row for each ticker and date with a valid bar.                 *)
LEMMA RowsOfSilver ==
  ASSUME NEW D \in SUBSET Dates
  PROVE  Rows(SilverOf, D) = Rows(Valid, D)
<1> DEFINE s == Table(SilverOf, D)
           v == Table(Valid, D)
           f == [x \in s |-> <<x[1], x[2].ticker>>]
<1>1. ASSUME NEW d \in D, NEW b \in SilverOf[d] PROVE b.ticker \in Valid[d]
  <2>1. b.ticker \in KeysOf[d]
    BY DEF KeysOf, Tickers
  <2>2. QED
    BY <2>1, KeysAreValid
<1>2. ASSUME NEW x \in s PROVE f[x] \in v
  <2>1. PICK d, b : d \in D /\ b \in SilverOf[d] /\ x = <<d, b>>
    BY TableIs
  <2>2. f[x] = <<d, b.ticker>>
    BY <2>1
  <2>3. QED
    BY <2>2, <1>1, TableIs
<1>3. ASSUME NEW x \in s, NEW y \in s, f[x] = f[y] PROVE x = y
  <2>1. PICK d, b : d \in D /\ b \in SilverOf[d] /\ x = <<d, b>>
    BY TableIs
  <2>2. PICK e, g : e \in D /\ g \in SilverOf[e] /\ y = <<e, g>>
    BY TableIs
  <2>3. d = e /\ b.ticker = g.ticker
    BY <2>1, <2>2, <1>3
  <2>4. b = g
    <3>1. d \in Dates /\ b \in SilverOf[d] /\ g \in SilverOf[d]
      BY <2>1, <2>2, <2>3
    <3>2. QED
      BY <3>1, <2>3, OneOfATicker
  <2>5. QED
    BY <2>1, <2>2, <2>3, <2>4
<1>4. ASSUME NEW w \in v PROVE \E x \in s : f[x] = w
  <2>1. PICK d, t : d \in D /\ t \in Valid[d] /\ w = <<d, t>>
    BY TableIs
  <2>2. d \in Dates /\ t \in KeysOf[d]
    BY <2>1, KeysAreValid
  <2>3. PICK b \in SilverOf[d] : b.ticker = t
    BY <2>2 DEF KeysOf, Tickers
  <2>4. <<d, b>> \in s
    BY <2>1, <2>3, InTable
  <2>5. f[<<d, b>>] = w
    BY <2>1, <2>3, <2>4
  <2>6. QED
    BY <2>4, <2>5
<1>5. f \in Bijection(s, v)
  BY <1>2, <1>3, <1>4 DEF Bijection, Injection, Surjection, IsInjective
<1>6. IsFiniteSet(s) /\ ExistsBijection(s, v)
  BY <1>5, FiniteTable, TablesFinite DEF ExistsBijection
<1> HIDE DEF s, v
<1>7. Cardinality(v) = Cardinality(s)
  BY <1>6, FS_Bijection
<1>8. QED
  BY <1>7 DEF Rows, s, v

----------------------------------------------------------------------------
(* MarketQuality: the sweep over the audit.                                    *)
Extend(ts, before, right) ==
    LET left == CHOOSE l \in before.left .. right :
                   /\ ts[right] - ts[l] < Minute
                   /\ \A k \in before.left .. l - 1 : ts[right] - ts[k] >= Minute
        width == right - left + 1
    IN  [left |-> left, maximum |-> IF width > before.maximum THEN width ELSE before.maximum]
At(ts, f, right) ==
    IF right = 0 THEN [left |-> 1, maximum |-> 0] ELSE Extend(ts, f[right - 1], right)
SweepsTo(ts, f, n) == f = [right \in 0 .. n |-> At(ts, f, right)]

(* The recursion has a solution for any number of steps: for one more step a   *)
(* solution is that of the steps before with one value more.                   *)
LEMMA SweepExists ==
  ASSUME NEW ts
  PROVE  \A n \in Nat : \E f : SweepsTo(ts, f, n)
<1> DEFINE Without == {n \in Nat : ~ \E f : SweepsTo(ts, f, n)}
<1> SUFFICES ASSUME Without # {} PROVE FALSE
  OBVIOUS
<1>1. PICK n \in Without : \A m \in Without : n <= m
  BY Least
<1>2. n \in Nat /\ ~ \E f : SweepsTo(ts, f, n)
  BY <1>1
<1>3. CASE n = 0
  <2> DEFINE g == [right \in 0 .. 0 |-> [left |-> 1, maximum |-> 0]]
  <2>1. \A right \in 0 .. 0 : right = 0
    OBVIOUS
  <2>2. SweepsTo(ts, g, 0)
    BY <2>1 DEF SweepsTo, At
  <2>3. QED
    BY <1>2, <1>3, <2>2
<1>4. CASE n # 0
  <2>1. n - 1 \in Nat /\ ~(n <= n - 1)
    BY <1>2, <1>4
  <2>2. n - 1 \notin Without
    BY <1>1, <2>1
  <2>3. PICK f : SweepsTo(ts, f, n - 1)
    BY <2>1, <2>2
  <2> DEFINE g == [right \in 0 .. n |-> IF right = n THEN Extend(ts, f[n - 1], n) ELSE f[right]]
  <2>4. \A right \in 0 .. n - 1 : f[right] = At(ts, f, right) /\ g[right] = f[right]
    BY <2>1, <2>3 DEF SweepsTo
  <2>5. ASSUME NEW right \in 0 .. n PROVE g[right] = At(ts, g, right)
    <3>1. CASE right = n
      <4>1. g[n - 1] = f[n - 1]
        BY <2>1, <2>4
      <4>2. QED
        BY <3>1, <4>1, <1>2, <1>4 DEF At
    <3>2. CASE right # n /\ right = 0
      <4>1. 0 \in 0 .. n - 1
        BY <2>1
      <4>2. g[0] = f[0] /\ f[0] = At(ts, f, 0)
        BY <4>1, <2>4
      <4>3. At(ts, f, 0) = At(ts, g, 0)
        BY DEF At
      <4>4. QED
        BY <3>2, <4>2, <4>3
    <3>3. CASE right # n /\ right # 0
      <4>1. right \in 0 .. n - 1 /\ right - 1 \in 0 .. n - 1
        BY <3>3, <1>2
      <4>2. g[right - 1] = f[right - 1] /\ g[right] = f[right] /\ f[right] = At(ts, f, right)
        BY <4>1, <2>4
      <4>3. QED
        BY <4>2, <3>3 DEF At
    <3>4. QED
      BY <3>1, <3>2, <3>3
  <2>6. g = [right \in 0 .. n |-> At(ts, g, right)]
    BY <2>5
  <2>7. SweepsTo(ts, g, n)
    BY <2>6, Zenon DEF SweepsTo
  <2>8. QED
    BY <1>2, <2>7
<1>5. QED
  BY <1>3, <1>4

LEMMA SweepIs ==
  ASSUME NEW ts \in Seq(Nat)
  PROVE  SweepsTo(ts, Sweep(ts), Len(ts))
<1>1. Len(ts) \in Nat
  OBVIOUS
<1>2. PICK f : SweepsTo(ts, f, Len(ts))
  BY <1>1, SweepExists
<1>3. Sweep(ts) = CHOOSE g : SweepsTo(ts, g, Len(ts))
  BY Zenon DEF Sweep, SweepsTo, At, Extend
<1>4. QED
  BY <1>2, <1>3, Zenon

Sorted(ts) == ts \in Seq(Nat) /\ \A i \in 2 .. Len(ts) : ts[i - 1] <= ts[i]

(* The step finds its left end: there is a first one near enough.              *)
LEMMA ExtendOK ==
  ASSUME NEW ts, Sorted(ts), NEW right \in 1 .. Len(ts),
         NEW before, before.left \in 1 .. right, before.maximum \in Nat
  PROVE  LET after == Extend(ts, before, right) IN
         /\ after.left \in before.left .. right /\ after.maximum \in Nat
         /\ \A k \in before.left .. after.left - 1 : ts[right] - ts[k] >= Minute
         /\ after.maximum >= before.maximum /\ after.maximum >= right - after.left + 1
<1> DEFINE Near(l) == /\ ts[right] - ts[l] < Minute
                      /\ \A k \in before.left .. l - 1 : ts[right] - ts[k] >= Minute
           left == CHOOSE l \in before.left .. right : Near(l)
           close == {l \in before.left .. right : ts[right] - ts[l] < Minute}
<1>1. /\ \A i \in 1 .. Len(ts) : ts[i] \in Nat
      /\ right \in Nat /\ before.left \in Nat /\ 1 <= before.left /\ before.left <= right
      /\ right <= Len(ts)
  BY DEF Sorted
<1>2. right \in close
  BY <1>1, QualityAssumption
<1>3. close \in SUBSET Nat
  BY <1>1
<1>4. PICK l \in close : \A k \in close : l <= k
  BY <1>2, <1>3, Least
<1>5. l \in before.left .. right /\ ts[right] - ts[l] < Minute
  BY <1>4
<1>6. ASSUME NEW k \in before.left .. l - 1 PROVE ts[right] - ts[k] >= Minute
  <2>1. k \in before.left .. right /\ ~(l <= k) /\ k \in 1 .. Len(ts)
    BY <1>1, <1>5
  <2>2. k \notin close
    BY <1>4, <2>1
  <2>3. ts[right] \in Nat /\ ts[k] \in Nat
    BY <1>1, <2>1
  <2>4. ~(ts[right] - ts[k] < Minute)
    BY <2>1, <2>2
  <2>5. QED
    BY <2>3, <2>4, QualityAssumption
<1>7. Near(l)
  BY <1>5, <1>6
<1>8. left \in before.left .. right /\ Near(left)
  BY <1>5, <1>7
<1> HIDE DEF Near, close
<1> DEFINE width == right - left + 1
<1>9. Extend(ts, before, right) =
        [left |-> left, maximum |-> IF width > before.maximum THEN width ELSE before.maximum]
  BY Zenon DEF Extend, Near
<1> HIDE DEF left
<1>10. width \in Nat
  BY <1>1, <1>8
<1>11. QED
  BY <1>8, <1>9, <1>10 DEF Near

(* At each place the left end leaves out only what is too long ago, and the    *)
(* maximum is at least the width of every window so far.                       *)
LEMMA SweepValues ==
  ASSUME NEW ts, Sorted(ts)
  PROVE  \A r \in 0 .. Len(ts) : LET v == Sweep(ts)[r] IN
            /\ v.left \in Nat /\ 1 <= v.left /\ v.maximum \in Nat
            /\ r = 0 => v.left = 1
            /\ r > 0 => v.left <= r /\ \A k \in 1 .. v.left - 1 : ts[r] - ts[k] >= Minute
            /\ \A j \in 1 .. r : j - Sweep(ts)[j].left + 1 <= v.maximum
<1> DEFINE S == Sweep(ts)
           Fine(r) == /\ S[r].left \in Nat /\ 1 <= S[r].left /\ S[r].maximum \in Nat
                      /\ r = 0 => S[r].left = 1
                      /\ r > 0 => /\ S[r].left <= r
                                  /\ \A k \in 1 .. S[r].left - 1 : ts[r] - ts[k] >= Minute
                      /\ \A j \in 1 .. r : j - S[j].left + 1 <= S[r].maximum
           Bad == {r \in 0 .. Len(ts) : ~Fine(r)}
<1>1. /\ ts \in Seq(Nat) /\ Len(ts) \in Nat
      /\ \A i \in 1 .. Len(ts) : ts[i] \in Nat
      /\ \A i \in 2 .. Len(ts) : ts[i - 1] <= ts[i]
  BY DEF Sorted
<1>2. \A r \in 0 .. Len(ts) : S[r] = At(ts, S, r)
  BY <1>1, SweepIs DEF SweepsTo
<1> HIDE DEF S
<1>3. SUFFICES ASSUME Bad # {} PROVE FALSE
  BY DEF S
<1>4. PICK r \in Bad : \A m \in Bad : r <= m
  <2>1. Bad \in SUBSET Nat
    BY <1>1
  <2> HIDE DEF Bad
  <2>2. QED
    BY <2>1, <1>3, Least
<1>5. r \in 0 .. Len(ts) /\ r \in Nat /\ r <= Len(ts)
  BY <1>1, <1>4
<1>6. CASE r = 0
  <2>1. S[0] = [left |-> 1, maximum |-> 0]
    BY <1>2, <1>5, <1>6 DEF At
  <2>2. Fine(0)
    BY <2>1
  <2>3. QED
    BY <1>4, <1>6, <2>2
<1>7. CASE r # 0
  <2>1. r - 1 \in 0 .. Len(ts) /\ ~(r <= r - 1) /\ r \in 1 .. Len(ts)
    BY <1>5, <1>7
  <2>2. Fine(r - 1)
    BY <1>4, <2>1
  <2> DEFINE before == S[r - 1]
             after == S[r]
  <2>3. /\ before.left \in Nat /\ 1 <= before.left /\ before.maximum \in Nat
        /\ r - 1 = 0 => before.left = 1
        /\ r - 1 > 0 => /\ before.left <= r - 1
                        /\ \A k \in 1 .. before.left - 1 : ts[r - 1] - ts[k] >= Minute
        /\ \A j \in 1 .. r - 1 : j - S[j].left + 1 <= before.maximum
    BY <2>2
  <2>4. after = Extend(ts, before, r)
    BY <1>2, <1>5, <1>7 DEF At
  <2> HIDE DEF before, after, Fine, Bad
  <2>5. before.left \in 1 .. r
    BY <2>3, <1>5, <1>7
  <2>6. /\ after.left \in before.left .. r /\ after.maximum \in Nat
        /\ \A k \in before.left .. after.left - 1 : ts[r] - ts[k] >= Minute
        /\ after.maximum >= before.maximum /\ after.maximum >= r - after.left + 1
    BY <2>1, <2>3, <2>4, <2>5, ExtendOK
  <2>7. ASSUME NEW k \in 1 .. after.left - 1 PROVE ts[r] - ts[k] >= Minute
    <3>1. CASE k >= before.left
      BY <3>1, <2>3, <2>6
    <3>2. CASE k < before.left
      <4>1. r - 1 > 0 /\ k \in 1 .. before.left - 1
        BY <3>2, <2>3, <1>5, <1>7
      <4>2. ts[r - 1] - ts[k] >= Minute
        BY <4>1, <2>3
      <4>3. k \in 1 .. Len(ts) /\ r - 1 \in 1 .. Len(ts) /\ r \in 2 .. Len(ts)
        BY <4>1, <2>3, <1>5
      <4>4. ts[r - 1] <= ts[r] /\ ts[k] \in Nat /\ ts[r] \in Nat /\ ts[r - 1] \in Nat
        BY <4>3, <1>1, <2>1
      <4>5. QED
        BY <4>2, <4>4, QualityAssumption
    <3>3. QED
      BY <3>1, <3>2, <2>3
  <2>8. ASSUME NEW j \in 1 .. r PROVE j - S[j].left + 1 <= after.maximum
    <3>1. CASE j = r
      BY <3>1, <2>3, <2>6, <1>5 DEF after
    <3>2. CASE j # r
      <4>1. j \in 1 .. r - 1 /\ j \in 0 .. Len(ts) /\ ~(r <= j)
        BY <3>2, <1>5
      <4>2. j - S[j].left + 1 <= before.maximum
        BY <4>1, <2>3
      <4>3. S[j].left \in Nat
        BY <4>1, <1>4 DEF Bad, Fine
      <4>4. QED
        BY <4>1, <4>2, <4>3, <2>3, <2>6
    <3>3. QED
      BY <3>1, <3>2
  <2>9. after.left \in Nat /\ 1 <= after.left /\ after.left <= r
    BY <2>3, <2>6, <1>5
  <2>10. Fine(r)
    BY <2>6, <2>7, <2>8, <2>9, <1>7 DEF Fine, after
  <2>11. QED
    BY <1>4, <2>10 DEF Bad
<1>8. QED
  BY <1>6, <1>7

(* The sweep misses no window: MaxInWindow bounds the number of events in the  *)
(* window that begins at any of them.                                          *)
LEMMA WindowsBounded ==
  ASSUME NEW ts, Sorted(ts), NEW j \in 1 .. Len(ts), NEW limit \in Nat,
         MaxInWindow(ts) <= limit
  PROVE  Cardinality({i \in DOMAIN ts : ts[j] <= ts[i] /\ ts[i] < ts[j] + Minute}) <= limit
<1> DEFINE W == {i \in DOMAIN ts : ts[j] <= ts[i] /\ ts[i] < ts[j] + Minute}
           n == Len(ts)
<1>1. /\ ts \in Seq(Nat) /\ n \in Nat /\ DOMAIN ts = 1 .. n
      /\ \A i \in 1 .. n : ts[i] \in Nat
  BY DEF Sorted
<1>2. j \in W
  <2>1. ts[j] \in Nat
    BY <1>1
  <2>2. ts[j] <= ts[j] /\ ts[j] < ts[j] + Minute
    BY <2>1, QualityAssumption
  <2>3. QED
    BY <1>1, <2>2
<1>3. W \in SUBSET Nat /\ IsFiniteSet(W)
  <2>1. IsFiniteSet(1 .. n)
    BY <1>1, FS_Interval
  <2>2. W \in SUBSET (1 .. n)
    BY <1>1
  <2>3. QED
    BY <2>1, <2>2, FS_Subset
<1>4. PICK r \in W : \A i \in W : i <= r
  BY <1>2, <1>3, Greatest
<1>5. r \in 1 .. n /\ ts[r] < ts[j] + Minute /\ ts[r] \in Nat /\ ts[j] \in Nat
  BY <1>1, <1>4
<1> DEFINE left == Sweep(ts)[r].left
<1>6. /\ left \in Nat /\ 1 <= left /\ left <= r
      /\ \A k \in 1 .. left - 1 : ts[r] - ts[k] >= Minute
  <2>1. r \in 0 .. Len(ts) /\ r > 0
    BY <1>1, <1>5
  <2>2. QED
    BY <2>1, SweepValues
<1>7. /\ r - left + 1 <= MaxInWindow(ts) /\ MaxInWindow(ts) \in Nat
  <2>1. n \in 0 .. Len(ts)
    BY <1>1
  <2>2. QED
    BY <2>1, <1>5, SweepValues DEF MaxInWindow
<1> HIDE DEF left
<1>8. W \subseteq left .. r
  <2> SUFFICES ASSUME NEW i \in W PROVE i \in left .. r
    OBVIOUS
  <2>1. /\ i \in 1 .. n /\ i <= r /\ ts[i] \in Nat /\ ts[j] <= ts[i]
    BY <1>1, <1>4
  <2>2. ~(ts[r] - ts[i] >= Minute)
    BY <1>5, <2>1, QualityAssumption
  <2>3. i \notin 1 .. left - 1
    BY <2>2, <1>6
  <2>4. QED
    BY <2>1, <2>3, <1>5, <1>6
<1> HIDE DEF W
<1>9. /\ IsFiniteSet(left .. r)
      /\ Cardinality(left .. r) = IF left > r THEN 0 ELSE r - left + 1
  <2>1. left \in Int /\ r \in Int
    BY <1>5, <1>6
  <2>2. QED
    BY <2>1, FS_Interval, Zenon
<1>10. Cardinality(W) <= Cardinality(left .. r) /\ Cardinality(W) \in Nat
  BY <1>3, <1>8, <1>9, FS_Subset, FS_CardinalityType
<1>11. Cardinality(W) <= limit
  BY <1>5, <1>6, <1>7, <1>9, <1>10
<1>12. QED
  BY <1>11 DEF W

----------------------------------------------------------------------------
(* MarketQuality: the tables while an update runs.                             *)
Runs == [on : BOOLEAN, done : SUBSET Flows, failed : SUBSET Flows]

(* What has been made of bronze in this update is still of bronze as it is:    *)
(* bronze is first.                                                            *)
TablesInv ==
    /\ files \in [Dates -> {"none", "response", "pair", "torn"}]
    /\ bronze \subseteq Dates /\ manifests \subseteq Dates
    /\ silver \subseteq bronze /\ quarantine \subseteq bronze
    /\ run \in Runs /\ (~run.on => run.done = {})
    /\ "silver" \in run.done => "bronze" \in run.done /\ silver = bronze
    /\ "quarantine" \in run.done => "bronze" \in run.done /\ quarantine = bronze
    /\ "coverage" \in run.done => /\ "bronze" \in run.done
                                  /\ \A d \in coverage : d \in bronze \/ Content[d] = {}

LEMMA RunsOK ==
  ASSUME run \in Runs, NEW flow \in Flows, Done(flow)
  PROVE  run' \in Runs /\ run'.done = run.done \cup {flow} /\ run'.on = run.on
BY DEF Done, Runs

LEMMA FreshRun ==
  /\ NoRun \in Runs /\ NoRun.done = {} /\ ~NoRun.on
  /\ [NoRun EXCEPT !.on = TRUE] \in Runs /\ [NoRun EXCEPT !.on = TRUE].done = {}
BY DEF NoRun, Runs

LEMMA TablesInitial == QualityInit => TablesInv
BY FreshRun DEF QualityInit, TablesInv

(* Steps that leave the tables, and only add to what is done a flow that none  *)
(* of them is made by.                                                         *)
LEMMA OtherSteps ==
  ASSUME TablesInv, UNCHANGED <<bronze, manifests, silver, quarantine, coverage>>,
         files' \in [Dates -> {"none", "response", "pair", "torn"}],
         run' \in Runs, ~run'.on => run'.done = {},
         \/ run'.done = {}
         \/ /\ run.done \subseteq run'.done
            /\ run'.done \subseteq run.done \cup {"manifests", "ingestion", "reconciliation",
                                                "performance", "comparison"}
  PROVE  TablesInv'
BY DEF TablesInv

LEMMA TablesStep ==
  ASSUME TablesInv, [QualityNext]_qualityVars
  PROVE  TablesInv'
<1>0. run \in Runs /\ files \in [Dates -> {"none", "response", "pair", "torn"}]
      /\ (~run.on => run.done = {})
  BY DEF TablesInv
<1>1. ASSUME NEW d \in Dates, LandFile(d) PROVE TablesInv'
  <2>1. files' \in [Dates -> {"none", "response", "pair", "torn"}]
    BY <1>0, <1>1 DEF LandFile
  <2>2. QED
    BY <1>0, <1>1, <2>1, OtherSteps DEF LandFile
<1>2. CASE UpdateStarts
  <2>1. run' \in Runs /\ run'.done = {}
    BY <1>2, FreshRun DEF UpdateStarts
  <2>2. QED
    BY <1>0, <1>2, <2>1, OtherSteps DEF UpdateStarts
<1>3. CASE TakeResponses
  <2>1. /\ run' \in Runs /\ run'.done = run.done \cup {"bronze"} /\ run'.on = run.on /\ run.on
        /\ "bronze" \notin run.done
    BY <1>0, <1>3, RunsOK DEF TakeResponses, Runnable, Flows
  <2>2. /\ "silver" \notin run'.done /\ "quarantine" \notin run'.done /\ "coverage" \notin run'.done
    BY <2>1 DEF TablesInv
  <2>3. /\ bronze \subseteq bronze' /\ bronze' \subseteq Dates
        /\ UNCHANGED <<files, manifests, silver, quarantine, coverage>>
    BY <1>3 DEF TakeResponses, TablesInv
  <2>4. QED
    BY <2>1, <2>2, <2>3 DEF TablesInv
<1>4. CASE TakeManifests
  <2>1. /\ run' \in Runs /\ run'.done = run.done \cup {"manifests"} /\ run'.on = run.on /\ run.on
    BY <1>0, <1>4, RunsOK DEF TakeManifests, Runnable, Flows
  <2>2. /\ manifests' \subseteq Dates /\ UNCHANGED <<files, bronze, silver, quarantine, coverage>>
    BY <1>4 DEF TakeManifests, TablesInv
  <2>3. QED
    BY <2>1, <2>2 DEF TablesInv
<1>5. CASE MakeSilver
  <2>1. /\ run' \in Runs /\ run'.done = run.done \cup {"silver"} /\ run'.on = run.on /\ run.on
        /\ "bronze" \in run.done
    BY <1>0, <1>5, RunsOK DEF MakeSilver, Runnable, Flows, Reads
  <2>2. silver' = bronze /\ UNCHANGED <<files, bronze, manifests, quarantine, coverage>>
    BY <1>5 DEF MakeSilver
  <2>3. QED
    BY <2>1, <2>2 DEF TablesInv
<1>6. CASE MakeQuarantine
  <2>1. /\ run' \in Runs /\ run'.done = run.done \cup {"quarantine"} /\ run'.on = run.on /\ run.on
        /\ "bronze" \in run.done
    BY <1>0, <1>6, RunsOK DEF MakeQuarantine, Runnable, Flows, Reads
  <2>2. quarantine' = bronze /\ UNCHANGED <<files, bronze, manifests, silver, coverage>>
    BY <1>6 DEF MakeQuarantine
  <2>3. QED
    BY <2>1, <2>2 DEF TablesInv
<1>7. ASSUME NEW flow \in {"ingestion", "reconciliation"}, NEW met, Expect(flow, met)
      PROVE  TablesInv'
  <2>1. /\ run' \in Runs /\ run.done \subseteq run'.done
        /\ run'.done \subseteq run.done \cup {"ingestion", "reconciliation"}
        /\ run'.on = run.on /\ run.on
    <3>1. flow \in Flows /\ run.on
      BY <1>7 DEF Flows, Expect, Runnable
    <3>2. CASE met
      BY <3>1, <3>2, <1>0, <1>7 DEF Expect, Runs
    <3>3. CASE ~met
      BY <3>1, <3>3, <1>0, <1>7 DEF Expect, Runs
    <3>4. QED
      BY <3>2, <3>3
  <2>2. QED
    BY <1>0, <1>7, <2>1, OtherSteps DEF Expect
<1>8. CASE PublishCoverage
  <2>1. /\ run' \in Runs /\ run'.done = run.done \cup {"coverage"} /\ run'.on = run.on /\ run.on
        /\ "bronze" \in run.done
    BY <1>0, <1>8, RunsOK DEF PublishCoverage, Runnable, Flows, Reads
  <2>2. /\ coverage' = {d \in Listed : Complete(d)}
        /\ UNCHANGED <<files, bronze, manifests, silver, quarantine>>
    BY <1>8 DEF PublishCoverage
  <2>3. ASSUME NEW d \in coverage', d \notin bronze PROVE Content[d] = {}
    <3>1. d \in manifests /\ d \in Dates /\ Complete(d)
      BY <2>2, <2>3 DEF Listed, TablesInv
    <3>2. Cardinality(Content[d]) = 0
      BY <3>1, <2>3 DEF Complete, On
    <3>3. QED
      BY <3>1, <3>2, BarsOK, FS_EmptySet
  <2>4. QED
    BY <2>1, <2>2, <2>3 DEF TablesInv
<1>9. CASE UpdateEnds
  BY <1>0, <1>9, FreshRun, OtherSteps DEF UpdateEnds
<1>10. CASE UpdateStops
  BY <1>0, <1>10, FreshRun, OtherSteps DEF UpdateStops
<1>11. CASE CertifyNext
  BY <1>11 DEF CertifyNext, Measure, Certify, CertifyAgain, TablesInv
<1>12. CASE UNCHANGED qualityVars
  BY <1>12 DEF qualityVars, TablesInv
<1>13. CASE ReconcileIngestion \/ ReconcileSilver
  BY <1>7, <1>13 DEF ReconcileIngestion, ReconcileSilver
<1>14. CASE MakePerformance \/ ComparePeers
  <2>1. PICK flow \in {"performance", "comparison"} : run.on /\ Done(flow) /\ KeepTables
    BY <1>14 DEF MakePerformance, ComparePeers, Runnable
  <2>2. run' \in Runs /\ run'.done = run.done \cup {flow} /\ run'.on = run.on
    BY <1>0, <2>1, RunsOK DEF Flows
  <2>3. QED
    BY <1>0, <2>1, <2>2, OtherSteps DEF KeepTables
<1>15. QED
  BY <1>1, <1>2, <1>3, <1>4, <1>5, <1>6, <1>8, <1>9, <1>10, <1>11, <1>12, <1>13, <1>14
     DEF QualityNext, PipelineNext, UpdateRuns

LEMMA TablesInductive == QualitySpec => []TablesInv
BY TablesInitial, TablesStep, PTL DEF QualitySpec

(* For any dates, bars, torn files and failures: no row is lost, kept twice or *)
(* rejected beside a better one, and what is COMPLETE is so (EveryRowAccounted). *)
THEOREM RowsAccounted == QualitySpec => []EveryRowAccounted
<1>1. TablesInv => EveryRowAccounted
  <2> SUFFICES ASSUME TablesInv PROVE EveryRowAccounted
    OBVIOUS
  <2>1. ASSUME {"silver", "quarantine"} \subseteq run.done, NEW d \in bronze
        PROVE  /\ SilverOf[d] \cup QuarantineOf[d] = Content[d]
               /\ SilverOf[d] \cap QuarantineOf[d] = {}
               /\ \A x, y \in SilverOf[d] : x.ticker = y.ticker => x = y
               /\ KeysOf[d] = Valid[d]
    <3>1. d \in Dates
      BY DEF TablesInv
    <3>2. QED
      BY <3>1, SharedOut, OneOfATicker, KeysAreValid
  <2>2. QED
    BY <2>1 DEF EveryRowAccounted, TablesInv
<1>2. QED
  BY <1>1, TablesInductive, PTL

----------------------------------------------------------------------------
(* MarketQuality: the certificate.                                             *)
Names == {Measures[i] : i \in DOMAIN Measures}
Reports == [next : 1 .. 7, dates : SUBSET Dates, audit : Audits \cup {<<>>},
            status : {"none", "PASSED", "FAILED"}, distinct : Nat, count : [Names -> Nat]]

(* Silver is what bronze was at some time, before or after bronze was counted, *)
(* and so is what was counted of it.                                           *)
Of(D, E) == D \subseteq E \/ E \subseteq D
Measured ==
    LET c == certify.count IN
    /\ certify.next > 2 =>
          /\ certify.dates \subseteq bronze /\ Of(silver, certify.dates)
          /\ c["bronze"] = Rows(Content, certify.dates)
    /\ certify.next > 3 =>
          \E S \in SUBSET Dates : Of(S, certify.dates) /\ c["silver"] = Rows(SilverOf, S)
    /\ certify.next > 4 =>
          \E Q \in SUBSET Dates : c["quarantine"] = Rows(QuarantineOf, Q)

CertifyInv == TablesInv /\ certify \in Reports /\ Measured

LEMMA MeasuresAre ==
  /\ Len(Measures) = 6 /\ DOMAIN Measures = 1 .. 6
  /\ Measures[1] = "manifests" /\ Measures[2] = "bronze" /\ Measures[3] = "silver"
  /\ Measures[4] = "quarantine" /\ Measures[5] = "distinct" /\ Measures[6] = "duplicates"
BY DEF Measures

LEMMA CountOK ==
  ASSUME TablesInv, NEW i \in 1 .. 6
  PROVE  Measures[i] \in Names /\ Count(Measures[i]) \in Nat
<1>1. /\ silver \in SUBSET Dates /\ quarantine \in SUBSET Dates
      /\ bronze \in SUBSET Dates /\ manifests \in SUBSET Dates
  BY DEF TablesInv
<1>2. /\ Rows(Content, manifests) \in Nat /\ Rows(Content, bronze) \in Nat
      /\ Rows(SilverOf, silver) \in Nat /\ Rows(QuarantineOf, quarantine) \in Nat
      /\ Rows(KeysOf, silver) \in Nat /\ Rows(TwiceOf, silver) \in Nat
  BY <1>1, FiniteTable, TablesFinite
<1>3. Measures[i] \in {"manifests", "bronze", "silver", "quarantine", "distinct", "duplicates"}
  BY MeasuresAre
<1>4. Count(Measures[i]) \in Nat
  BY <1>2, <1>3 DEF Count
<1>5. Measures[i] \in Names
  BY MeasuresAre DEF Names
<1>6. QED
  BY <1>4, <1>5

LEMMA NoReportOK ==
  /\ NoReport \in Reports /\ NoReport.next = 1 /\ NoReport.status = "none"
  /\ DOMAIN NoReport = {"next", "dates", "audit", "status", "distinct", "count"}
BY DEF NoReport, Reports, Names

LEMMA CertifyInitial == QualityInit => CertifyInv
<1> SUFFICES ASSUME QualityInit PROVE CertifyInv
  OBVIOUS
<1>1. certify = NoReport
  BY DEF QualityInit
<1>2. QED
  BY <1>1, NoReportOK, TablesInitial DEF CertifyInv, Measured

LEMMA MeasureStep ==
  ASSUME CertifyInv, Measure
  PROVE  certify' \in Reports /\ Measured' /\ certify'.status = "none"
<1> DEFINE i == certify.next
           m == Measures[certify.next]
<1>1. /\ certify \in Reports /\ certify.status = "none" /\ i \in 1 .. 6
      /\ certify' = [certify EXCEPT !.next = i + 1,
             !.dates = IF m = "bronze" THEN bronze ELSE certify.dates, !.count[m] = Count(m)]
      /\ UNCHANGED <<bronze, silver>> /\ TablesInv /\ Measured
  BY MeasuresAre DEF Measure, CertifyInv, Reports
<1>2. m \in Names /\ Count(m) \in Nat
  BY <1>1, CountOK
<1>3. bronze \in SUBSET Dates
  BY <1>1 DEF TablesInv
<1>4. /\ certify' \in Reports /\ certify'.status = "none" /\ certify'.next = i + 1
      /\ certify'.dates = IF m = "bronze" THEN bronze ELSE certify.dates
      /\ certify'.count = [certify.count EXCEPT ![m] = Count(m)]
  <2> DEFINE D == IF m = "bronze" THEN bronze ELSE certify.dates
             f == [certify.count EXCEPT ![m] = Count(m)]
  <2>1. D \in SUBSET Dates
    BY <1>1, <1>3 DEF Reports
  <2>2. f \in [Names -> Nat]
    BY <1>1, <1>2 DEF Reports
  <2> HIDE DEF m
  <2>3. certify' = [certify EXCEPT !.next = i + 1, !.dates = D, !.count = f]
    BY <1>1 DEF Reports
  <2>4. i + 1 \in 1 .. 7
    BY <1>1
  <2> HIDE DEF D, f, i
  <2>5. /\ certify' \in Reports /\ certify'.next = i + 1 /\ certify'.dates = D
        /\ certify'.status = certify.status /\ certify'.count = f
    BY <1>1, <2>1, <2>2, <2>3, <2>4 DEF Reports
  <2>6. QED
    BY <1>1, <2>5 DEF D, f
<1>5. /\ certify'.count[m] = Count(m)
      /\ \A n \in Names : n # m => certify'.count[n] = certify.count[n]
      /\ \A n \in {"bronze", "silver", "quarantine"} : n \in Names
  <2>1. certify.count \in [Names -> Nat]
    BY <1>1 DEF Reports
  <2>2. \A n \in {"bronze", "silver", "quarantine"} : n \in Names
    BY MeasuresAre DEF Names
  <2>3. QED
    BY <1>2, <1>4, <2>1, <2>2
<1> HIDE DEF i, m
<1>6. CASE i = 1
  BY <1>4, <1>6 DEF Measured
<1>7. CASE i = 2
  <2>1. m = "bronze" /\ certify'.dates = bronze
    BY <1>4, <1>7, MeasuresAre DEF i, m
  <2>2. certify'.count["bronze"] = Rows(Content, bronze)
    BY <1>5, <2>1 DEF Count
  <2>3. Of(silver, bronze)
    BY <1>1 DEF Of, TablesInv
  <2>4. QED
    BY <1>1, <1>4, <1>7, <2>1, <2>2, <2>3 DEF Measured, Of
<1>8. CASE i > 2
  <2>1. m # "bronze" /\ certify'.dates = certify.dates
    BY <1>1, <1>4, <1>8, MeasuresAre DEF i, m
  <2>2. /\ certify.dates \subseteq bronze /\ Of(silver, certify.dates)
        /\ certify'.count["bronze"] = Rows(Content, certify.dates)
    BY <1>1, <1>5, <1>8, <2>1 DEF Measured, i
  <2>3. \E S \in SUBSET Dates : Of(S, certify.dates) /\ certify'.count["silver"] = Rows(SilverOf, S)
    <3>1. CASE m = "silver"
      <4>1. certify'.count["silver"] = Rows(SilverOf, silver) /\ silver \in SUBSET Dates
        BY <3>1, <1>1, <1>5 DEF Count, TablesInv
      <4>2. QED
        BY <4>1, <2>2
    <3>2. CASE m # "silver"
      <4>1. i > 3
        BY <3>2, <1>1, <1>8, MeasuresAre DEF i, m
      <4>2. QED
        BY <3>2, <4>1, <1>1, <1>5 DEF Measured, i
    <3>3. QED
      BY <3>1, <3>2
  <2>4. i > 3 => \E Q \in SUBSET Dates : certify'.count["quarantine"] = Rows(QuarantineOf, Q)
    <3>1. CASE m = "quarantine"
      <4>1. certify'.count["quarantine"] = Rows(QuarantineOf, quarantine)
            /\ quarantine \in SUBSET Dates
        BY <3>1, <1>1, <1>5 DEF Count, TablesInv
      <4>2. QED
        BY <4>1
    <3>2. CASE m # "quarantine" /\ i > 3
      <4>1. i > 4
        BY <3>2, <1>1, MeasuresAre DEF i, m
      <4>2. QED
        BY <3>2, <4>1, <1>1, <1>5 DEF Measured, i
    <3>3. QED
      BY <3>1, <3>2
  <2>5. (Of(silver, certify.dates))'
    BY <1>1, <2>1, <2>2 DEF Of
  <2>6. i + 1 > 4 => i > 3
    BY <1>1 DEF i
  <2>7. QED
    BY <1>1, <1>4, <2>1, <2>2, <2>3, <2>4, <2>5, <2>6 DEF Measured, Of
<1>9. i = 1 \/ i = 2 \/ i > 2
  BY <1>1 DEF i
<1>10. QED
  BY <1>4, <1>6, <1>7, <1>8, <1>9

LEMMA CertifyStep ==
  ASSUME CertifyInv, [QualityNext]_qualityVars
  PROVE  CertifyInv'
<1>1. TablesInv /\ TablesInv' /\ certify \in Reports /\ Measured
  BY TablesStep DEF CertifyInv
<1>2. CASE Measure
  BY <1>1, <1>2, MeasureStep DEF CertifyInv
<1>3. ASSUME UNCHANGED certify, bronze \subseteq bronze', silver' = silver \/ silver' = bronze
      PROVE  CertifyInv'
  <2>1. certify.next > 2 => Of(silver', certify.dates)
    BY <1>1, <1>3 DEF Measured, Of
  <2>2. Measured'
    BY <1>1, <1>3, <2>1 DEF Measured, Of
  <2>3. QED
    BY <1>1, <1>3, <2>2 DEF CertifyInv
<1>4. CASE PipelineNext \/ UNCHANGED qualityVars
  <2>1. /\ UNCHANGED certify /\ bronze \subseteq bronze' /\ (silver' = silver \/ silver' = bronze)
    BY <1>4 DEF PipelineNext, UpdateRuns, LandFile, UpdateStarts, TakeResponses, TakeManifests,
                MakeSilver, MakeQuarantine, ReconcileIngestion, ReconcileSilver, Expect,
                PublishCoverage, MakePerformance, ComparePeers, KeepTables, UpdateEnds,
                UpdateStops, qualityVars
  <2>2. QED
    BY <2>1, <1>3
<1>5. CASE Certify \/ CertifyAgain
  <2>1. ASSUME NEW audit \in Audits, NEW n \in Nat, NEW D \in SUBSET Dates
        PROVE  /\ [NoReport EXCEPT !.status = "PASSED", !.dates = D, !.distinct = n,
                     !.audit = audit] \in Reports
               /\ [NoReport EXCEPT !.status = "PASSED", !.dates = D, !.distinct = n,
                     !.audit = audit].next = 1
    BY NoReportOK DEF Reports
  <2>2. [NoReport EXCEPT !.status = "FAILED"] \in Reports
        /\ [NoReport EXCEPT !.status = "FAILED"].next = 1
    BY NoReportOK DEF Reports
  <2>3. certify.dates \in SUBSET Dates /\ certify.count["distinct"] \in Nat
    BY <1>1, MeasuresAre DEF Reports, Names
  <2>4. certify' \in Reports /\ certify'.next = 1
    <3>1. CASE CertifyAgain
      BY <3>1, NoReportOK DEF CertifyAgain
    <3>2. CASE Certify
      <4>1. PICK audit \in Audits :
              certify' = IF Passed(certify.count, audit)
                         THEN [NoReport EXCEPT !.status = "PASSED", !.dates = certify.dates,
                                 !.distinct = certify.count["distinct"], !.audit = audit]
                         ELSE [NoReport EXCEPT !.status = "FAILED"]
        BY <3>2 DEF Certify
      <4>2. CASE Passed(certify.count, audit)
        <5>1. certify' = [NoReport EXCEPT !.status = "PASSED", !.dates = certify.dates,
                            !.distinct = certify.count["distinct"], !.audit = audit]
          BY <4>1, <4>2
        <5>2. QED
          BY <2>1, <2>3, <5>1
      <4>3. CASE ~Passed(certify.count, audit)
        BY <4>1, <4>3, <2>2
      <4>4. QED
        BY <4>2, <4>3
    <3>3. QED
      BY <1>5, <3>1, <3>2
  <2>5. QED
    BY <1>1, <2>4 DEF CertifyInv, Measured
<1>6. QED
  BY <1>2, <1>4, <1>5 DEF QualityNext, CertifyNext

(* Silver that a certificate counted with other dates than bronze adds up only *)
(* if the dates in between have no bars: their valid bars alone would outnumber *)
(* all rejected ones.                                                          *)
LEMMA SilverMatches ==
  ASSUME MostAreGood, NEW D \in SUBSET Dates, NEW S \in SUBSET Dates, NEW Q \in SUBSET Dates,
         Of(S, D), Rows(SilverOf, S) + Rows(QuarantineOf, Q) = Rows(Content, D)
  PROVE  Rows(SilverOf, S) = Rows(Valid, D)
<1> DEFINE rejected == Rows(QuarantineOf, Dates)
<1>1. ASSUME NEW E \in SUBSET Dates, Rows(SilverOf, E) <= rejected
      PROVE  Rows(SilverOf, E) = 0
  <2>1. ASSUME NEW d \in E, Content[d] # {} PROVE FALSE
    <3>1. Rows(SilverOf, {d}) <= Rows(SilverOf, E)
      BY RowsGrow, TablesFinite
    <3>2. Rows(SilverOf, {d}) = Cardinality(Valid[d])
      BY RowsOfSilver, RowsOfDate, TablesFinite
    <3>3. Cardinality(Valid[d]) > rejected
      BY <2>1 DEF MostAreGood
    <3>4. /\ Rows(SilverOf, {d}) \in Nat /\ Rows(SilverOf, E) \in Nat /\ rejected \in Nat
      BY FiniteTable, TablesFinite
    <3> HIDE DEF rejected
    <3>5. QED
      BY <1>1, <3>1, <3>2, <3>3, <3>4
  <2>2. \A d \in E : SilverOf[d] = {}
    BY <2>1, SharedOut
  <2>3. Table(SilverOf, E) = {}
    BY <2>2 DEF Table
  <2>4. QED
    BY <2>3, FS_EmptySet DEF Rows
<1> DEFINE s == Rows(SilverOf, S)
           t == Rows(SilverOf, D)
           q == Rows(QuarantineOf, Q)
           r == Rows(QuarantineOf, D)
           more == Rows(SilverOf, S \ D)
           less == Rows(SilverOf, D \ S)
<1>2. s \in Nat /\ t \in Nat /\ q \in Nat /\ r \in Nat /\ more \in Nat /\ less \in Nat
      /\ rejected \in Nat
  BY FiniteTable, TablesFinite
<1>3. s + q = t + r
  BY RowsShared
<1>4. q <= rejected /\ r <= rejected
  BY RowsGrow, TablesFinite
<1>5. (less <= rejected => less = 0) /\ (more <= rejected => more = 0)
  BY <1>1
<1>6. t = Rows(Valid, D)
  BY RowsOfSilver
<1>7. CASE S \subseteq D
  <2>1. t = s + less
    BY <1>7, RowsAdd, TablesFinite
  <2> HIDE DEF s, t, q, r, less, rejected
  <2>2. s = t
    BY <2>1, <1>2, <1>3, <1>4, <1>5
  <2>3. QED
    BY <2>2, <1>6 DEF s
<1>8. CASE D \subseteq S
  <2>1. s = t + more
    BY <1>8, RowsAdd, TablesFinite
  <2> HIDE DEF s, t, q, r, more, rejected
  <2>2. s = t
    BY <2>1, <1>2, <1>3, <1>4, <1>5
  <2>3. QED
    BY <2>2, <1>6 DEF s
<1>9. QED
  BY <1>7, <1>8 DEF Of

LEMMA CertificateStep ==
  ASSUME MostAreGood, CertifyInv, Certify
  PROVE  CertificateIsTrue'
<1>1. PICK audit \in Audits :
        certify' = IF Passed(certify.count, audit)
                   THEN [NoReport EXCEPT !.status = "PASSED", !.dates = certify.dates,
                           !.distinct = certify.count["distinct"], !.audit = audit]
                   ELSE [NoReport EXCEPT !.status = "FAILED"]
  BY DEF Certify
<1>2. CASE ~Passed(certify.count, audit)
  <2>1. certify' = [NoReport EXCEPT !.status = "FAILED"]
    BY <1>1, <1>2
  <2>2. certify'.status = "FAILED"
    BY <2>1, NoReportOK
  <2>3. QED
    BY <2>2 DEF CertificateIsTrue
<1>3. CASE Passed(certify.count, audit)
  <2> DEFINE c == certify.count
             D == certify.dates
  <2>1. certify' = [NoReport EXCEPT !.status = "PASSED", !.dates = D,
                      !.distinct = c["distinct"], !.audit = audit]
    BY <1>1, <1>3
  <2>2. certify'.dates = D /\ certify'.distinct = c["distinct"] /\ certify'.audit = audit
    BY <2>1, NoReportOK
  <2>3. /\ certify \in Reports /\ Measured /\ certify.next > 6
    BY MeasuresAre DEF CertifyInv, Certify
  <2>4. D \in SUBSET Dates /\ certify.next \in 1 .. 7
    BY <2>3 DEF Reports
  <2>5. /\ c["bronze"] = Rows(Content, D)
        /\ \E S \in SUBSET Dates : Of(S, D) /\ c["silver"] = Rows(SilverOf, S)
        /\ \E Q \in SUBSET Dates : c["quarantine"] = Rows(QuarantineOf, Q)
    BY <2>3, <2>4 DEF Measured
  <2>6. PICK S \in SUBSET Dates : Of(S, D) /\ c["silver"] = Rows(SilverOf, S)
    BY <2>5
  <2>7. PICK Q \in SUBSET Dates : c["quarantine"] = Rows(QuarantineOf, Q)
    BY <2>5
  <2>8. /\ c["silver"] + c["quarantine"] = c["bronze"] /\ c["distinct"] = c["silver"]
        /\ MaxInWindow(audit) <= CallLimit
    BY <1>3 DEF Passed
  <2>9. c["distinct"] = Rows(Valid, D)
    BY <2>4, <2>5, <2>6, <2>7, <2>8, SilverMatches
  <2>10. Sorted(audit) /\ CallLimit \in Nat /\ DOMAIN audit = 1 .. Len(audit)
    BY QualityAssumption DEF Sorted
  <2>11. ASSUME NEW start \in {audit[i] : i \in DOMAIN audit}
         PROVE  Cardinality({i \in DOMAIN audit : start <= audit[i] /\ audit[i] < start + Minute})
                  <= CallLimit
    <3>1. PICK j \in 1 .. Len(audit) : start = audit[j]
      BY <2>10
    <3>2. QED
      BY <3>1, <2>8, <2>10, WindowsBounded
  <2> HIDE DEF c, D
  <2>12. (Rows(Valid, D) = Rows(Valid, certify'.dates))
    BY <2>2
  <2>13. QED
    BY <2>2, <2>9, <2>11, <2>12 DEF CertificateIsTrue
<1>4. QED
  BY <1>2, <1>3

(* For any dates and bars of which most are valid on each day the market was   *)
(* open, and any audit files: what a certificate that passed says is so        *)
(* (CertificateIsTrue), whatever the pipeline did between its queries.         *)
THEOREM CertificateTrue ==
  ASSUME MostAreGood
  PROVE  QualitySpec => []CertificateIsTrue
<1>1. QualityInit => CertifyInv /\ CertificateIsTrue
  <2> SUFFICES ASSUME QualityInit PROVE CertifyInv /\ CertificateIsTrue
    OBVIOUS
  <2>1. certify.status = "none"
    BY NoReportOK DEF QualityInit
  <2>2. QED
    BY <2>1, CertifyInitial DEF CertificateIsTrue
<1>2. ASSUME CertifyInv, CertificateIsTrue, [QualityNext]_qualityVars
      PROVE  CertifyInv' /\ CertificateIsTrue'
  <2>1. CertifyInv'
    BY <1>2, CertifyStep
  <2>2. CASE Measure
    <3>1. certify'.status = "none"
      BY <1>2, <2>2, MeasureStep
    <3>2. QED
      BY <2>1, <3>1 DEF CertificateIsTrue
  <2>3. CASE Certify
    BY <1>2, <2>1, <2>3, CertificateStep
  <2>4. CASE CertifyAgain
    <3>1. certify'.status = "none"
      BY <2>4, NoReportOK DEF CertifyAgain
    <3>2. QED
      BY <2>1, <3>1 DEF CertificateIsTrue
  <2>5. CASE UNCHANGED certify
    BY <1>2, <2>1, <2>5 DEF CertificateIsTrue
  <2>6. QED
    BY <1>2, <2>2, <2>3, <2>4, <2>5
       DEF QualityNext, CertifyNext, PipelineNext, UpdateRuns, LandFile, UpdateStarts,
           TakeResponses, TakeManifests, MakeSilver, MakeQuarantine, ReconcileIngestion,
           ReconcileSilver, Expect, PublishCoverage, MakePerformance, ComparePeers, KeepTables, UpdateEnds,
                UpdateStops, qualityVars
<1>3. QED
  BY <1>1, <1>2, PTL DEF QualitySpec
=============================================================================
