-------------------------- MODULE SecLandingProofs --------------------------
(***************************************************************************)
(* Proofs about SecLanding, for any companies, filings, threads, lifetimes *)
(* and faults.                                                             *)
(***************************************************************************)
EXTENDS SecLanding, TLAPS

RunType == [pc : {"idle", "cached", "fetch", "validate", "data", "manifest", "pointer", "pool"},
            n : Targets, kind : Kinds, snapshot : Snapshots \cup {None},
            served : 0..MaxAge, elapsed : 0..RunLimit]
ThreadType == [pc : {"rest", "check", "fetch", "validate", "data", "manifest"},
               task : Tasks \cup {None}, document : Documents \cup {None}]

LEMMA Basics ==
  /\ Ended \in RunType /\ Ended.pc = "idle" /\ Ended.served = 0 /\ Ended.elapsed = 0
  /\ Resting \in ThreadType /\ Resting.pc = "rest"
  /\ MaxAge \in Nat /\ 0 \in 0..MaxAge /\ 0 \in 0..RunLimit /\ 0 \in 0..Ttl + 1
<1>1. MaxAge \in Nat /\ 0 \in 0..MaxAge /\ 0 \in 0..RunLimit /\ 0 \in 0..Ttl + 1 /\ 1 \in Targets
  BY SecAssumption DEF MaxAge, Targets
<1>2. Ended \in RunType /\ Ended.pc = "idle" /\ Ended.served = 0 /\ Ended.elapsed = 0
  BY <1>1 DEF Ended, RunType, Kinds
<1>3. Resting \in ThreadType /\ Resting.pc = "rest"
  BY DEF Resting, ThreadType
<1>4. QED
  BY <1>1, <1>2, <1>3

LEMMA KeyOK == ASSUME TypeOK PROVE Key \in Keys
BY SecAssumption DEF TypeOK, Key, Keys

LEMMA AccessionOK ==
  ASSUME TypeOK, NEW t \in Threads, thread[t].pc # "rest"
  PROVE  thread[t].task \in Tasks /\ Accession(t) \in Accessions
BY SecAssumption DEF TypeOK, Accession, Accessions, Tasks

----------------------------------------------------------------------------
(* Types. *)

LEMMA InitTypes == Init => TypeOK
<1> SUFFICES ASSUME Init PROVE TypeOK
  OBVIOUS
<1>1. /\ run \in RunType /\ run.pc = "idle"
      /\ \A t \in Threads : thread[t] = Resting
      /\ thread \in [Threads -> ThreadType]
  BY Basics DEF Init
<1>2. QED
  BY <1>1, Basics, SecAssumption DEF Init, TypeOK, RunType, ThreadType

(* A step of the main thread outside the pool, to the state r with queue q. *)
LEMMA RunTypes ==
  ASSUME TypeOK, run.pc # "pool", run' \in RunType,
         run'.pc \in {"validate", "data", "manifest", "pointer"} => run'.snapshot \in Snapshots,
         queue' \subseteq Tasks, UNCHANGED <<document, paper, thread>>,
         responses' \subseteq Places, manifests' \subseteq Places,
         pointer' \in [Keys -> Pointers \cup {NoPointer}], faults' \in 0..MaxFaults
  PROVE  TypeOK'
BY DEF TypeOK, RunType

LEMMA GotoTypes ==
  ASSUME TypeOK,
         NEW pc \in {"idle", "cached", "fetch", "validate", "data", "manifest", "pointer", "pool"},
         Goto(pc)
  PROVE  run' \in RunType /\ run'.pc = pc /\ run'.snapshot = run.snapshot
BY DEF TypeOK, RunType, Goto

(* What is selected of an answer is listed in it. *)
LEMMA SelectedTypes == ASSUME NEW s \in Snapshots PROVE Selected(s) \subseteq Filings
<1>1. Recent[s] \in Seq(Filings)
  BY SecAssumption
<1>2. \A i \in DOMAIN Recent[s] : Recent[s][i] \in Filings
  BY <1>1
<1>3. QED
  BY <1>2 DEF Selected

LEMMA ProceedTypes ==
  ASSUME TypeOK, NEW s \in Snapshots, Proceed(s)
  PROVE  /\ run' \in RunType /\ run'.pc \in {"cached", "pool"} /\ queue' \subseteq Tasks
         /\ run'.served = run.served /\ run'.elapsed = run.elapsed
<1>1. run \in RunType /\ queue \subseteq Tasks /\ run.n \in Targets
  BY DEF TypeOK, RunType
<1>2. queue' \subseteq Tasks
  BY <1>1, SelectedTypes DEF Proceed, Tasks
<1>3. CASE run.kind = "submissions"
  <2>1. run' = [run EXCEPT !.pc = "cached", !.kind = "companyfacts", !.snapshot = None]
    BY <1>3 DEF Proceed, Advance
  <2>2. QED
    BY <1>1, <1>2, <2>1 DEF RunType, Kinds
<1>4. CASE run.kind # "submissions" /\ run.n < NTargets
  <2>1. run' = [run EXCEPT !.pc = "cached", !.n = run.n + 1, !.kind = "submissions",
                           !.snapshot = None]
    BY <1>4 DEF Proceed, Advance
  <2>2. run.n + 1 \in Targets
    BY <1>1, <1>4, SecAssumption DEF Targets
  <2>3. QED
    BY <1>1, <1>2, <2>1, <2>2 DEF RunType, Kinds
<1>5. CASE run.kind # "submissions" /\ ~(run.n < NTargets)
  <2>1. run' = [run EXCEPT !.pc = "pool", !.snapshot = None]
    BY <1>5 DEF Proceed, Advance
  <2>2. QED
    BY <1>1, <1>2, <2>1 DEF RunType
<1>6. QED
  BY <1>3, <1>4, <1>5

LEMMA CachedTypes == ASSUME TypeOK, Cached PROVE TypeOK'
<1> DEFINE p == pointer[Key]
<1>1. /\ run.pc = "cached"
      /\ UNCHANGED <<responses, manifests, pointer, document, paper, thread, faults>>
  BY DEF Cached, files
<1>2. p \in Pointers \cup {NoPointer}
  BY KeyOK DEF TypeOK
<1>3. /\ responses' \subseteq Places /\ manifests' \subseteq Places
      /\ pointer' \in [Keys -> Pointers \cup {NoPointer}] /\ faults' \in 0..MaxFaults
      /\ queue \subseteq Tasks
  BY <1>1 DEF TypeOK
<1>4. CASE Goto("fetch") /\ UNCHANGED queue
  BY <1>1, <1>3, <1>4, GotoTypes, RunTypes
<1>5. CASE p # NoPointer /\ Proceed(p.snapshot)
  <2>1. p.snapshot \in Snapshots
    BY <1>2, <1>5 DEF Pointers
  <2>2. QED
    BY <1>1, <1>3, <1>5, <2>1, ProceedTypes, RunTypes
<1>6. CASE Raise /\ queue' = {}
  BY <1>1, <1>3, <1>6, Basics, RunTypes DEF Raise
<1>7. QED
  BY <1>4, <1>5, <1>6 DEF Cached

LEMMA MainTypes ==
  ASSUME TypeOK, Start \/ Fetch \/ Validate \/ WriteData \/ WriteManifest \/ WritePointer \/ Fail
  PROVE  TypeOK'
<1> USE DEF files
<1>1. /\ responses \subseteq Places /\ manifests \subseteq Places
      /\ pointer \in [Keys -> Pointers \cup {NoPointer}] /\ faults \in 0..MaxFaults
      /\ queue \subseteq Tasks /\ run \in RunType
  BY DEF TypeOK, RunType
<1>2. CASE Start
  <2>1. run' = [Ended EXCEPT !.pc = "cached"] /\ run.pc = "idle"
    BY <1>2 DEF Start
  <2>2. run' \in RunType /\ run'.pc = "cached"
    BY <2>1, Basics DEF RunType
  <2>3. QED
    BY <1>1, <1>2, <2>1, <2>2, RunTypes DEF Start
<1>3. CASE Fetch
  <2>1. PICK s \in Snapshots : run' = [run EXCEPT !.pc = "validate", !.snapshot = s, !.served = 0]
    BY <1>3 DEF Fetch
  <2>2. run' \in RunType /\ run'.snapshot \in Snapshots
    BY <1>1, <2>1, Basics DEF RunType
  <2>3. QED
    BY <1>1, <1>3, <2>2, RunTypes DEF Fetch
<1>4. CASE Validate
  <2>1. run.pc = "validate" /\ run.snapshot \in Snapshots
        /\ UNCHANGED <<responses, manifests, pointer, document, paper, thread, faults>>
    BY <1>4 DEF Validate, TypeOK
  <2>2. CASE Goto("pointer") /\ UNCHANGED queue
    BY <1>1, <2>1, <2>2, GotoTypes, RunTypes
  <2>3. CASE Goto("data") /\ UNCHANGED queue
    BY <1>1, <2>1, <2>3, GotoTypes, RunTypes
  <2>4. CASE Raise /\ queue' = {}
    BY <1>1, <2>1, <2>4, Basics, RunTypes DEF Raise
  <2>5. QED
    BY <1>4, <2>2, <2>3, <2>4 DEF Validate
<1>5. CASE WriteData \/ WriteManifest
  <2>1. /\ run.pc \in {"data", "manifest"} /\ run.snapshot \in Snapshots
        /\ Goto("manifest") \/ Goto("pointer")
        /\ responses' \in {responses, responses \cup {Place}}
        /\ manifests' \in {manifests, manifests \cup {Place}}
        /\ UNCHANGED <<pointer, document, paper, queue, thread, faults>>
    BY <1>5 DEF WriteData, WriteManifest, TypeOK
  <2>2. Place \in Places
    BY <2>1, KeyOK DEF Place, Places
  <2>3. run' \in RunType /\ run'.snapshot \in Snapshots
    BY <2>1, GotoTypes
  <2>4. QED
    BY <1>1, <2>1, <2>2, <2>3, RunTypes
<1>6. CASE WritePointer
  <2> DEFINE p == [snapshot |-> run.snapshot, checked |-> 0, served |-> run.served]
  <2>1. /\ run.pc = "pointer" /\ run.snapshot \in Snapshots
        /\ pointer' = [pointer EXCEPT ![Key] = p] /\ Proceed(run.snapshot)
        /\ UNCHANGED <<responses, manifests, document, paper, thread, faults>>
    BY <1>6 DEF WritePointer, TypeOK
  <2>2. p \in Pointers
    BY <1>1, <2>1, Basics DEF Pointers, RunType
  <2> HIDE DEF p
  <2>3. pointer' \in [Keys -> Pointers \cup {NoPointer}]
    BY <1>1, <2>1, <2>2
  <2>4. QED
    BY <1>1, <2>1, <2>3, ProceedTypes, RunTypes
<1>7. CASE Fail
  <2>1. faults' \in 0..MaxFaults
    BY <1>1, <1>7, SecAssumption DEF Fail, Fault
  <2>2. QED
    BY <1>1, <1>7, <2>1, Basics, RunTypes DEF Fail, Raise
<1>8. QED
  BY <1>2, <1>3, <1>4, <1>5, <1>6, <1>7

(* Time. A run grows older up to its limit, a pointer up to what is told apart. *)
LEMMA OlderOK ==
  ASSUME NEW limit \in Nat, NEW age \in 0..limit
  PROVE  /\ Older(age, limit) \in 0..limit
         /\ age <= Older(age, limit) /\ Older(age, limit) <= age + 1
         /\ age < limit => Older(age, limit) = age + 1
BY DEF Older

LEMMA TickRun ==
  ASSUME run \in RunType, Tick
  PROVE  /\ run' \in RunType /\ run'.pc = run.pc /\ run'.snapshot = run.snapshot
         /\ run'.n = run.n /\ run'.kind = run.kind
         /\ run.pc # "idle" => /\ run'.elapsed = run.elapsed + 1
                               /\ run'.served <= run.served + 1
<1>1. CASE run.pc = "idle"
  BY <1>1 DEF Tick
<1>2. CASE run.pc # "idle"
  <2>1. run' = [run EXCEPT !.elapsed = run.elapsed + 1, !.served = Older(run.served, MaxAge)]
    BY <1>2 DEF Tick
  <2>2. run.served \in 0..MaxAge /\ run.elapsed \in 0..RunLimit /\ run.elapsed < RunLimit
    BY <1>2 DEF Tick, RunType
  <2>3. Older(run.served, MaxAge) \in 0..MaxAge /\ Older(run.served, MaxAge) <= run.served + 1
    BY <2>2, Basics, OlderOK
  <2>4. run.elapsed + 1 \in 0..RunLimit
    BY <2>2, SecAssumption
  <2>5. QED
    BY <2>1, <2>3, <2>4 DEF RunType
<1>3. QED
  BY <1>1, <1>2

LEMMA TickPointer ==
  ASSUME pointer \in [Keys -> Pointers \cup {NoPointer}], Tick
  PROVE  /\ pointer' \in [Keys -> Pointers \cup {NoPointer}]
         /\ \A k \in Keys :
               \/ pointer'[k] = NoPointer
               \/ /\ pointer[k] # NoPointer /\ pointer[k] \in Pointers
                  /\ pointer'[k].snapshot = pointer[k].snapshot
                  /\ pointer'[k].checked = Older(pointer[k].checked, Ttl + 1)
                  /\ pointer'[k].served = Older(pointer[k].served, MaxAge)
<1> DEFINE Aged(k) == [pointer[k] EXCEPT !.checked = Older(pointer[k].checked, Ttl + 1),
                                         !.served = Older(pointer[k].served, MaxAge)]
<1>1. pointer' = [k \in Keys |-> IF pointer[k] = NoPointer THEN NoPointer ELSE Aged(k)]
  BY DEF Tick
<1>2. ASSUME NEW k \in Keys, pointer[k] # NoPointer
      PROVE  /\ pointer[k] \in Pointers /\ Aged(k) \in Pointers
             /\ Aged(k).snapshot = pointer[k].snapshot
             /\ Aged(k).checked = Older(pointer[k].checked, Ttl + 1)
             /\ Aged(k).served = Older(pointer[k].served, MaxAge)
  <2>1. pointer[k] \in Pointers
    BY <1>2
  <2>2. pointer[k].checked \in 0..Ttl + 1 /\ pointer[k].served \in 0..MaxAge /\ Ttl + 1 \in Nat
    BY <2>1, SecAssumption DEF Pointers
  <2>3. /\ Older(pointer[k].checked, Ttl + 1) \in 0..Ttl + 1
        /\ Older(pointer[k].served, MaxAge) \in 0..MaxAge
    BY <2>2, Basics, OlderOK
  <2>4. QED
    BY <2>1, <2>3 DEF Pointers
<1> HIDE DEF Aged
<1>3. QED
  BY <1>1, <1>2

(* A step of the thread t to the state r; the others stay where they are. *)
LEMMA ThreadTypes ==
  ASSUME TypeOK, NEW t \in Threads, NEW r \in ThreadType, run.pc = "pool",
         r.pc # "rest" => r.task \in Tasks,
         thread' = [thread EXCEPT ![t] = r], queue' \subseteq Tasks, faults' \in 0..MaxFaults,
         UNCHANGED <<responses, manifests, pointer, run>>,
         document' \in [Accessions -> Documents \cup {None}],
         paper' \in [Accessions -> Documents \cup {None}]
  PROVE  TypeOK'
<1>1. thread \in [Threads -> ThreadType]
  BY DEF TypeOK, ThreadType
<1>2. thread' \in [Threads -> ThreadType]
  BY <1>1
<1>3. \A u \in Threads : thread'[u].pc # "rest" => run'.pc = "pool" /\ thread'[u].task \in Tasks
  BY <1>1 DEF TypeOK
<1>4. QED
  BY <1>2, <1>3 DEF TypeOK, ThreadType

(* What a thread at work is, and what Step and Rest make of it. *)
LEMMA AtWork ==
  ASSUME TypeOK, NEW t \in Threads
  PROVE  /\ thread \in [Threads -> ThreadType] /\ thread[t] \in ThreadType
         /\ thread[t].pc # "rest" => run.pc = "pool" /\ thread[t].task \in Tasks
         /\ queue \subseteq Tasks /\ faults \in 0..MaxFaults
         /\ document \in [Accessions -> Documents \cup {None}]
         /\ paper \in [Accessions -> Documents \cup {None}]
BY DEF TypeOK, ThreadType

LEMMA StepTypes ==
  ASSUME TypeOK, NEW t \in Threads, thread[t].pc # "rest",
         NEW pc \in {"fetch", "data", "manifest"}, Step(t, pc)
  PROVE  \E r \in ThreadType :
            /\ thread' = [thread EXCEPT ![t] = r]
            /\ r.pc = pc /\ r.task = thread[t].task /\ r.document = thread[t].document
<1> DEFINE r == [thread[t] EXCEPT !.pc = pc]
<1>1. r \in ThreadType /\ r.pc = pc /\ r.task = thread[t].task /\ r.document = thread[t].document
  BY AtWork DEF ThreadType
<1>2. thread' = [thread EXCEPT ![t] = r]
  BY AtWork DEF Step
<1>3. QED
  BY <1>1, <1>2

LEMMA TakeShape ==
  ASSUME TypeOK, NEW t \in Threads, Take(t)
  PROVE  \E task \in queue, r \in ThreadType :
            /\ thread[t].pc = "rest" /\ run.pc = "pool" /\ queue' = queue \ {task}
            /\ thread' = [thread EXCEPT ![t] = r]
            /\ r.pc = "check" /\ r.task = task
<1>1. PICK task \in queue :
         /\ queue' = queue \ {task}
         /\ thread' = [thread EXCEPT ![t] = [Resting EXCEPT !.pc = "check", !.task = task]]
  BY DEF Take
<1> DEFINE r == [Resting EXCEPT !.pc = "check", !.task = task]
<1>2. r \in ThreadType /\ r.pc = "check" /\ r.task = task
  BY Basics, AtWork DEF ThreadType
<1>3. QED
  BY <1>1, <1>2 DEF Take, Works

LEMMA FetchShape ==
  ASSUME TypeOK, NEW t \in Threads, FetchDocument(t)
  PROVE  \E r \in ThreadType :
            /\ thread[t].pc = "fetch" /\ thread' = [thread EXCEPT ![t] = r]
            /\ r.pc = "validate" /\ r.task = thread[t].task
<1>1. PICK d \in Documents : thread' = [thread EXCEPT ![t].pc = "validate", ![t].document = d]
  BY DEF FetchDocument
<1> DEFINE r == [thread[t] EXCEPT !.pc = "validate", !.document = d]
<1>2. r \in ThreadType /\ r.pc = "validate" /\ r.task = thread[t].task
  BY AtWork DEF ThreadType
<1>3. thread' = [thread EXCEPT ![t] = r]
  BY <1>1, AtWork
<1>4. QED
  BY <1>2, <1>3 DEF FetchDocument, Works

LEMMA ThreadStepTypes ==
  ASSUME TypeOK, NEW t \in Threads, ThreadSteps(t) \/ FailDocument(t)
  PROVE  TypeOK'
<1> USE DEF files
<1>1. CASE Take(t)
  <2>1. PICK task \in queue, r \in ThreadType :
            /\ thread[t].pc = "rest" /\ run.pc = "pool" /\ queue' = queue \ {task}
            /\ thread' = [thread EXCEPT ![t] = r]
            /\ r.pc = "check" /\ r.task = task
    BY <1>1, TakeShape
  <2>2. UNCHANGED <<responses, manifests, pointer, document, paper, run, faults>>
    BY <1>1 DEF Take
  <2>3. QED
    BY <2>1, <2>2, AtWork, ThreadTypes
<1>2. CASE FetchDocument(t)
  <2>1. PICK r \in ThreadType :
            /\ thread[t].pc = "fetch" /\ thread' = [thread EXCEPT ![t] = r]
            /\ r.pc = "validate" /\ r.task = thread[t].task
    BY <1>2, FetchShape
  <2>2. UNCHANGED <<responses, manifests, pointer, document, paper, run, queue, faults>>
    BY <1>2 DEF FetchDocument
  <2>3. QED
    BY <2>1, <2>2, AtWork, ThreadTypes
<1>3. CASE Check(t) \/ ValidateDocument(t)
  <2>1. /\ thread[t].pc # "rest"
        /\ Step(t, "fetch") \/ Step(t, "data") \/ Rest(t)
        /\ UNCHANGED <<responses, manifests, pointer, document, paper, run, queue, faults>>
    BY <1>3 DEF Check, ValidateDocument, Works
  <2>2. CASE Rest(t)
    <3>1. thread' = [thread EXCEPT ![t] = Resting]
      BY <2>2 DEF Rest
    <3>2. QED
      BY <2>1, <3>1, AtWork, Basics, ThreadTypes
  <2>3. CASE Step(t, "fetch") \/ Step(t, "data")
    <3>1. PICK r \in ThreadType : /\ thread' = [thread EXCEPT ![t] = r]
                                  /\ r.task = thread[t].task
      BY <2>1, <2>3, StepTypes
    <3>2. QED
      BY <2>1, <3>1, AtWork, ThreadTypes
  <2>4. QED
    BY <2>1, <2>2, <2>3
<1>4. CASE WriteDocument(t)
  <2>1. /\ thread[t].pc = "data" /\ Step(t, "manifest")
        /\ document' = [document EXCEPT ![Accession(t)] = thread[t].document]
        /\ UNCHANGED <<responses, manifests, pointer, paper, run, queue, faults>>
    BY <1>4 DEF WriteDocument, Works
  <2>2. PICK r \in ThreadType : /\ thread' = [thread EXCEPT ![t] = r]
                                /\ r.task = thread[t].task
    BY <2>1, StepTypes
  <2>3. thread[t].document \in Documents \cup {None}
    BY AtWork DEF ThreadType
  <2>4. document' \in [Accessions -> Documents \cup {None}]
    BY <2>1, <2>3, AtWork
  <2>5. QED
    BY <2>1, <2>2, <2>4, AtWork, ThreadTypes
<1>5. CASE WritePaper(t)
  <2>1. /\ thread[t].pc = "manifest" /\ thread' = [thread EXCEPT ![t] = Resting]
        /\ paper' = [paper EXCEPT ![Accession(t)] = thread[t].document]
        /\ UNCHANGED <<responses, manifests, pointer, document, run, queue, faults>>
    BY <1>5 DEF WritePaper, Works, Rest
  <2>2. thread[t].document \in Documents \cup {None}
    BY AtWork DEF ThreadType
  <2>3. paper' \in [Accessions -> Documents \cup {None}]
    BY <2>1, <2>2, AtWork
  <2>4. QED
    BY <2>1, <2>3, AtWork, Basics, ThreadTypes
<1>6. CASE FailDocument(t)
  <2>1. /\ thread[t].pc # "rest" /\ thread' = [thread EXCEPT ![t] = Resting]
        /\ UNCHANGED <<responses, manifests, pointer, document, paper, run, queue>>
        /\ faults < MaxFaults /\ faults' = faults + 1
    BY <1>6 DEF FailDocument, Rest, Fault
  <2>2. faults' \in 0..MaxFaults
    BY <2>1, AtWork, SecAssumption
  <2>3. QED
    BY <2>1, <2>2, AtWork, Basics, ThreadTypes
<1>7. QED
  BY <1>1, <1>2, <1>3, <1>4, <1>5, <1>6 DEF ThreadSteps

LEMMA EndTypes == ASSUME TypeOK, Finish \/ Crash \/ Tick PROVE TypeOK'
<1> USE DEF files
<1>1. /\ run \in RunType /\ thread \in [Threads -> ThreadType] /\ queue \subseteq Tasks
      /\ responses \subseteq Places /\ manifests \subseteq Places
      /\ pointer \in [Keys -> Pointers \cup {NoPointer}] /\ faults \in 0..MaxFaults
      /\ document \in [Accessions -> Documents \cup {None}]
      /\ paper \in [Accessions -> Documents \cup {None}]
  BY DEF TypeOK, RunType, ThreadType
<1>2. CASE Finish
  <2>1. /\ run' = Ended /\ \A t \in Threads : thread'[t].pc = "rest"
        /\ UNCHANGED <<responses, manifests, pointer, document, paper, queue, thread, faults>>
    BY <1>2 DEF Finish, Works
  <2>2. QED
    BY <1>1, <2>1, Basics DEF TypeOK, RunType, ThreadType
<1>3. CASE Crash
  <2>1. /\ run' = Ended /\ queue' = {} /\ thread' = [t \in Threads |-> Resting]
        /\ UNCHANGED <<responses, manifests, pointer, document, paper>>
        /\ faults < MaxFaults /\ faults' = faults + 1
    BY <1>3 DEF Crash, Fault
  <2>2. faults' \in 0..MaxFaults
    BY <1>1, <2>1, SecAssumption
  <2>3. thread' \in [Threads -> ThreadType] /\ \A t \in Threads : thread'[t].pc = "rest"
    BY <2>1, Basics
  <2>4. QED
    BY <1>1, <2>1, <2>2, <2>3, Basics DEF TypeOK, RunType, ThreadType
<1>4. CASE Tick
  <2>1. run' \in RunType /\ run'.pc = run.pc /\ run'.snapshot = run.snapshot
    BY <1>1, <1>4, TickRun
  <2>2. pointer' \in [Keys -> Pointers \cup {NoPointer}]
    BY <1>1, <1>4, TickPointer
  <2>3. UNCHANGED <<responses, manifests, document, paper, queue, thread, faults>>
    BY <1>4 DEF Tick
  <2>4. QED
    BY <1>1, <2>1, <2>2, <2>3 DEF TypeOK, RunType, ThreadType
<1>5. QED
  BY <1>2, <1>3, <1>4

LEMMA NextTypes == ASSUME TypeOK, [Next]_vars PROVE TypeOK'
<1>1. CASE \E t \in Threads : ThreadSteps(t) \/ FailDocument(t)
  BY <1>1, ThreadStepTypes
<1>2. CASE UNCHANGED vars
  BY <1>2 DEF TypeOK, vars, files
<1>3. QED
  BY <1>1, <1>2, MainTypes, CachedTypes, EndTypes DEF Next, RunSteps

(* Only a run in its pool has threads at work, on tasks it queued; a snapshot *)
(* is known from its answer to its pointer.                                   *)
THEOREM TypeCorrect == Spec => []TypeOK
<1>1. Init => TypeOK
  BY InitTypes
<1>2. TypeOK /\ [Next]_vars => TypeOK'
  BY NextTypes
<1>3. QED
  BY <1>1, <1>2, PTL DEF Spec

----------------------------------------------------------------------------
(* The cache. What CacheIsSound needs to be inductive: the files that a run   *)
(* knows to be there when it writes the next one, and that an answer is no    *)
(* older than its run.                                                        *)

CacheInv ==
    /\ manifests \subseteq responses
    /\ run.pc = "manifest" => Place \in responses
    /\ run.pc = "pointer" => Place \in manifests
    /\ run.served <= run.elapsed
    /\ \A k \in Keys : pointer[k] # NoPointer =>
          /\ <<k, pointer[k].snapshot>> \in manifests
          /\ pointer[k].checked <= Ttl => pointer[k].served <= pointer[k].checked + RunLimit

LEMMA InitCache == Init => CacheInv
BY Basics DEF Init, CacheInv

(* A step that leaves the snapshots alone, to a place where it claims nothing. *)
LEMMA QuietCache ==
  ASSUME CacheInv, UNCHANGED <<responses, manifests, pointer>>,
         run'.pc \notin {"manifest", "pointer"}, run'.served <= run'.elapsed
  PROVE  CacheInv'
BY DEF CacheInv

(* A step that leaves the main thread alone as well. *)
LEMMA StillCache ==
  ASSUME CacheInv, UNCHANGED <<responses, manifests, pointer, run>>
  PROVE  CacheInv'
BY DEF CacheInv, Place, Key

LEMMA GotoPlace ==
  ASSUME TypeOK,
         NEW pc \in {"idle", "cached", "fetch", "validate", "data", "manifest", "pointer", "pool"},
         Goto(pc)
  PROVE  /\ run'.pc = pc /\ Place' = Place
         /\ run'.served = run.served /\ run'.elapsed = run.elapsed
BY DEF TypeOK, Goto, Place, Key

LEMMA CacheStep == ASSUME TypeOK, CacheInv, [Next]_vars PROVE CacheInv'
<1> USE DEF files
<1>1. /\ run \in RunType /\ run.served <= run.elapsed /\ manifests \subseteq responses
      /\ run.served \in Nat /\ run.elapsed \in 0..RunLimit
      /\ \A k \in Keys : pointer[k] # NoPointer =>
            /\ <<k, pointer[k].snapshot>> \in manifests
            /\ pointer[k].checked <= Ttl => pointer[k].served <= pointer[k].checked + RunLimit
  BY Basics DEF TypeOK, RunType, CacheInv
<1>2. CASE Start \/ Finish \/ Crash \/ Fail
  <2>1. /\ UNCHANGED <<responses, manifests, pointer>>
        /\ run' = Ended \/ run' = [Ended EXCEPT !.pc = "cached"]
    BY <1>2 DEF Start, Finish, Crash, Fail, Raise
  <2>2. run'.pc \in {"idle", "cached"} /\ run'.served = 0 /\ run'.elapsed = 0
    BY <2>1, Basics DEF RunType
  <2>3. QED
    BY <2>1, <2>2, QuietCache
<1>3. CASE Cached
  <2>1. UNCHANGED <<responses, manifests, pointer>>
    BY <1>3 DEF Cached
  <2>2. pointer[Key] \in Pointers \cup {NoPointer}
    BY KeyOK DEF TypeOK
  <2>3. CASE Goto("fetch")
    BY <1>1, <2>1, <2>3, GotoPlace, QuietCache
  <2>4. CASE pointer[Key] # NoPointer /\ Proceed(pointer[Key].snapshot)
    <3>1. pointer[Key].snapshot \in Snapshots
      BY <2>2, <2>4 DEF Pointers
    <3>2. QED
      BY <1>1, <2>1, <2>4, <3>1, ProceedTypes, QuietCache
  <2>5. CASE Raise
    BY <2>1, <2>5, Basics, QuietCache DEF Raise
  <2>6. QED
    BY <1>3, <2>3, <2>4, <2>5 DEF Cached
<1>4. CASE Fetch
  <2>1. PICK s \in Snapshots : run' = [run EXCEPT !.pc = "validate", !.snapshot = s, !.served = 0]
    BY <1>4 DEF Fetch
  <2>2. run'.pc = "validate" /\ run'.served = 0 /\ run'.elapsed = run.elapsed
    BY <1>1, <2>1 DEF RunType
  <2>3. QED
    BY <1>1, <1>4, <2>2, QuietCache DEF Fetch
<1>5. CASE Validate
  <2>1. UNCHANGED <<responses, manifests, pointer>>
    BY <1>5 DEF Validate
  <2>2. CASE Place \in manifests /\ Goto("pointer")
    <3>1. /\ run'.pc = "pointer" /\ Place' = Place
          /\ run'.served = run.served /\ run'.elapsed = run.elapsed
      BY <2>2, GotoPlace
    <3>2. QED
      BY <1>1, <2>1, <2>2, <3>1 DEF CacheInv
  <2>3. CASE Goto("data")
    BY <1>1, <2>1, <2>3, GotoPlace, QuietCache
  <2>4. CASE Raise
    BY <2>1, <2>4, Basics, QuietCache DEF Raise
  <2>5. QED
    BY <1>5, <2>2, <2>3, <2>4 DEF Validate
<1>6. CASE WriteData
  <2>1. responses' = responses \cup {Place} /\ Goto("manifest") /\ UNCHANGED <<manifests, pointer>>
    BY <1>6 DEF WriteData
  <2>2. /\ run'.pc = "manifest" /\ Place' = Place
        /\ run'.served = run.served /\ run'.elapsed = run.elapsed
    BY <2>1, GotoPlace
  <2>3. QED
    BY <1>1, <2>1, <2>2 DEF CacheInv
<1>7. CASE WriteManifest
  <2>1. /\ manifests' = manifests \cup {Place} /\ Goto("pointer")
        /\ UNCHANGED <<responses, pointer>> /\ Place \in responses
    BY <1>7 DEF WriteManifest, CacheInv
  <2>2. /\ run'.pc = "pointer" /\ Place' = Place
        /\ run'.served = run.served /\ run'.elapsed = run.elapsed
    BY <2>1, GotoPlace
  <2>3. QED
    BY <1>1, <2>1, <2>2 DEF CacheInv
<1>8. CASE WritePointer
  <2> DEFINE p == [snapshot |-> run.snapshot, checked |-> 0, served |-> run.served]
  <2>1. /\ run.snapshot \in Snapshots /\ <<Key, run.snapshot>> \in manifests
        /\ pointer' = [pointer EXCEPT ![Key] = p] /\ Proceed(run.snapshot)
        /\ UNCHANGED <<responses, manifests>>
    BY <1>8 DEF WritePointer, TypeOK, CacheInv, Place
  <2>2. run'.pc \in {"cached", "pool"} /\ run'.served = run.served /\ run'.elapsed = run.elapsed
    BY <2>1, ProceedTypes
  <2>3. p.snapshot = run.snapshot /\ p.served <= p.checked + RunLimit
    BY <1>1, SecAssumption
  <2> HIDE DEF p
  <2>4. \A k \in Keys : (pointer'[k] = p /\ k = Key) \/ pointer'[k] = pointer[k]
    BY <2>1 DEF TypeOK
  <2>5. QED
    BY <1>1, <2>1, <2>2, <2>3, <2>4 DEF CacheInv
<1>9. CASE Tick
  <2>1. /\ run'.pc = run.pc /\ run'.snapshot = run.snapshot /\ run'.n = run.n
        /\ run'.kind = run.kind
        /\ run.pc # "idle" => run'.elapsed = run.elapsed + 1 /\ run'.served <= run.served + 1
    BY <1>1, <1>9, TickRun
  <2>2. UNCHANGED <<responses, manifests>> /\ (run.pc = "idle" => run' = run)
    BY <1>9 DEF Tick
  <2>3. run'.served \in Nat /\ run'.elapsed \in Nat
    BY <1>1, <1>9, TickRun, Basics, SecAssumption DEF RunType
  <2>4. run'.served <= run'.elapsed
    BY <1>1, <2>1, <2>2, <2>3
  <2>5. Place' = Place
    BY <2>1 DEF Place, Key
  <2>6. ASSUME NEW k \in Keys, pointer'[k] # NoPointer
        PROVE  /\ <<k, pointer'[k].snapshot>> \in manifests'
               /\ pointer'[k].checked <= Ttl => pointer'[k].served <= pointer'[k].checked + RunLimit
    <3>1. /\ pointer[k] # NoPointer /\ pointer[k] \in Pointers
          /\ pointer'[k].snapshot = pointer[k].snapshot
          /\ pointer'[k].checked = Older(pointer[k].checked, Ttl + 1)
          /\ pointer'[k].served = Older(pointer[k].served, MaxAge)
      BY <1>9, <2>6, TickPointer DEF TypeOK
    <3>2. pointer[k].checked \in 0..Ttl + 1 /\ pointer[k].served \in 0..MaxAge /\ Ttl + 1 \in Nat
      BY <3>1, SecAssumption DEF Pointers
    <3>3. /\ pointer[k].checked < Ttl + 1 => pointer'[k].checked = pointer[k].checked + 1
          /\ pointer[k].checked <= pointer'[k].checked /\ pointer'[k].checked \in 0..Ttl + 1
          /\ pointer'[k].served <= pointer[k].served + 1 /\ pointer'[k].served \in 0..MaxAge
      BY <3>1, <3>2, Basics, OlderOK
    <3>4. /\ <<k, pointer[k].snapshot>> \in manifests
          /\ pointer[k].checked <= Ttl => pointer[k].served <= pointer[k].checked + RunLimit
      BY <1>1, <3>1
    <3>5. ASSUME pointer'[k].checked <= Ttl
          PROVE  pointer'[k].served <= pointer'[k].checked + RunLimit
      <4>1. RunLimit \in Nat /\ Ttl \in Nat /\ MaxAge \in Nat
        BY Basics, SecAssumption
      <4>2. QED
        BY <3>2, <3>3, <3>4, <3>5, <4>1
    <3>6. QED
      BY <2>2, <3>1, <3>4, <3>5
  <2>7. QED
    BY <1>1, <2>1, <2>2, <2>4, <2>5, <2>6 DEF CacheInv
<1>10. CASE \E t \in Threads : ThreadSteps(t) \/ FailDocument(t)
  <2>1. UNCHANGED <<responses, manifests, pointer, run>>
    BY <1>10 DEF ThreadSteps, Take, Check, FetchDocument, ValidateDocument, WriteDocument,
                 WritePaper, FailDocument
  <2>2. QED
    BY <2>1, StillCache
<1>11. CASE UNCHANGED vars
  BY <1>11, StillCache DEF vars
<1>12. QED
  BY <1>2, <1>3, <1>4, <1>5, <1>6, <1>7, <1>8, <1>9, <1>10, <1>11 DEF Next, RunSteps

(* A cache pointer names a whole pair, and while it is fresh the SEC gave that *)
(* answer no longer ago than the lifetime and the length of one run.           *)
THEOREM CacheSound == Spec => []CacheIsSound
<1>1. Init => TypeOK /\ CacheInv
  BY InitTypes, InitCache
<1>2. TypeOK /\ CacheInv /\ [Next]_vars => TypeOK' /\ CacheInv'
  BY NextTypes, CacheStep
<1>3. TypeOK /\ CacheInv => CacheIsSound
  <2> SUFFICES ASSUME TypeOK, CacheInv, NEW k \in Keys, pointer[k] # NoPointer
               PROVE  /\ <<k, pointer[k].snapshot>> \in manifests
                      /\ pointer[k].checked <= Ttl => pointer[k].served <= Ttl + RunLimit
    BY DEF CacheIsSound
  <2>1. pointer[k].checked \in Nat /\ pointer[k].served \in Nat
    BY Basics, SecAssumption DEF TypeOK, Pointers
  <2>2. QED
    BY <2>1, SecAssumption DEF CacheInv
<1>4. QED
  BY <1>1, <1>2, <1>3, PTL DEF Spec

----------------------------------------------------------------------------
(* The filings, when no company is named twice: then two tasks are two        *)
(* filings, and a filing that a thread has taken is nobody else's.            *)

Distinct == \A m, n \in Targets : Target[m] = Target[n] => m = n

At(task) == <<Target[task[1]], task[2]>>
Busy(t) == thread[t].pc # "rest"

FilingInv ==
    /\ \A t \in Threads : Busy(t) =>
          /\ thread[t].task \notin queue
          /\ \A u \in Threads \ {t} : Busy(u) => thread[u].task # thread[t].task
    /\ \A a \in Accessions : paper[a] # None => document[a] = paper[a]
    /\ \A t \in Threads :
          /\ thread[t].pc \in {"fetch", "validate", "data"} => document[At(thread[t].task)] = None
          /\ thread[t].pc = "manifest" => document[At(thread[t].task)] = thread[t].document

LEMMA InitFilings == Init => FilingInv
BY Basics DEF Init, FilingInv, Busy

LEMMA TwoFilings ==
  ASSUME Distinct, NEW x \in Tasks, NEW y \in Tasks, At(x) = At(y)
  PROVE  x = y
BY DEF Distinct, Tasks, At

(* A step that leaves threads and filings alone, and queues nothing that a     *)
(* thread has taken.                                                           *)
LEMMA QuietFilings ==
  ASSUME TypeOK, FilingInv, UNCHANGED <<document, paper, thread>>,
         queue' \subseteq queue \/ run.pc # "pool"
  PROVE  FilingInv'
<1>1. CASE queue' \subseteq queue
  BY <1>1 DEF FilingInv, Busy
<1>2. CASE run.pc # "pool"
  <2>1. \A t \in Threads : thread'[t].pc = "rest"
    BY <1>2 DEF TypeOK
  <2>2. QED
    BY <2>1 DEF FilingInv, Busy
<1>3. QED
  BY <1>1, <1>2

(* A step of the thread t to r that leaves the filings alone. *)
LEMMA ThreadFilings ==
  ASSUME TypeOK, FilingInv, NEW t \in Threads, NEW r \in ThreadType,
         thread' = [thread EXCEPT ![t] = r], UNCHANGED <<document, paper>>, queue' \subseteq queue,
         r.pc # "rest" => /\ r.task \notin queue'
                          /\ \A u \in Threads \ {t} : Busy(u) => thread[u].task # r.task,
         r.pc \in {"fetch", "validate", "data"} => document[At(r.task)] = None,
         r.pc # "manifest"
  PROVE  FilingInv'
<1>1. thread'[t] = r /\ \A u \in Threads \ {t} : thread'[u] = thread[u]
  BY AtWork
<1>2. \A u \in Threads : thread'[u].pc # "rest" =>
         /\ thread'[u].task \notin queue'
         /\ \A v \in Threads \ {u} : thread'[v].pc # "rest" => thread'[v].task # thread'[u].task
  BY <1>1 DEF FilingInv, Busy
<1>3. \A u \in Threads :
         /\ thread'[u].pc \in {"fetch", "validate", "data"} => document[At(thread'[u].task)] = None
         /\ thread'[u].pc = "manifest" => document[At(thread'[u].task)] = thread'[u].document
  BY <1>1 DEF FilingInv
<1>4. \A a \in Accessions : paper'[a] # None => document'[a] = paper'[a]
  BY DEF FilingInv
<1>5. QED
  BY <1>2, <1>3, <1>4 DEF FilingInv, Busy, At

(* What a thread at work knows of its filing. *)
LEMMA TaskOfItsOwn ==
  ASSUME TypeOK, FilingInv, NEW t \in Threads, Busy(t)
  PROVE  /\ thread[t].task \in Tasks /\ Accession(t) \in Accessions
         /\ Accession(t) = At(thread[t].task) /\ thread[t].task \notin queue
         /\ \A u \in Threads \ {t} : Busy(u) => thread[u].task # thread[t].task
         /\ thread[t].pc \in {"fetch", "validate", "data"} => document[At(thread[t].task)] = None
         /\ thread[t].pc = "manifest" => document[At(thread[t].task)] = thread[t].document
BY AccessionOK DEF FilingInv, Busy, Accession, At

LEMMA ThreadFilingStep ==
  ASSUME Distinct, TypeOK, FilingInv, NEW t \in Threads, ThreadSteps(t) \/ FailDocument(t)
  PROVE  FilingInv'
<1> USE DEF files
<1>1. CASE Take(t)
  <2>1. PICK task \in queue, r \in ThreadType :
            /\ thread[t].pc = "rest" /\ run.pc = "pool" /\ queue' = queue \ {task}
            /\ thread' = [thread EXCEPT ![t] = r]
            /\ r.pc = "check" /\ r.task = task
    BY <1>1, TakeShape
  <2>2. UNCHANGED <<document, paper>>
    BY <1>1 DEF Take
  <2>3. \A u \in Threads \ {t} : Busy(u) => thread[u].task # r.task
    BY <2>1 DEF FilingInv
  <2>4. QED
    BY <2>1, <2>2, <2>3, ThreadFilings
<1>2. CASE FetchDocument(t)
  <2>1. PICK r \in ThreadType :
            /\ thread[t].pc = "fetch" /\ thread' = [thread EXCEPT ![t] = r]
            /\ r.pc = "validate" /\ r.task = thread[t].task
    BY <1>2, FetchShape
  <2>2. UNCHANGED <<document, paper, queue>>
    BY <1>2 DEF FetchDocument
  <2>3. /\ r.task \notin queue' /\ document[At(r.task)] = None
        /\ \A u \in Threads \ {t} : Busy(u) => thread[u].task # r.task
    BY <2>1, <2>2, TaskOfItsOwn DEF Busy
  <2>4. queue' \subseteq queue /\ r.pc = "validate"
    BY <2>1, <2>2
  <2>5. QED
    BY <2>1, <2>2, <2>3, <2>4, ThreadFilings
<1>3. CASE (Check(t) \/ ValidateDocument(t)) /\ ~Rest(t)
  <2>1. /\ Busy(t) /\ UNCHANGED <<document, paper, queue>>
        /\ Step(t, "fetch") \/ Step(t, "data")
        /\ document[Accession(t)] = None
    BY <1>3 DEF Check, ValidateDocument, Works, Busy
  <2>2. PICK r \in ThreadType : /\ thread' = [thread EXCEPT ![t] = r]
                                /\ r.pc \in {"fetch", "data"} /\ r.task = thread[t].task
    BY <2>1, StepTypes DEF Busy
  <2>3. /\ r.task \notin queue' /\ document[At(r.task)] = None
        /\ \A u \in Threads \ {t} : Busy(u) => thread[u].task # r.task
    BY <2>1, <2>2, TaskOfItsOwn
  <2>4. queue' \subseteq queue /\ r.pc # "manifest"
    BY <2>1, <2>2
  <2>5. QED
    BY <2>1, <2>2, <2>3, <2>4, ThreadFilings
<1>4. CASE (Check(t) \/ ValidateDocument(t) \/ FailDocument(t)) /\ Rest(t)
  <2>1. UNCHANGED <<document, paper, queue>> /\ thread' = [thread EXCEPT ![t] = Resting]
    BY <1>4 DEF Check, ValidateDocument, FailDocument, Rest
  <2>2. QED
    BY <2>1, Basics, ThreadFilings
<1>5. CASE WriteDocument(t)
  <2> DEFINE a == Accession(t)
             d == thread[t].document
  <2>1. /\ thread[t].pc = "data" /\ Step(t, "manifest") /\ document' = [document EXCEPT ![a] = d]
        /\ UNCHANGED <<paper, queue>>
    BY <1>5 DEF WriteDocument, Works
  <2>2. PICK r \in ThreadType : /\ thread' = [thread EXCEPT ![t] = r]
                                /\ r.pc = "manifest" /\ r.task = thread[t].task /\ r.document = d
    BY <2>1, StepTypes
  <2>3. thread'[t] = r /\ \A u \in Threads \ {t} : thread'[u] = thread[u]
    BY <2>2, AtWork
  <2>4. a \in Accessions /\ a = At(thread[t].task) /\ document[a] = None /\ thread[t].task \in Tasks
    BY <2>1, TaskOfItsOwn DEF Busy
  <2>5. document'[a] = d /\ \A b \in Accessions \ {a} : document'[b] = document[b]
    BY <2>1, <2>4, AtWork
  <2>6. \A u \in Threads \ {t} : Busy(u) =>
           At(thread[u].task) # a /\ At(thread[u].task) \in Accessions
    <3> SUFFICES ASSUME NEW u \in Threads \ {t}, Busy(u)
                 PROVE  At(thread[u].task) # a /\ At(thread[u].task) \in Accessions
      OBVIOUS
    <3>1. /\ thread[u].task \in Tasks /\ thread[u].task # thread[t].task
          /\ At(thread[u].task) \in Accessions
      BY <2>1, TaskOfItsOwn DEF Busy
    <3>2. QED
      BY <2>4, <3>1, TwoFilings
  <2>7. \A b \in Accessions : paper'[b] # None => document'[b] = paper'[b]
    BY <2>1, <2>4, <2>5 DEF FilingInv
  <2>8. \A u \in Threads : thread'[u].pc # "rest" =>
           /\ thread'[u].task \notin queue'
           /\ \A v \in Threads \ {u} : thread'[v].pc # "rest" => thread'[v].task # thread'[u].task
    BY <2>1, <2>2, <2>3 DEF FilingInv, Busy
  <2>9. \A u \in Threads :
           /\ thread'[u].pc \in {"fetch", "validate", "data"} =>
                 document'[At(thread'[u].task)] = None
           /\ thread'[u].pc = "manifest" =>
                 document'[At(thread'[u].task)] = thread'[u].document
    BY <2>2, <2>3, <2>4, <2>5, <2>6 DEF FilingInv, Busy
  <2>10. QED
    BY <2>7, <2>8, <2>9 DEF FilingInv, Busy, At
<1>6. CASE WritePaper(t)
  <2> DEFINE a == Accession(t)
             d == thread[t].document
  <2>1. /\ thread[t].pc = "manifest" /\ thread' = [thread EXCEPT ![t] = Resting]
        /\ paper' = [paper EXCEPT ![a] = d] /\ UNCHANGED <<document, queue>>
    BY <1>6 DEF WritePaper, Works, Rest
  <2>2. thread'[t].pc = "rest" /\ \A u \in Threads \ {t} : thread'[u] = thread[u]
    BY <2>1, Basics, AtWork
  <2>3. a \in Accessions /\ document[a] = d
    BY <2>1, TaskOfItsOwn DEF Busy
  <2>4. \A b \in Accessions : paper'[b] = paper[b] \/ paper'[b] = document[b]
    BY <2>1, <2>3, AtWork
  <2>5. \A b \in Accessions : paper'[b] # None => document'[b] = paper'[b]
    BY <2>1, <2>4 DEF FilingInv
  <2>6. \A u \in Threads : thread'[u].pc # "rest" =>
           /\ thread'[u].task \notin queue'
           /\ \A v \in Threads \ {u} : thread'[v].pc # "rest" => thread'[v].task # thread'[u].task
    BY <2>1, <2>2 DEF FilingInv, Busy
  <2>7. \A u \in Threads :
           /\ thread'[u].pc \in {"fetch", "validate", "data"} =>
                 document'[At(thread'[u].task)] = None
           /\ thread'[u].pc = "manifest" =>
                 document'[At(thread'[u].task)] = thread'[u].document
    BY <2>1, <2>2 DEF FilingInv
  <2>8. QED
    BY <2>5, <2>6, <2>7 DEF FilingInv, Busy, At
<1>7. QED
  BY <1>1, <1>2, <1>3, <1>4, <1>5, <1>6 DEF ThreadSteps, FailDocument

LEMMA FilingStep == ASSUME Distinct, TypeOK, FilingInv, [Next]_vars PROVE FilingInv'
<1> USE DEF files
<1>1. CASE Crash
  <2>1. /\ \A t \in Threads : thread'[t].pc = "rest"
        /\ UNCHANGED <<document, paper>>
    BY <1>1, Basics DEF Crash
  <2>2. QED
    BY <2>1 DEF FilingInv, Busy
<1>2. CASE Start \/ Finish \/ Tick \/ Fail \/ RunSteps
  <2>1. UNCHANGED <<document, paper, thread>>
    BY <1>2 DEF Start, Finish, Tick, Fail, RunSteps, Cached, Fetch, Validate, WriteData,
                WriteManifest, WritePointer
  <2>2. queue' = queue \/ run.pc # "pool"
    BY <1>2 DEF Start, Finish, Tick, Fail, RunSteps, Cached, Fetch, Validate, WriteData,
                WriteManifest, WritePointer
  <2>3. QED
    BY <2>1, <2>2, QuietFilings
<1>3. CASE \E t \in Threads : ThreadSteps(t) \/ FailDocument(t)
  BY <1>3, ThreadFilingStep
<1>4. CASE UNCHANGED vars
  BY <1>4, QuietFilings DEF vars
<1>5. QED
  BY <1>1, <1>2, <1>3, <1>4 DEF Next

(* No step changes what has landed: the only writer of a document found none,  *)
(* and a manifest is written for the document that is there.                   *)
LEMMA LandedStep ==
  ASSUME TypeOK, FilingInv, [Next]_vars, NEW a \in Accessions
  PROVE  /\ document[a] # None => document'[a] = document[a]
         /\ paper[a] # None => paper'[a] = paper[a]
<1> USE DEF files
<1>1. CASE UNCHANGED <<document, paper>>
  BY <1>1
<1>2. ASSUME NEW t \in Threads, WriteDocument(t)
      PROVE  /\ document[a] # None => document'[a] = document[a]
             /\ paper[a] # None => paper'[a] = paper[a]
  <2>1. /\ thread[t].pc = "data" /\ UNCHANGED paper
        /\ document' = [document EXCEPT ![Accession(t)] = thread[t].document]
    BY <1>2 DEF WriteDocument, Works
  <2>2. document[Accession(t)] = None
    BY <2>1, TaskOfItsOwn DEF Busy
  <2>3. QED
    BY <2>1, <2>2, AtWork
<1>3. ASSUME NEW t \in Threads, WritePaper(t)
      PROVE  /\ document[a] # None => document'[a] = document[a]
             /\ paper[a] # None => paper'[a] = paper[a]
  <2>1. /\ thread[t].pc = "manifest" /\ UNCHANGED document
        /\ paper' = [paper EXCEPT ![Accession(t)] = thread[t].document]
    BY <1>3 DEF WritePaper, Works
  <2>2. document[Accession(t)] = thread[t].document
    BY <2>1, TaskOfItsOwn DEF Busy
  <2>3. paper[a] # None => document[a] = paper[a]
    BY DEF FilingInv
  <2>4. QED
    BY <2>1, <2>2, <2>3, AtWork
<1>4. QED
  BY <1>1, <1>2, <1>3 DEF Next, Start, RunSteps, ThreadSteps, Cached, Fetch, Validate, WriteData,
     WriteManifest, WritePointer, Fail, Take, Check, FetchDocument, ValidateDocument, FailDocument,
     Finish, Crash, Tick, vars

LEMMA FilingInvImplies ==
  ASSUME Distinct, TypeOK, FilingInv
  PROVE  FilingHasOneWriter
<1>1. ASSUME NEW t \in Threads
      PROVE  /\ thread[t].pc \in {"fetch", "validate", "data"} => document[Accession(t)] = None
             /\ thread[t].pc = "manifest" => document[Accession(t)] = thread[t].document
  BY <1>1, TaskOfItsOwn DEF Busy
<1>2. ASSUME NEW t \in Threads, NEW u \in Threads \ {t},
             thread[t].pc # "rest", thread[u].pc # "rest"
      PROVE  Accession(t) # Accession(u)
  <2>1. /\ thread[t].task \in Tasks /\ thread[u].task \in Tasks
        /\ thread[t].task # thread[u].task
        /\ Accession(t) = At(thread[t].task) /\ Accession(u) = At(thread[u].task)
    BY <1>2, TaskOfItsOwn DEF Busy
  <2>2. QED
    BY <2>1, TwoFilings
<1>3. QED
  BY <1>1, <1>2 DEF FilingHasOneWriter

(* When no company is named twice, no two threads are at the same filing, and  *)
LEMMA FilingInductive == ASSUME Distinct PROVE Spec => [](TypeOK /\ CacheInv /\ FilingInv)
<1>1. Init => TypeOK /\ CacheInv /\ FilingInv
  BY InitTypes, InitCache, InitFilings
<1>2. TypeOK /\ CacheInv /\ FilingInv /\ [Next]_vars => TypeOK' /\ CacheInv' /\ FilingInv'
  BY NextTypes, CacheStep, FilingStep
<1>3. QED
  BY <1>1, <1>2, PTL DEF Spec

(* When no company is named twice, no two threads are at the same filing, and  *)
(* a thread that will write one knows what is there.                           *)
THEOREM OneWriter == ASSUME Distinct PROVE Spec => []FilingHasOneWriter
<1>1. TypeOK /\ FilingInv => FilingHasOneWriter
  BY FilingInvImplies
<1>2. QED
  BY <1>1, FilingInductive, PTL

(* Then a manifest is never there without the data that it describes ...       *)
THEOREM PairsAreWhole == ASSUME Distinct PROVE Spec => []PairsMatch
<1>1. CacheInv /\ FilingInv => PairsMatch
  BY DEF PairsMatch, CacheInv, FilingInv
<1>2. QED
  BY <1>1, FilingInductive, PTL

(* ... and what has landed is never changed.                                   *)
THEOREM FilingsAreImmutable == ASSUME Distinct PROVE Spec => LandedNeverChanges
<1>1. TypeOK /\ FilingInv /\ [Next]_vars =>
        [\A a \in Accessions : /\ document[a] # None => document'[a] = document[a]
                               /\ paper[a] # None => paper'[a] = paper[a]]_vars
  BY LandedStep
<1>2. QED
  BY <1>1, FilingInductive, PTL DEF Spec, LandedNeverChanges
=============================================================================
