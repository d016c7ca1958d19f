----------------------------- MODULE SecLanding -----------------------------
(***************************************************************************)
(* The landing of SEC submissions, company facts and filing documents:     *)
(* ingestion/sec_landing.py, as the job of sec_ingestion.job.yml runs it,   *)
(* one run at a time.                                                      *)
(*                                                                         *)
(* A run walks over its companies.  For each it needs the submissions and  *)
(* the company facts, from the cache or from the SEC, and then a pool of   *)
(* threads lands the filings that the submissions list.  A snapshot lies   *)
(* in a directory named by its checksum, a filing in one named by its      *)
(* accession; both are a data file and then a manifest, and a snapshot     *)
(* also gets a cache pointer.  atomic_write replaces a whole file.         *)
(***************************************************************************)
EXTENDS Integers, FiniteSets, Sequences

CONSTANTS
    Companies,   \* by their number at the SEC, which names the directories
    NTargets,    \* the number of --company arguments
    Target,      \* Target[n]: the company of the n-th one
    Snapshots,   \* what the SEC may answer for submissions or facts
    Filings,     \* accession numbers
    Recent,      \* Recent[s]: the filings that the submissions s list, in order
    Selectable,  \* those of a selected form, with a date and a plain file name
    MaxFilings,  \* --max-filings-per-company
    Documents,   \* what the SEC may answer for a filing
    Threads,     \* the workers of the thread pool
    None,        \* a file that is not there, a thread without a task
    Ttl,         \* how long a snapshot is taken from the cache
    RunLimit,    \* the time limit of the job
    MaxFaults    \* bound: failed requests and writes and kills together

Targets  == 1..NTargets
Kinds    == {"submissions", "companyfacts"}
Keys     == Companies \X Kinds
Places   == Keys \X Snapshots      \* directories of snapshots
Accessions == Companies \X Filings \* directories of filings
Tasks    == Targets \X Filings

ASSUME SecAssumption ==
    /\ NTargets \in Nat \ {0} /\ Target \in [Targets -> Companies]
    /\ Recent \in [Snapshots -> Seq(Filings)] /\ MaxFilings \in Nat \ {0}
    /\ None \notin Documents /\ None \notin Tasks
    /\ Ttl \in Nat /\ RunLimit \in Nat /\ MaxFaults \in Nat

VARIABLES
    responses,   \* the places that have their response.json
    manifests,   \* ... and their manifest.json
    pointer,     \* cache.json of each key: checked_at and manifest_path
    document,    \* document.html of each filing
    paper,       \* its manifest.json: the document whose checksum it holds
    run,         \* the main thread of the run
    queue,       \* the filings no thread has taken yet
    thread,      \* what each thread is doing
    faults       \* the number of faults so far

files == <<responses, manifests, pointer, document, paper>>
vars == <<files, run, queue, thread, faults>>

(* Ages are exact up to what the cache and the time limit tell apart.  Of a   *)
(* pointer, served is history: how long ago the SEC gave what it names.       *)
MaxAge   == Ttl + RunLimit + 1
Pointers == [snapshot : Snapshots, checked : 0..Ttl + 1, served : 0..MaxAge]
NoPointer == [snapshot |-> None, checked |-> Ttl + 1, served |-> MaxAge]

Ended   == [pc |-> "idle", n |-> 1, kind |-> "submissions", snapshot |-> None,
            served |-> 0, elapsed |-> 0]
Resting == [pc |-> "rest", task |-> None, document |-> None]

Init ==
    /\ responses = {} /\ manifests = {}
    /\ pointer = [k \in Keys |-> NoPointer]
    /\ document = [a \in Accessions |-> None] /\ paper = [a \in Accessions |-> None]
    /\ run = Ended /\ queue = {}
    /\ thread = [t \in Threads |-> Resting]
    /\ faults = 0

Fault == faults < MaxFaults /\ faults' = faults + 1

----------------------------------------------------------------------------
(* The main thread: the snapshots of one company after the other.            *)

Key   == <<Target[run.n], run.kind>>
Place == <<Key, run.snapshot>>
Goto(pc) == run' = [run EXCEPT !.pc = pc]
Raise == run' = Ended

Start ==
    /\ run.pc = "idle"
    /\ run' = [Ended EXCEPT !.pc = "cached"]
    /\ UNCHANGED <<files, queue, thread, faults>>

(* What a run does once it has the snapshot s of its key.  The code queues    *)
(* the filings of s after the facts; nothing sees the queue before the pool.  *)
Advance ==
    run' = IF run.kind = "submissions"
           THEN [run EXCEPT !.pc = "cached", !.kind = "companyfacts", !.snapshot = None]
           ELSE IF run.n < NTargets
                THEN [run EXCEPT !.pc = "cached", !.n = @ + 1, !.kind = "submissions",
                                 !.snapshot = None]
                ELSE [run EXCEPT !.pc = "pool", !.snapshot = None]

(* parse_recent_filings: the first MaxFilings of the selectable entries.      *)
Selected(s) ==
    {Recent[s][i] : i \in {i \in DOMAIN Recent[s] :
        /\ Recent[s][i] \in Selectable
        /\ Cardinality({j \in 1..i : Recent[s][j] \in Selectable}) <= MaxFilings}}

Proceed(s) ==
    /\ Advance
    /\ queue' = IF run.kind = "submissions" THEN queue \cup ({run.n} \X Selected(s)) ELSE queue

(* cached_snapshot: the pointer's manifest is read before its age is looked  *)
(* at.  Two variants: a hit counts as a check, and the filings are only      *)
(* listed when the submissions are new.                                      *)
CachedTouching ==
    LET p == pointer[Key]
    IN  /\ run.pc = "cached"
        /\ IF p = NoPointer \/ p.checked > Ttl
           THEN Goto("fetch") /\ UNCHANGED <<queue, pointer>>
           ELSE Proceed(p.snapshot) /\ pointer' = [pointer EXCEPT ![Key].checked = 0]
        /\ UNCHANGED <<responses, manifests, document, paper, thread, faults>>

CachedUnlisted ==
    LET p == pointer[Key]
    IN  /\ run.pc = "cached"
        /\ IF p = NoPointer \/ p.checked > Ttl THEN Goto("fetch") ELSE Advance
        /\ UNCHANGED <<files, queue, thread, faults>>

Cached ==
    LET p == pointer[Key]
        place == <<Key, p.snapshot>>
    IN  /\ run.pc = "cached"
        /\ IF p = NoPointer \/ (place \in manifests /\ p.checked > Ttl)
           THEN Goto("fetch") /\ UNCHANGED queue
           ELSE IF place \in manifests /\ place \in responses
                THEN Proceed(p.snapshot)
                ELSE Raise /\ queue' = {}
        /\ UNCHANGED <<files, thread, faults>>

Fetch ==
    /\ run.pc = "fetch"
    /\ \E s \in Snapshots :
          run' = [run EXCEPT !.pc = "validate", !.snapshot = s, !.served = 0]
    /\ UNCHANGED <<files, queue, thread, faults>>

(* land_snapshot: half a pair is refused, whatever run it comes from.  A     *)
(* variant writes the manifest before the data.                              *)
ValidateManifestFirst ==
    /\ run.pc = "validate"
    /\ Goto(IF Place \in manifests THEN "pointer" ELSE "manifest")
    /\ UNCHANGED <<files, queue, thread, faults>>

Validate ==
    /\ run.pc = "validate"
    /\ CASE Place \in responses /\ Place \in manifests -> Goto("pointer") /\ UNCHANGED queue
         [] Place \notin responses /\ Place \notin manifests -> Goto("data") /\ UNCHANGED queue
         [] OTHER -> Raise /\ queue' = {}
    /\ UNCHANGED <<files, thread, faults>>

WriteData ==
    /\ run.pc = "data"
    /\ responses' = responses \cup {Place}
    /\ Goto("manifest")
    /\ UNCHANGED <<manifests, pointer, document, paper, queue, thread, faults>>

WriteManifest ==
    /\ run.pc = "manifest"
    /\ manifests' = manifests \cup {Place}
    /\ Goto("pointer")
    /\ UNCHANGED <<responses, pointer, document, paper, queue, thread, faults>>

WritePointer ==
    /\ run.pc = "pointer"
    /\ pointer' = [pointer EXCEPT ![Key] =
                      [snapshot |-> run.snapshot, checked |-> 0, served |-> run.served]]
    /\ Proceed(run.snapshot)
    /\ UNCHANGED <<responses, manifests, document, paper, thread, faults>>

(* A request or a write fails for good: nothing in the loop catches it, and  *)
(* no filing is landed.                                                      *)
Fail ==
    /\ run.pc \in {"fetch", "data", "manifest", "pointer"} /\ Fault
    /\ Raise /\ queue' = {}
    /\ UNCHANGED <<files, thread>>

----------------------------------------------------------------------------
(* fetch_filing, in the threads of the pool.  An exception ends one filing   *)
(* and is counted; it makes the exit status of the run.                      *)

Works(t, pc) == thread[t].pc = pc
Accession(t) == <<Target[thread[t].task[1]], thread[t].task[2]>>
Step(t, pc) == thread' = [thread EXCEPT ![t].pc = pc]
Rest(t) == thread' = [thread EXCEPT ![t] = Resting]

(* A variant that leaves the task to the others. *)
TakeOver(t) ==
    /\ run.pc = "pool" /\ Works(t, "rest")
    /\ \E task \in queue :
          thread' = [thread EXCEPT ![t] = [Resting EXCEPT !.pc = "check", !.task = task]]
    /\ UNCHANGED <<files, run, queue, faults>>

Take(t) ==
    /\ run.pc = "pool" /\ Works(t, "rest")
    /\ \E task \in queue :
          /\ queue' = queue \ {task}
          /\ thread' = [thread EXCEPT ![t] = [Resting EXCEPT !.pc = "check", !.task = task]]
    /\ UNCHANGED <<files, run, faults>>

(* filing_manifest: nothing to do for a whole pair, and half a pair or one   *)
(* that does not match is an error.  A variant looks for the manifest only.  *)
CheckManifest(t) ==
    /\ Works(t, "check")
    /\ IF paper[Accession(t)] = None THEN Step(t, "fetch") ELSE Rest(t)
    /\ UNCHANGED <<files, run, queue, faults>>

Check(t) ==
    /\ Works(t, "check")
    /\ IF document[Accession(t)] = None /\ paper[Accession(t)] = None
       THEN Step(t, "fetch") ELSE Rest(t)
    /\ UNCHANGED <<files, run, queue, faults>>

FetchDocument(t) ==
    /\ Works(t, "fetch")
    /\ \E d \in Documents :
          thread' = [thread EXCEPT ![t].pc = "validate", ![t].document = d]
    /\ UNCHANGED <<files, run, queue, faults>>

(* land_filing checks the pair once more before it writes.                   *)
ValidateDocument(t) ==
    /\ Works(t, "validate")
    /\ IF document[Accession(t)] = None /\ paper[Accession(t)] = None
       THEN Step(t, "data") ELSE Rest(t)
    /\ UNCHANGED <<files, run, queue, faults>>

WriteDocument(t) ==
    /\ Works(t, "data")
    /\ document' = [document EXCEPT ![Accession(t)] = thread[t].document]
    /\ Step(t, "manifest")
    /\ UNCHANGED <<responses, manifests, pointer, paper, run, queue, faults>>

WritePaper(t) ==
    /\ Works(t, "manifest")
    /\ paper' = [paper EXCEPT ![Accession(t)] = thread[t].document]
    /\ Rest(t)
    /\ UNCHANGED <<responses, manifests, pointer, document, run, queue, faults>>

FailDocument(t) ==
    /\ thread[t].pc \in {"fetch", "data", "manifest"} /\ Fault
    /\ Rest(t)
    /\ UNCHANGED <<files, run, queue>>

(* The pool is left when every filing has its result.                        *)
Finish ==
    /\ run.pc = "pool" /\ queue = {}
    /\ \A t \in Threads : Works(t, "rest")
    /\ run' = Ended
    /\ UNCHANGED <<files, queue, thread, faults>>

----------------------------------------------------------------------------
(* A kill, by the time limit or otherwise; and the time.                     *)

Crash ==
    /\ run.pc # "idle" /\ Fault
    /\ run' = Ended /\ queue' = {}
    /\ thread' = [t \in Threads |-> Resting]
    /\ UNCHANGED files

Older(age, limit) == IF age < limit THEN age + 1 ELSE age

Tick ==
    /\ run.pc # "idle" => run.elapsed < RunLimit
    /\ run' = IF run.pc = "idle" THEN run
              ELSE [run EXCEPT !.elapsed = @ + 1, !.served = Older(@, MaxAge)]
    /\ pointer' = [k \in Keys |->
           IF pointer[k] = NoPointer THEN NoPointer
           ELSE [pointer[k] EXCEPT !.checked = Older(@, Ttl + 1),
                                   !.served = Older(@, MaxAge)]]
    /\ UNCHANGED <<responses, manifests, document, paper, queue, thread, faults>>

RunSteps == Cached \/ Fetch \/ Validate \/ WriteData \/ WriteManifest \/ WritePointer \/ Finish
ThreadSteps(t) == \/ Take(t) \/ Check(t) \/ FetchDocument(t) \/ ValidateDocument(t)
                  \/ WriteDocument(t) \/ WritePaper(t)

Next ==
    \/ Start \/ RunSteps \/ Fail \/ Crash \/ Tick
    \/ \E t \in Threads : ThreadSteps(t) \/ FailDocument(t)

Spec == Init /\ [][Next]_vars

(* Somebody starts the job again and again - it has one retry and no schedule, *)
(* and the refresh that calls it is deployed paused - and its threads run.     *)
FairSpec == /\ Spec /\ WF_vars(Start) /\ WF_vars(RunSteps)
            /\ \A t \in Threads : WF_vars(ThreadSteps(t))

----------------------------------------------------------------------------

(* Types; only a run in its pool has threads at work, on tasks it queued. *)
TypeOK ==
    /\ responses \subseteq Places /\ manifests \subseteq Places
    /\ pointer \in [Keys -> Pointers \cup {NoPointer}]
    /\ document \in [Accessions -> Documents \cup {None}]
    /\ paper \in [Accessions -> Documents \cup {None}]
    /\ run \in [pc : {"idle", "cached", "fetch", "validate", "data", "manifest", "pointer",
                      "pool"},
                n : Targets, kind : Kinds, snapshot : Snapshots \cup {None},
                served : 0..MaxAge, elapsed : 0..RunLimit]
    /\ run.pc \in {"validate", "data", "manifest", "pointer"} => run.snapshot \in Snapshots
    /\ queue \subseteq Tasks
    /\ thread \in [Threads -> [pc : {"rest", "check", "fetch", "validate", "data", "manifest"},
                               task : Tasks \cup {None}, document : Documents \cup {None}]]
    /\ \A t \in Threads : thread[t].pc # "rest" => run.pc = "pool" /\ thread[t].task \in Tasks
    /\ faults \in 0..MaxFaults

(* A manifest is never there without the data whose checksum it holds:        *)
(* whatever is downloaded twice, cut short or killed.                          *)
PairsMatch ==
    /\ manifests \subseteq responses
    /\ \A a \in Accessions : paper[a] # None => document[a] = paper[a]

(* A cache pointer names a whole pair, and as long as it is fresh the SEC gave *)
(* that answer no longer ago than the lifetime and the length of one run.      *)
CacheIsSound ==
    \A k \in Keys : pointer[k] # NoPointer =>
        /\ <<k, pointer[k].snapshot>> \in manifests
        /\ pointer[k].checked <= Ttl => pointer[k].served <= Ttl + RunLimit

(* A filing that is about to be downloaded or written has no document, and no  *)
(* other thread is about to write it.                                          *)
FilingHasOneWriter ==
    \A t \in Threads :
        /\ thread[t].pc \in {"fetch", "validate", "data"} => document[Accession(t)] = None
        /\ thread[t].pc = "manifest" => document[Accession(t)] = thread[t].document
        /\ \A u \in Threads \ {t} :
              thread[t].pc # "rest" /\ thread[u].pc # "rest" => Accession(t) # Accession(u)

(* "A filing accession is treated as immutable": no step changes a document    *)
(* or a manifest that has landed.                                              *)
LandedNeverChanges ==
    [][\A a \in Accessions : /\ document[a] # None => document'[a] = document[a]
                             /\ paper[a] # None => paper'[a] = paper[a]]_vars

(* As long as somebody runs the landing again, a filing that is selected of    *)
(* every submissions answer is landed by some run, unless a fault has left     *)
(* half a pair: its own, or that of a snapshot, which stops every run that is  *)
(* given the same snapshot again.                                              *)
Stuck(a) == responses # manifests \/ document[a] # paper[a]
FilingsLandUnlessTorn ==
    \A n \in Targets, f \in Filings :
        (\A s \in Snapshots : f \in Selected(s)) =>
            LET a == <<Target[n], f>>
            IN  <>[](paper[a] # None) \/ <>[]Stuck(a)
=============================================================================
