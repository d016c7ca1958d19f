--------------------------- MODULE MarketBackfill ---------------------------
(***************************************************************************)
(* The checkpointed landing of Massive grouped-daily responses:            *)
(* ingestion/checkpoints.py (one claim per trading date, taken over when   *)
(* it is stale) and ingestion/market_backfill.py (the loop over the dates  *)
(* and the response/manifest pair it writes for each of them).             *)
(*                                                                         *)
(* A runner is one process executing run_backfill.  Runners share the      *)
(* checkpoint file, whose every update is atomic under flock, and the      *)
(* landing directories, which nothing locks.  Time is measured in ticks:   *)
(* a checkpoint carries the age of its last update and a runner the time   *)
(* since it started, so no clock value is ever stored.                     *)
(***************************************************************************)
EXTENDS Integers

CONSTANTS
    Runners,        \* processes that may execute the job at the same time
    NDates,         \* the trading dates are 1..NDates, oldest first
    Windows,        \* the date windows <<first, last>> a run may be given
    Payloads,       \* the response bodies the API may return
    Rows,           \* Rows[p]: number of results in the body p
    NoFile,         \* a file that does not exist
    StaleAfter,     \* age at which a claim may be taken over (two hours)
    TaskTimeout,    \* age at which the scheduler kills a run (one hour)
    StopAfterRows,  \* --stop-after-row-estimate, 0 for none
    RetryTerminal,  \* --retry-terminal
    FetchErrors,    \* the errors an API call may end with
    MaxFaults       \* bound: crashes, API, read and write errors together

Dates == 1..NDates

(* The exceptions the loop can see, by class: requests' timeouts and        *)
(* connection errors and plain OSErrors ("OSError"), HTTPError for 429/5xx  *)
(* ("HTTPTransient") and for other codes ("HTTPPermanent"), and the         *)
(* RuntimeErrors of this code base.                                         *)
OSErrors == {"OSError", "HTTPTransient", "HTTPPermanent"}
Errors   == OSErrors \cup {"ResponseError", "IntegrityError", "CheckpointError"}

ASSUME ConstantsAssumption ==
    /\ NDates \in Nat /\ StaleAfter \in Nat /\ TaskTimeout \in Nat
    /\ StopAfterRows \in Nat /\ MaxFaults \in Nat
    /\ Windows \subseteq {w \in Dates \X Dates : w[1] <= w[2]}
    /\ Rows \in [Payloads -> Nat]
    /\ NoFile \notin Payloads
    /\ RetryTerminal \in BOOLEAN
    /\ FetchErrors \subseteq {"OSError", "HTTPTransient", "HTTPPermanent", "ResponseError"}

VARIABLES
    checkpoint,  \* market_checkpoints.json: the entry of each date
    response,    \* response.json of each date
    manifest,    \* manifest.json of each date: the body whose digest it holds
    run,         \* the local state of each runner
    faults       \* the number of faults so far

vars == <<checkpoint, response, manifest, run, faults>>

File     == Payloads \cup {NoFile}
Settled  == {"completed", "no_data"}
Statuses == {"absent", "pending", "in_progress", "retryable_failure",
             "terminal_failure"} \cup Settled
Entry    == [status : Statuses, age : 0..StaleAfter, payload : File]
Run      == [pc : {"idle", "next", "check", "compare", "fetch", "response",
                   "manifest", "complete", "fail"},
             purpose : {"skip", "claim", "land"},
             date : 0..NDates + 1, last : 0..NDates,
             elapsed : 0..TaskTimeout, available : Nat,
             held : File, error : Errors]

Idle == [pc |-> "idle", purpose |-> "skip", date |-> 0, last |-> 0, elapsed |-> 0,
         available |-> 0, held |-> NoFile, error |-> "OSError"]

Init ==
    /\ checkpoint = [d \in Dates |-> [status |-> "absent", age |-> 0, payload |-> NoFile]]
    /\ response = [d \in Dates |-> NoFile]
    /\ manifest = [d \in Dates |-> NoFile]
    /\ run = [r \in Runners |-> Idle]
    /\ faults = 0

----------------------------------------------------------------------------
(* Steps of a runner that several actions end with.                         *)

At(r, label) == run[r].pc = label
Goto(r, label) == run' = [run EXCEPT ![r].pc = label]
Raise(r, e) == run' = [run EXCEPT ![r].pc = "fail", ![r].error = e]
Halt(r) == run' = [run EXCEPT ![r] = Idle]
NextDate(r) == run' = [run EXCEPT ![r].pc = "next", ![r].date = @ + 1,
                                  ![r].held = NoFile]

(* The rows of a landed date count towards the row target of the run.       *)
Tally(r, p) ==
    LET available == run[r].available + Rows[p]
    IN  IF StopAfterRows > 0 /\ available >= StopAfterRows
        THEN Halt(r)
        ELSE run' = [run EXCEPT ![r].pc = "next", ![r].date = @ + 1,
                                ![r].held = NoFile, ![r].available = available]

Fault == faults < MaxFaults /\ faults' = faults + 1

----------------------------------------------------------------------------
(* CheckpointStore: each operator below is one update under the file lock.  *)

Record(d, status, payload) ==
    checkpoint' = [checkpoint EXCEPT ![d] = [status |-> status, age |-> 0,
                                             payload |-> payload]]

EnsurePending(w) ==
    checkpoint' = [d \in Dates |->
        IF d \in w[1]..w[2] /\ checkpoint[d].status = "absent"
        THEN [status |-> "pending", age |-> 0, payload |-> NoFile]
        ELSE checkpoint[d]]

(* Three variants a change of claim could introduce: no wait for a live      *)
(* claim, no exception for settled dates, no takeover at all.                *)
ClaimableAtOnce(d) ==
    \/ checkpoint[d].status \in {"pending", "retryable_failure", "in_progress"}
    \/ checkpoint[d].status = "terminal_failure" /\ RetryTerminal
ClaimableAgain(d) == checkpoint[d].status # "in_progress" \/ checkpoint[d].age >= StaleAfter
ClaimableOnce(d) ==
    \/ checkpoint[d].status \in {"pending", "retryable_failure"}
    \/ checkpoint[d].status = "terminal_failure" /\ RetryTerminal

Claimable(d) ==
    \/ checkpoint[d].status \in {"pending", "retryable_failure"}
    \/ checkpoint[d].status = "terminal_failure" /\ RetryTerminal
    \/ checkpoint[d].status = "in_progress" /\ checkpoint[d].age >= StaleAfter

Claimed(d) == checkpoint[d].status = "in_progress"

(* requests.RequestException derives from OSError, so the first test of     *)
(* _is_retryable already holds for every HTTPError, whatever its code.      *)
IsRetryable(e) == e \in OSErrors

----------------------------------------------------------------------------
(* DailyLandingStore.read_manifest, in two steps: the existence checks with *)
(* the response bytes, then the manifest.  Files appear and are replaced    *)
(* but never disappear, so the existence checks can be taken with the read. *)

(* Both files are missing. *)
NoPair(r) ==
    CASE run[r].purpose = "skip"  -> NextDate(r)
      [] run[r].purpose = "claim" -> Goto(r, "fetch")
      [] run[r].purpose = "land"  -> Goto(r, "response")

(* LandingIntegrityError: inside the try it fails the date; in the branch   *)
(* of a skipped date nothing catches it and the whole run ends.             *)
Damaged(r) ==
    IF run[r].purpose = "skip" THEN Halt(r) ELSE Raise(r, "IntegrityError")

(* A valid manifest, of the body p. *)
Found(r, p) ==
    IF run[r].purpose = "skip"
    THEN Tally(r, p)
    ELSE run' = [run EXCEPT ![r].pc = "complete", ![r].held = p]

(* Two variants of the check of an incomplete pair: believe the response     *)
(* alone, or fetch the date again.                                           *)
CheckBelieving(r) ==
    LET d == run[r].date
    IN  IF response[d] = NoFile THEN NoPair(r) ELSE Found(r, response[d])

CheckRefetching(r) ==
    LET d == run[r].date
    IN  IF response[d] = NoFile \/ manifest[d] = NoFile
        THEN NoPair(r)
        ELSE run' = [run EXCEPT ![r].pc = "compare", ![r].held = response[d]]

CheckPair(r) ==
    LET d == run[r].date
    IN  CASE response[d] = NoFile /\ manifest[d] = NoFile -> NoPair(r)
          [] response[d] # NoFile /\ manifest[d] # NoFile ->
                 run' = [run EXCEPT ![r].pc = "compare", ![r].held = response[d]]
          [] OTHER -> Damaged(r)

ComparePair(r) ==
    LET d == run[r].date
    IN  IF manifest[d] = run[r].held THEN Found(r, manifest[d]) ELSE Damaged(r)

----------------------------------------------------------------------------
(* The actions of run_backfill.                                             *)

Start(r) ==
    /\ At(r, "idle")
    /\ \E w \in Windows :
          /\ EnsurePending(w)
          /\ run' = [run EXCEPT ![r] = [Idle EXCEPT !.pc = "next", !.date = w[1],
                                                    !.last = w[2]]]
    /\ UNCHANGED <<response, manifest, faults>>

Finish(r) ==
    /\ At(r, "next") /\ run[r].date > run[r].last
    /\ Halt(r)
    /\ UNCHANGED <<checkpoint, response, manifest, faults>>

Claim(r) ==
    /\ At(r, "next") /\ run[r].date <= run[r].last
    /\ Claimable(run[r].date)
    /\ Record(run[r].date, "in_progress", NoFile)
    /\ run' = [run EXCEPT ![r].pc = "check", ![r].purpose = "claim"]
    /\ UNCHANGED <<response, manifest, faults>>

Skip(r) ==
    /\ At(r, "next") /\ run[r].date <= run[r].last
    /\ ~Claimable(run[r].date)
    /\ run' = [run EXCEPT ![r].pc = "check", ![r].purpose = "skip"]
    /\ UNCHANGED <<checkpoint, response, manifest, faults>>

Check(r) ==
    /\ At(r, "check")
    /\ CheckPair(r)
    /\ UNCHANGED <<checkpoint, response, manifest, faults>>

Compare(r) ==
    /\ At(r, "compare")
    /\ ComparePair(r)
    /\ UNCHANGED <<checkpoint, response, manifest, faults>>

(* Both files exist but one cannot be read.                                  *)
ReadError(r) ==
    /\ At(r, "compare") /\ Fault
    /\ Damaged(r)
    /\ UNCHANGED <<checkpoint, response, manifest>>

(* get_daily_market_summary returned; land starts by reading the pair again. *)
Fetch(r) ==
    /\ At(r, "fetch")
    /\ \E p \in Payloads :
          run' = [run EXCEPT ![r].pc = "check", ![r].purpose = "land", ![r].held = p]
    /\ UNCHANGED <<checkpoint, response, manifest, faults>>

FetchError(r) ==
    /\ At(r, "fetch") /\ Fault
    /\ \E e \in FetchErrors : Raise(r, e)
    /\ UNCHANGED <<checkpoint, response, manifest>>

WriteResponse(r) ==
    /\ At(r, "response")
    /\ response' = [response EXCEPT ![run[r].date] = run[r].held]
    /\ Goto(r, "manifest")
    /\ UNCHANGED <<checkpoint, manifest, faults>>

WriteManifest(r) ==
    /\ At(r, "manifest")
    /\ manifest' = [manifest EXCEPT ![run[r].date] = run[r].held]
    /\ Goto(r, "complete")
    /\ UNCHANGED <<checkpoint, response, faults>>

(* An OSError of either atomic_write or of the checkpoint write in complete: *)
(* the target keeps its old contents.                                        *)
WriteError(r) ==
    /\ run[r].pc \in {"response", "manifest", "complete"} /\ Fault
    /\ Raise(r, "OSError")
    /\ UNCHANGED <<checkpoint, response, manifest>>

CompletedStatus(p) == IF Rows[p] = 0 THEN "no_data" ELSE "completed"

Complete(r) ==
    LET d == run[r].date
    IN  /\ At(r, "complete")
        /\ IF Claimed(d)
           THEN /\ Record(d, CompletedStatus(run[r].held), run[r].held)
                /\ Tally(r, run[r].held)
           ELSE UNCHANGED checkpoint /\ Raise(r, "CheckpointError")
        /\ UNCHANGED <<response, manifest, faults>>

(* When the claim is gone, fail raises inside the except block and the run   *)
(* ends.                                                                     *)
Fail(r) ==
    LET d == run[r].date
    IN  /\ At(r, "fail")
        /\ IF Claimed(d)
           THEN /\ Record(d, IF IsRetryable(run[r].error) THEN "retryable_failure"
                                                          ELSE "terminal_failure", NoFile)
                /\ NextDate(r)
           ELSE UNCHANGED checkpoint /\ Halt(r)
        /\ UNCHANGED <<response, manifest, faults>>

(* The process is killed, or an error outside the try ends it: whatever it   *)
(* has written stays, and the kernel releases its lock.                      *)
Crash(r) ==
    /\ ~At(r, "idle") /\ Fault
    /\ Halt(r)
    /\ UNCHANGED <<checkpoint, response, manifest>>

(* One unit of time.  No run outlives TaskTimeout: time stops for a run of   *)
(* that age until it ends, by itself or by Crash.                            *)
Older(age) == IF age < StaleAfter THEN age + 1 ELSE age

Tick ==
    /\ \A r \in Runners : ~At(r, "idle") => run[r].elapsed < TaskTimeout
    /\ checkpoint' = [d \in Dates |-> [checkpoint[d] EXCEPT !.age = Older(@)]]
    /\ run' = [r \in Runners |-> IF At(r, "idle") THEN run[r]
                                 ELSE [run[r] EXCEPT !.elapsed = @ + 1]]
    /\ UNCHANGED <<response, manifest, faults>>

Step(r) ==
    \/ Finish(r) \/ Claim(r) \/ Skip(r) \/ Check(r) \/ Compare(r) \/ Fetch(r)
    \/ WriteResponse(r) \/ WriteManifest(r) \/ Complete(r) \/ Fail(r)

Next ==
    \/ \E r \in Runners : \/ Start(r) \/ Step(r) \/ FetchError(r) \/ ReadError(r)
                         \/ WriteError(r) \/ Crash(r)
    \/ Tick

Spec == Init /\ [][Next]_vars

(* An operator runs the load again and again for the same dates, a running    *)
(* process keeps executing, and time passes.                                  *)
FairSpec ==
    /\ Spec
    /\ \A r \in Runners : WF_vars(Start(r)) /\ WF_vars(Step(r))
    /\ WF_vars(Tick)

----------------------------------------------------------------------------
TypeOK ==
    /\ checkpoint \in [Dates -> Entry]
    /\ response \in [Dates -> File]
    /\ manifest \in [Dates -> File]
    /\ run \in [Runners -> Run]
    /\ faults \in 0..MaxFaults

(* r is between its claim of a date and the complete or fail that ends it.   *)
Owns(r) == /\ run[r].pc \notin {"idle", "next"}
           /\ run[r].purpose # "skip"

(* A claim excludes: no two runners work on the same date between claim and  *)
(* complete/fail, and the checkpoint of a date being worked on stays         *)
(* in_progress, so neither complete nor fail finds its claim gone.           *)
ClaimIsExclusive ==
    \A r \in Runners : Owns(r) =>
        /\ Claimed(run[r].date)
        /\ \A s \in Runners : Owns(s) /\ run[s].date = run[r].date => s = r

(* A date reported completed or no_data has both files, they belong to the   *)
(* same response, the checkpoint carries that response's digest and row      *)
(* count, and no_data is said of empty responses only.                       *)
SettledHasValidPair ==
    \A d \in Dates : checkpoint[d].status \in Settled =>
        /\ manifest[d] # NoFile
        /\ response[d] = manifest[d]
        /\ checkpoint[d].payload = manifest[d]
        /\ (checkpoint[d].status = "no_data") <=> (Rows[manifest[d]] = 0)

(* The API is called only for a date of which nothing has landed: a rerun    *)
(* after any interruption spends no quota on a landed date.                  *)
NothingLandedAtFetch ==
    \A r \in Runners : At(r, "fetch") =>
        response[run[r].date] = NoFile /\ manifest[run[r].date] = NoFile

(* Landed files are immutable: once there, neither file of a pair changes.   *)
LandedFilesNeverChange ==
    [][\A d \in Dates : /\ response[d] # NoFile => response'[d] = response[d]
                        /\ manifest[d] # NoFile => manifest'[d] = manifest[d]]_vars

(* The ledger view of a date: how far its files and its checkpoint have come. *)
(* A manifest of another response, or a checkpoint settled without a pair, is *)
(* no stage of the ledger.                                                    *)
Paired(d) == manifest[d] # NoFile /\ manifest[d] = response[d]
IsSettled(d) == checkpoint[d].status \in Settled
Stage(d) ==
    CASE Paired(d) /\ IsSettled(d) -> "settled"
      [] Paired(d) /\ ~IsSettled(d) -> "paired"
      [] manifest[d] = NoFile /\ response[d] # NoFile /\ ~IsSettled(d) -> "landed"
      [] manifest[d] = NoFile /\ response[d] = NoFile /\ ~IsSettled(d) -> "missing"
      [] OTHER -> "contradictory"

Ledger == INSTANCE DailyLedger WITH Bodies <- Payloads, None <- NoFile,
                                    body <- response,
                                    stage <- [d \in Dates |-> Stage(d)]

(* The job implements the daily ledger: over all runs each date only moves    *)
(* forward, landing once and settling once, with one and the same response.   *)
ImplementsLedger == Ledger!Spec

(* The pair of d was cut in two: response.json without manifest.json.        *)
Torn(d) == response[d] # NoFile /\ manifest[d] = NoFile

(* The load run again and again with --start-date and --end-date as they were *)
(* and with --retry-terminal: with faults bounded, every date ends up settled *)
(* for good, except one whose pair a fault cut in two.  The deployed job does *)
(* not pass that flag, and a terminal failure stays as it is.                 *)
DatesSettleUnlessTorn ==
    \A d \in Dates : <>[](checkpoint[d].status \in Settled \/ Torn(d))

(* "Make the historical load resumable": after an interruption the later runs *)
(* settle every date.                                                         *)
InterruptedLoadResumes ==
    \A d \in Dates : <>(checkpoint[d].status \in Settled)
=============================================================================
