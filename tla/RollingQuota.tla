---------------------------- MODULE RollingQuota ----------------------------
(***************************************************************************)
(* The quota of the Massive API: mcp_server/massive_client.py, whose two    *)
(* rolling limiters hand out slots and whose get_with_metadata takes one    *)
(* before each physical attempt of a call, retries included.               *)
(*                                                                         *)
(* Both limiters count the slots of the last Window under a lock and grant *)
(* one more or sleep; they differ in what is locked, when the slot is dated *)
(* and what a failure leaves behind.  Time is measured in ticks, and what   *)
(* has a date is kept by its age; an age of Window means outside the window *)
(* for good, or never.                                                      *)
(***************************************************************************)
EXTENDS Integers, FiniteSets

CONSTANTS
    Callers,     \* the jobs and server threads that call the API
    Slots,       \* identities of slots; one may be used again when its date,
                 \* and that of its request, have left the window
    Limit,       \* slots per window (four)
    Window,      \* length of the window (sixty seconds)
    MaxDelay,    \* longest time from a slot's date to its request's departure
    MaxRetries,  \* retries of a call
    Backends,    \* the backends that may be selected
    NoSlot,      \* the slot of a caller that holds none
    Nobody,      \* the holder of a free lock
    MaxFaults    \* bound: failures of the store and crashes together

ASSUME QuotaAssumption ==
    /\ Limit \in Nat \ {0} /\ Window \in Nat \ {0}
    /\ MaxDelay \in Nat /\ MaxRetries \in Nat /\ MaxFaults \in Nat
    /\ Backends \subseteq {"process", "lakebase"}
    /\ NoSlot \notin Slots /\ Nobody \notin Callers

VARIABLES
    backend,  \* the limiter all callers share: a state file or a table
    lock,     \* the caller that holds the file lock or the advisory lock
    granted,  \* the state file or table: age of each slot
    audited,  \* the slots of the append-only ledger (the table is its own)
    sent,     \* the API's view: age of the request sent on each slot
    call,     \* what each caller is doing
    faults    \* the number of faults so far

vars == <<backend, lock, granted, audited, sent, call, faults>>

Ages == 0..Window
Call == [pc : {"idle", "acquire", "count", "insert", "record", "audit", "sleep",
               "send", "reply", "backoff"},
         attempt : 0..MaxRetries + 1, slot : Slots \cup {NoSlot},
         age : Ages, wait : Ages]

Idle == [pc |-> "idle", attempt |-> 0, slot |-> NoSlot, age |-> 0, wait |-> 0]

Init ==
    /\ backend \in Backends
    /\ lock = Nobody
    /\ granted = [i \in Slots |-> Window]
    /\ audited = {}
    /\ sent = [i \in Slots |-> Window]
    /\ call = [c \in Callers |-> Idle]
    /\ faults = 0

At(c, label) == call[c].pc = label

(* The caller's slot has a date and its request is not yet on its way.       *)
Dated(c) == call[c].pc \in {"record", "audit", "send"}

Active == {i \in Slots : granted[i] < Window}
Fresh == {i \in Slots : granted[i] = Window /\ sent[i] = Window
                        /\ \A c \in Callers : Dated(c) => call[c].slot # i}

(* A new UUID: any of the identities that are not in use, they do not differ. *)
NewIdentity(i) == i = CHOOSE j \in Fresh : TRUE

Goto(c, label) == call' = [call EXCEPT ![c].pc = label]
End(c) == call' = [call EXCEPT ![c] = Idle]
Unlock(c) == lock' = IF lock = c THEN Nobody ELSE lock
Fault == faults < MaxFaults /\ faults' = faults + 1

----------------------------------------------------------------------------
(* acquire: one pass of its loop.                                            *)

(* A variant: callers do not wait for each other.                            *)
LockShared(c) ==
    /\ At(c, "acquire")
    /\ lock' = c
    /\ Goto(c, "count")
    /\ UNCHANGED <<backend, granted, audited, sent, faults>>

Lock(c) ==
    /\ At(c, "acquire") /\ lock = Nobody
    /\ lock' = c
    /\ Goto(c, "count")
    /\ UNCHANGED <<backend, granted, audited, sent, faults>>

(* The file's slot is dated when the clock is read, before the count; the    *)
(* table's when its row is inserted.                                         *)
Room(c) ==
    /\ Cardinality(Active) < Limit
    /\ call' = [call EXCEPT ![c].pc = IF backend = "process" THEN "record" ELSE "insert",
                            ![c].age = 0]
    /\ UNCHANGED lock

(* No room: sleep, without the lock, until the oldest slot leaves the window. *)
Full(c) ==
    /\ Cardinality(Active) >= Limit
    /\ \E i \in Active :
          /\ \A j \in Active : granted[j] <= granted[i]
          /\ call' = [call EXCEPT ![c].pc = "sleep", ![c].wait = Window - granted[i]]
    /\ Unlock(c)

(* Two variants: one slot too many, and a sleep that keeps the lock.         *)
CountOneMore(c) ==
    /\ At(c, "count")
    /\ IF Cardinality(Active) <= Limit
       THEN /\ call' = [call EXCEPT ![c].pc = IF backend = "process" THEN "record" ELSE "insert",
                                    ![c].age = 0]
            /\ UNCHANGED lock
       ELSE Full(c)
    /\ UNCHANGED <<backend, granted, audited, sent, faults>>

CountKeepingLock(c) ==
    /\ At(c, "count")
    /\ \/ Room(c)
       \/ Cardinality(Active) >= Limit /\ Goto(c, "sleep") /\ UNCHANGED lock
    /\ UNCHANGED <<backend, granted, audited, sent, faults>>

Count(c) ==
    /\ At(c, "count")
    /\ Room(c) \/ Full(c)
    /\ UNCHANGED <<backend, granted, audited, sent, faults>>

Insert(c) ==
    /\ At(c, "insert")
    /\ call' = [call EXCEPT ![c].pc = "record", ![c].age = 0]
    /\ UNCHANGED <<backend, lock, granted, audited, sent, faults>>

(* The slot becomes visible: os.replace of the state file, or the commit,     *)
(* which also ends the advisory lock.                                         *)
Grant(c, i) ==
    /\ granted' = [granted EXCEPT ![i] = call[c].age]
    /\ audited' = IF backend = "process" THEN audited \ {i} ELSE audited \cup {i}

Record(c) ==
    /\ At(c, "record")
    /\ \E i \in Fresh :
          /\ NewIdentity(i)
          /\ Grant(c, i)
          /\ call' = [call EXCEPT ![c].pc = IF backend = "process" THEN "audit" ELSE "send",
                                  ![c].slot = i]
    /\ IF backend = "process" THEN UNCHANGED lock ELSE Unlock(c)
    /\ UNCHANGED <<backend, sent, faults>>

Audit(c) ==
    /\ At(c, "audit")
    /\ audited' = audited \cup {call[c].slot}
    /\ Goto(c, "send")
    /\ Unlock(c)
    /\ UNCHANGED <<backend, granted, sent, faults>>

(* The store is corrupt or unavailable, or a write fails: acquire raises and  *)
(* the call ends without a request ("refusing API calls").                    *)
StoreFails(c) ==
    /\ call[c].pc \in {"acquire", "count", "insert", "record", "audit"} /\ Fault
    /\ End(c)
    /\ Unlock(c)
    /\ UNCHANGED <<backend, granted, audited, sent>>

(* The commit takes effect and its acknowledgement is lost.                   *)
CommitUnseen(c) ==
    /\ At(c, "record") /\ backend = "lakebase" /\ Fault
    /\ \E i \in Fresh : NewIdentity(i) /\ Grant(c, i)
    /\ End(c)
    /\ Unlock(c)
    /\ UNCHANGED <<backend, sent>>

Wake(c) ==
    /\ At(c, "sleep") /\ call[c].wait = 0
    /\ Goto(c, "acquire")
    /\ UNCHANGED <<backend, lock, granted, audited, sent, faults>>

----------------------------------------------------------------------------
(* get_with_metadata.                                                        *)

Begin(c) ==
    /\ At(c, "idle")
    /\ call' = [call EXCEPT ![c].pc = "acquire", ![c].attempt = 1]
    /\ UNCHANGED <<backend, lock, granted, audited, sent, faults>>

Send(c) ==
    /\ At(c, "send")
    /\ sent' = [sent EXCEPT ![call[c].slot] = 0]
    /\ Goto(c, "reply")
    /\ UNCHANGED <<backend, lock, granted, audited, faults>>

(* An answer that ends the call, or the last failure of it.                  *)
Return(c) ==
    /\ At(c, "reply")
    /\ End(c)
    /\ UNCHANGED <<backend, lock, granted, audited, sent, faults>>

(* A transient status, a timeout or a broken connection.  A variant: the next *)
(* attempt goes out on the same slot.                                         *)
RetryOnSameSlot(c) ==
    /\ At(c, "reply") /\ call[c].attempt <= MaxRetries
    /\ call' = [call EXCEPT ![c].pc = "send", ![c].attempt = @ + 1]
    /\ UNCHANGED <<backend, lock, granted, audited, sent, faults>>

Retry(c) ==
    /\ At(c, "reply") /\ call[c].attempt <= MaxRetries
    /\ call' = [call EXCEPT ![c].pc = "backoff", ![c].attempt = @ + 1, ![c].slot = NoSlot]
    /\ UNCHANGED <<backend, lock, granted, audited, sent, faults>>

(* The backoff or the server's Retry-After is over, after any time.          *)
Resume(c) ==
    /\ At(c, "backoff")
    /\ Goto(c, "acquire")
    /\ UNCHANGED <<backend, lock, granted, audited, sent, faults>>

(* The process ends; the kernel or the database frees its lock.              *)
Crash(c) ==
    /\ ~At(c, "idle") /\ Fault
    /\ End(c)
    /\ Unlock(c)
    /\ UNCHANGED <<backend, granted, audited, sent>>

(* One unit of time.  A dated slot is on its way for at most MaxDelay.        *)
Older(age) == IF age < Window THEN age + 1 ELSE age
Shorter(wait) == IF wait > 0 THEN wait - 1 ELSE wait

Tick ==
    /\ \A c \in Callers : Dated(c) => call[c].age < MaxDelay
    /\ granted' = [i \in Slots |-> Older(granted[i])]
    /\ sent' = [i \in Slots |-> Older(sent[i])]
    /\ call' = [c \in Callers |-> [call[c] EXCEPT
                   !.age = IF Dated(c) THEN Older(@) ELSE @,
                   !.wait = Shorter(@)]]
    /\ UNCHANGED <<backend, lock, audited, faults>>

Proceed(c) ==
    \/ Lock(c) \/ Count(c) \/ Insert(c) \/ Record(c) \/ Audit(c) \/ Wake(c)
    \/ Send(c) \/ Return(c) \/ Retry(c) \/ Resume(c)

Next ==
    \/ \E c \in Callers : \/ Begin(c) \/ Proceed(c) \/ StoreFails(c)
                          \/ CommitUnseen(c) \/ Crash(c)
    \/ Tick

Spec == Init /\ [][Next]_vars

(* Processes run, every backoff ends, and time passes.                       *)
FairSpec ==
    /\ Spec
    /\ \A c \in Callers : WF_vars(Proceed(c))
    /\ WF_vars(Tick)

----------------------------------------------------------------------------
TypeOK ==
    /\ backend \in Backends
    /\ lock \in Callers \cup {Nobody}
    /\ granted \in [Slots -> Ages]
    /\ audited \subseteq Slots
    /\ sent \in [Slots -> Ages]
    /\ call \in [Callers -> Call]
    /\ faults \in 0..MaxFaults

(* At any time the slots dated within the last Window are at most Limit: the  *)
(* callers, on however many hosts, share one allowance.                       *)
GrantsRespectLimit == Cardinality(Active) <= Limit

(* What this gives for the requests themselves: no more than Limit of them    *)
(* leave within a window that is shorter by the delay between a slot's date   *)
(* and its request.                                                           *)
SendsRespectShorterWindow ==
    Cardinality({i \in Slots : sent[i] < Window - MaxDelay}) <= Limit

(* Each physical attempt, a retry too, goes out on a slot of its own that the *)
(* append-only ledger holds before the request leaves.                        *)
EachAttemptHasItsSlot ==
    /\ \A c \in Callers : At(c, "send") =>
          /\ sent[call[c].slot] = Window
          /\ \A d \in Callers : Dated(d) /\ call[d].slot = call[c].slot => d = c
    /\ \A i \in Slots : sent[i] < Window => i \in audited

(* While callers wait, slots are handed out: nobody sleeps on the lock, and   *)
(* nobody sleeps past the end of the window.                                  *)
Waits(c) == call[c].pc \in {"acquire", "count", "insert", "record", "audit", "sleep"}
SlotsKeepFlowing ==
    (\E c \in Callers : Waits(c))
        ~> ((\A c \in Callers : ~Waits(c)) \/ \E c \in Callers : At(c, "send"))

(* "The client permits no more than four physical attempts in any rolling     *)
(* 60-second window, including retries."                                       *)
AttemptsRespectLimit == Cardinality({i \in Slots : sent[i] < Window}) <= Limit
=============================================================================
