------------------------------ MODULE SecClient ------------------------------
(***************************************************************************)
(* ingestion/sec_client.py: the threads of a landing run share one client, *)
(* whose limiter spaces their requests; a request that meets a timeout or  *)
(* a transient status is made again, some times.                           *)
(*                                                                         *)
(* A thread that finds no room sleeps and looks again: it stays at         *)
(* "acquire".  How long a backoff lasts is left open.  Ages count the time  *)
(* since a request was let pass, up to the window.                         *)
(***************************************************************************)
EXTENDS Integers, Sequences, FiniteSets

CONSTANTS
    SecThreads,
    SecLimit, SecWindow,   \* requests in each rolling window
    SecRetries,            \* max_retries
    MaxSecCalls            \* bound: calls of get_bytes

ASSUME SecClientAssumption ==
    /\ SecLimit \in Nat \ {0} /\ SecWindow \in Nat \ {0}
    /\ SecRetries \in Nat /\ MaxSecCalls \in Nat

VARIABLES
    released,   \* the limiter's deque: the age of each request it let pass
    grants,     \* history: the same of every request, which the deque forgets
    fetching,   \* what each thread is doing, and its attempt
    secCalls

secVars == <<released, grants, fetching, secCalls>>

NoFetch == [pc |-> "idle", attempt |-> 0]

SecInit ==
    /\ released = <<>> /\ grants = <<>>
    /\ fetching = [t \in SecThreads |-> NoFetch] /\ secCalls = 0

GetBytes(t) ==
    /\ fetching[t].pc = "idle" /\ secCalls < MaxSecCalls
    /\ fetching' = [fetching EXCEPT ![t] = [pc |-> "acquire", attempt |-> 1]]
    /\ secCalls' = secCalls + 1
    /\ UNCHANGED <<released, grants>>

(* acquire(), under its lock: as long as the first of the deque is a window    *)
(* old it leaves.  A variant drops the first one whatever its age.             *)
InWindow(age) == age < SecWindow
RecentButOldest(ages) == IF ages = <<>> THEN ages ELSE Tail(ages)
Expired(ages) ==
    CHOOSE n \in 0 .. Len(ages) :
       /\ \A i \in 1 .. n : ~InWindow(ages[i])
       /\ n < Len(ages) => InWindow(ages[n + 1])
Recent(ages) == SubSeq(ages, Expired(ages) + 1, Len(ages))

Acquire(t) ==
    /\ fetching[t].pc = "acquire"
    /\ IF Len(Recent(released)) < SecLimit
       THEN /\ released' = Append(Recent(released), 0)
            /\ grants' = Append(grants, 0)
            /\ fetching' = [fetching EXCEPT ![t].pc = "send"]
       ELSE released' = Recent(released) /\ UNCHANGED <<grants, fetching>>
    /\ UNCHANGED secCalls

(* The request that the limiter has let pass is made, and an answer or a       *)
(* status that raises at once ends the call.                                   *)
Receive(t) ==
    /\ fetching[t].pc = "send"
    /\ fetching' = [fetching EXCEPT ![t] = NoFetch]
    /\ UNCHANGED <<released, grants, secCalls>>

(* A timeout, a lost connection or a transient status: the last attempt        *)
(* raises, every other one waits and takes the next turn of the loop.          *)
Transient(t) ==
    /\ fetching[t].pc = "send"
    /\ fetching' = [fetching EXCEPT ![t] =
          IF fetching[t].attempt > SecRetries THEN NoFetch
          ELSE [pc |-> "backoff", attempt |-> fetching[t].attempt]]
    /\ UNCHANGED <<released, grants, secCalls>>

(* After max_retries + 1 turns the loop ends in an AssertionError.             *)
TurnAgain(t) ==
    /\ fetching[t].pc = "backoff"
    /\ fetching' = [fetching EXCEPT ![t] =
          IF fetching[t].attempt > SecRetries THEN [pc |-> "assertion", attempt |-> 0]
          ELSE [pc |-> "acquire", attempt |-> fetching[t].attempt + 1]]
    /\ UNCHANGED <<released, grants, secCalls>>

Older(ages) == [i \in DOMAIN ages |-> IF InWindow(ages[i]) THEN ages[i] + 1 ELSE ages[i]]
SecTick ==
    /\ \E i \in DOMAIN grants : InWindow(grants[i])
    /\ released' = Older(released) /\ grants' = Older(grants)
    /\ UNCHANGED <<fetching, secCalls>>

SecClientNext ==
    \/ \E t \in SecThreads : \/ GetBytes(t) \/ Acquire(t) \/ Receive(t)
                             \/ Transient(t) \/ TurnAgain(t)
    \/ SecTick

SecClientSpec == SecInit /\ [][SecClientNext]_secVars

----------------------------------------------------------------------------
(* The limiter lets the threads of a run together make no more than the limit  *)
(* of attempts in any window, retries included, and no call takes more turns   *)
(* than it is allowed ("retry loop exited unexpectedly", sec_client.py:160).   *)
(* An attempt counts when the limiter lets it pass; session.get follows at     *)
(* once but takes its time, and of those moments nothing is said here.         *)
SecRequestsBounded ==
    /\ Cardinality({i \in DOMAIN grants : InWindow(grants[i])}) <= SecLimit
    /\ \A t \in SecThreads : fetching[t].pc # "assertion"
=============================================================================
