---------------------------- MODULE ServedCopies ----------------------------
(***************************************************************************)
(* What the publication of the serving tables promises to those who read   *)
(* them: a table is replaced as a whole and never by older data, several   *)
(* tables may be replaced together, and each answer is the whole of what   *)
(* was published at one moment.  Two answers of one call may come from two *)
(* publications, the later answer from the later one.                      *)
(***************************************************************************)
EXTENDS Integers

CONSTANTS
    Tables,
    Readers,
    NoAnswer   \* what a reader has before its first answer

VARIABLES
    copy,      \* copy[d]: the version of the data that is published
    seen       \* seen[r][d]: the last answer a reader's call had from table d

vars == <<copy, seen>>

Nothing == [d \in Tables |-> NoAnswer]

Init ==
    /\ copy = [d \in Tables |-> 0]
    /\ seen = [r \in Readers |-> Nothing]

Publish ==
    /\ copy' \in [Tables -> Nat]
    /\ \A d \in Tables : copy'[d] >= copy[d]
    /\ UNCHANGED seen

Ask(r) ==
    /\ seen' = [seen EXCEPT ![r] = Nothing]
    /\ UNCHANGED copy

Answer(r, d) ==
    /\ seen' = [seen EXCEPT ![r][d] = copy[d]]
    /\ UNCHANGED copy

Next == Publish \/ \E r \in Readers : Ask(r) \/ \E d \in Tables : Answer(r, d)

Spec == Init /\ [][Next]_vars
=============================================================================
