---------------------------- MODULE ActionLedger ----------------------------
(***************************************************************************)
(* What the confirmed write tools promise: a user's key is good for one    *)
(* write of each operation, and the watchlists are what those writes, one  *)
(* after the other, make of them.                                          *)
(***************************************************************************)
CONSTANTS Users, Ops, Keys, Bodies, None

VARIABLES done,   \* what each (user, operation, key) was used for, None before
          lists   \* the watchlist of each user

vars == <<done, lists>>

(* The list after the write b. *)
Change(b, list) ==
    CASE b.verb = "add"    -> list \cup {b.item}
      [] b.verb = "remove" -> list \ {b.item}
      [] OTHER             -> list

Init ==
    /\ done = [slot \in Users \X Ops \X Keys |-> None]
    /\ lists = [u \in Users |-> {}]

Apply(u, k, b) ==
    /\ done[<<u, b.op, k>>] = None
    /\ done' = [done EXCEPT ![<<u, b.op, k>>] = b]
    /\ lists' = [lists EXCEPT ![u] = Change(b, @)]

Next == \E u \in Users, k \in Keys, b \in Bodies : Apply(u, k, b)

Spec == Init /\ [][Next]_vars
=============================================================================
