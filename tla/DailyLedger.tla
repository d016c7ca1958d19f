----------------------------- MODULE DailyLedger -----------------------------
(***************************************************************************)
(* What the market landing promises for each trading date, whatever runs,  *)
(* crashes or retries: a date advances through four stages and never goes  *)
(* back, and the response body it lands with is chosen once.               *)
(***************************************************************************)
CONSTANTS Dates, Bodies, None

VARIABLES body,   \* the response landed for each date, None before
          stage   \* how far each date has come

vars == <<body, stage>>

Stages == {"missing", "landed", "paired", "settled"}

Init ==
    /\ body = [d \in Dates |-> None]
    /\ stage = [d \in Dates |-> "missing"]

Advance(d, from, to) ==
    /\ stage[d] = from
    /\ stage' = [stage EXCEPT ![d] = to]

(* The response becomes visible. *)
Land(d) ==
    /\ Advance(d, "missing", "landed")
    /\ \E b \in Bodies : body' = [body EXCEPT ![d] = b]

(* The manifest that describes this very response becomes visible. *)
Pair(d) == Advance(d, "landed", "paired") /\ UNCHANGED body

(* The checkpoint reports the date done. *)
Settle(d) == Advance(d, "paired", "settled") /\ UNCHANGED body

Next == \E d \in Dates : Land(d) \/ Pair(d) \/ Settle(d)

Spec == Init /\ [][Next]_vars
=============================================================================
