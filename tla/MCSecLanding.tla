---------------------------- MODULE MCSecLanding ----------------------------
(* Values of SecLanding's constants for TLC. *)
EXTENDS SecLanding

CONSTANTS aapl, s1, s2, f1, f2, old, letter

OneCompany == <<aapl>>
\* A letter is of no selected form, and the old filing lies behind the limit of two.
MCRecent == [s \in Snapshots |-> IF s = s1 THEN <<f1>> ELSE <<letter, f2, f1, old>>]
=============================================================================
