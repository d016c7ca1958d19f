------------------------- MODULE MCConfirmedWrites -------------------------
(* Values of ConfirmedWrites's constants for TLC: a note, and a ticker to  *)
(* add and to remove.                                                       *)
EXTENDS ConfirmedWrites, TLC

CONSTANTS ann, bob, tab1, tab2

Note(item) == [op |-> "save_research_note", verb |-> "create", item |-> item]
Watch(verb) == [op |-> "update_watchlist", verb |-> verb, item |-> "AAPL"]

MCBodies == {Note("thesis"), Watch("add"), Watch("remove")}
Notes == {Note("thesis")}
TwoUsers == tab1 :> ann @@ tab2 :> bob
TwoAndOne == tab1 :> 2 @@ tab2 :> 1
TwoSends == tab1 :> 2
OneTab == tab1 :> ann
MCSymmetry == Permutations(Workers) \cup Permutations(Keys)
=============================================================================
