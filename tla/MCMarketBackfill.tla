-------------------------- MODULE MCMarketBackfill --------------------------
(* Values of MarketBackfill's constants for TLC: one response with rows and *)
(* one holiday response without, dates 1 and 2 in one window.               *)
EXTENDS MarketBackfill, TLC

CONSTANTS bars, holiday

MCPayloads == {bars, holiday}
MCRows == [p \in MCPayloads |-> IF p = bars THEN 2 ELSE 0]
BothDates == {<<1, 2>>}
SlidingWindow == {<<1, 2>>, <<2, 2>>}
AnyFetchError == {"OSError", "HTTPPermanent", "ResponseError"}
NoFetchError == {}
RunnerSymmetry == Permutations(Runners)
=============================================================================
