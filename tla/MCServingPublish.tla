-------------------------- MODULE MCServingPublish --------------------------
(* The call is a comparison of two stocks or a search.                       *)
EXTENDS ServingPublish

MCCalls == {<<"market", "market">>, <<"research">>}
MCLatest == [d \in {"market", "research"} |-> 1]
=============================================================================
