------------------------- MODULE ActivityReference -------------------------
(***************************************************************************)
(* shared/activity_analytics.py, the reference the tests compute with: the *)
(* same rows and metrics, written as a loop over the changes as they come. *)
(***************************************************************************)
EXTENDS ActivityMetrics

(* normalize_change_events takes a list of any order: every listing of the    *)
(* copies that the append flows have taken.                                   *)
Arrivals ==
    {copies \in [1 .. Cardinality(Bronze) -> Bronze] :
       \A p \in Bronze : \E i \in DOMAIN copies : copies[i] = p}

(* The loop of silver_agent_activity: of each change the copy kept so far.    *)
Keep(kept, p) ==
    LET prior == {q \in kept : ChangeId(q) = ChangeId(p)}
    IN  IF Row(p).type \in Effective /\ \A q \in prior : Copy(p).synced > Copy(q).synced
        THEN (kept \ prior) \cup {p}
        ELSE kept
Loop(copies) ==
    LET kept[n \in 0 .. Len(copies)] == IF n = 0 THEN {} ELSE Keep(kept[n - 1], copies[n])
    IN  kept
Kept(copies) == Loop(copies)[Len(copies)]

ReferenceDaily(rows) ==
    [d \in Days |-> LET calls == Invocations(rows, d)
                    IN  [researchers |-> Researchers(calls), invocations |-> Cardinality(calls)]]

(* build_gold_metrics: the same groups, but for the invocations of a day.    *)
ReferenceMetrics(rows) == [Metrics(rows) EXCEPT !.daily = ReferenceDaily(rows)]

(* What the tests know of the reference holds of the pipelines: with every   *)
(* delivery they publish what the reference computes, in whatever order it   *)
(* is given the changes.  The invocations of callers who were not identified *)
(* are the one difference: the reference counts them among a day's           *)
(* agent_invocations.                                                        *)
PipelineMatchesReference ==
    update.pc = "gold" => \A copies \in Arrivals :
       LET reference == ReferenceMetrics(Kept(copies))
       IN  \A f \in Families \ update.todo :
              IF f = "daily"
              THEN \A d \in Days :
                     /\ gold.daily[d].researchers = reference.daily[d].researchers
                     /\ gold.daily[d].invocations <= reference.daily[d].invocations
              ELSE gold[f] = reference[f]
=============================================================================
