---- MODULE MCAdjudication ----
(* Two links of one candidate to different events, of either age; an event  *)
(* is an article or a community post of day 1, and may get earlier ones;    *)
(* the third is an article, for the two links are alike.                    *)
EXTENDS Adjudication

CONSTANTS e1, e2, e3

TwoTargets == {[id |-> 1, from |-> e1, to |-> e2, title |-> "high"],
               [id |-> 2, from |-> e1, to |-> e3, title |-> "high"]}

OneDay == {[types |-> {type}, seen |-> 1] : type \in {"article", "community"}}

MCInit == Init /\ event[e3].types = {"article"}
MCSpec == MCInit /\ [][Next]_vars /\ Fairness
=============================================================================
