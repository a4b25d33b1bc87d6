-------------------------- MODULE MCCycleDelivery --------------------------
(* CycleDelivery with its constants for TLC.  r2 is a signal from the url of *)
(* r1 at another time: a key of its own, the hash of r1.  r3 has neither url *)
(* nor anything else to tell it by: no key, held.                            *)
EXTENDS CycleDelivery, TLC

CONSTANTS a, b, r1, r2, r3, k1, k2, h1

Offered == {r1, r2, r3}
TheKeys == {k1, k2}
TheHashes == {h1}
TheKeyOf == [r \in Offered |-> CASE r = r1 -> k1 [] r = r2 -> k2 [] r = r3 -> NoKey]
TheHashOf == [r \in Offered |-> IF r = r3 THEN NoUrl ELSE h1]

(* The runners are alike, and no property tells them apart. *)
RunnerSymmetry == Permutations(Runners)
=============================================================================
