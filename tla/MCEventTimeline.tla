--------------------------- MODULE MCEventTimeline ---------------------------
(***************************************************************************)
(* Batches of records and the clusters they make.  The first two share the *)
(* anchor of "story"; the first holds "echo", by which the third and the   *)
(* fourth are promoted; the second and the third claim their fingerprints  *)
(* in opposite orders; the fourth has no publishable source.               *)
(***************************************************************************)
EXTENDS EventTimeline

CONSTANTS headline, variant, slogan, day

MCAlike == {{headline, variant}, {headline, slogan}}
MCGeneric == {slogan}
MCKeyOrder ==
    [i \in 1..7 |-> <<"canon", <<"filing", "story", "echo", "analysis", "thread", "talk", "mirror">>[i]>>]
    \o <<<<"signal", "bank", "rate", day>>, <<"signal", "bureau", "rate", day>>,
         <<"signal", "desk", "rate", day>>>>

Page(kind, page, id, label) ==
    [source |-> "feed", kind |-> kind, canonical |-> page, url |-> page, official |-> id,
     signal |-> None, title |-> label, day |-> day]

Figure(source, label) ==
    [source |-> source, kind |-> "structured_signal", canonical |-> None, url |-> None,
     official |-> None, signal |-> "rate", title |-> label, day |-> day]

filing == Page("official_record", "filing", "F1", variant)
story == Page("article_candidate", "story", "F1", headline)
echo == Page("article_candidate", "echo", None, headline)
analysis == Page("article_candidate", "analysis", None, variant)
shared == Page("community_signal", "echo", "P9", headline)
thread == Page("community_signal", "thread", "P9", headline)
talk == Page("community_signal", "talk", None, slogan)
mirror == Page("article_candidate", "mirror", None, headline)

Batches ==
    {<<story, [story EXCEPT !.source = "wire"], echo>>, <<story, filing>>,
     <<echo, analysis>>, <<shared, thread>>}

(* A definition of its own, which TLC evaluates once. *)
Candidates == UNION {CandidatesOf(b) : b \in Batches}
MCClusters == Candidates

(* Batches that no worker takes: two strong components with a likeness      *)
(* between them, one of which can be published; a weak neighbour with the   *)
(* least key; a mixed cluster of three kinds, none joined strongly.         *)
MoreBatches ==
    {<<thread, [thread EXCEPT !.source = "wire"], mirror, [mirror EXCEPT !.source = "wire"]>>,
     <<talk, mirror, [mirror EXCEPT !.source = "wire"], analysis>>,
     <<echo, filing, talk>>}

Reorderings(b) == {[i \in DOMAIN b |-> b[p[i]]] : p \in Permutations(DOMAIN b)}

(* What a batch makes of its records does not depend on their order         *)
(* (cluster_records, ADR#37): not the clusters, their cores, their faces    *)
(* or what they claim.                                                      *)
ASSUME OrderDoesNotMatter ==
    \A b \in Batches \cup MoreBatches : \A r \in Reorderings(b) : CandidatesOf(r) = CandidatesOf(b)

(* It does when two components are alike in size, kind and least key: two   *)
(* figures of one source and time with different labels have one key.       *)
Tied == <<Figure("bank", headline), Figure("bureau", headline),
          Figure("bank", slogan), Figure("desk", slogan)>>
ASSUME OrderMattersForTies == \E r \in Reorderings(Tied) : CandidatesOf(r) # CandidatesOf(Tied)

=============================================================================
