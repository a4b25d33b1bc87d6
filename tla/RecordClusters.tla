--------------------------- MODULE RecordClusters ---------------------------
(***************************************************************************)
(* Which records of a batch are one event, and what the timeline is told   *)
(* of them: cluster_records joins records by strong keys and by weak       *)
(* likeness, and candidate_from_cluster takes from a cluster its core, its *)
(* face, its anchors and its fingerprints.                                 *)
(*                                                                         *)
(* A batch is a sequence of records                                        *)
(*   [source, kind, canonical, url, official, signal, title, day],         *)
(* the last six None where the record has none; official is the id found   *)
(* in the url.  A title stands for its normal form, which also is its set  *)
(* of tokens; a day for the whole of published_at_or_observed_at.          *)
(***************************************************************************)
EXTENDS Naturals, Sequences, FiniteSets, SequencesExt

CONSTANTS
    None,
    Alike,      \* pairs of titles that differ and have a Jaccard index of 0.8 or more
    Generic,    \* titles of fewer than four tokens
    KeyOrder    \* the keys, each once, in the order of their strings

ASSUME KeyOrderAssumption == KeyOrder \in Seq(Range(KeyOrder)) /\ IsInjective(KeyOrder)

SourceTypeOf ==
    [article_candidate |-> "article", official_record |-> "official", structured_signal |-> "signal",
     search_result |-> "search", community_signal |-> "community", catalog_metadata |-> "catalog"]

PublishableTypes == {"official", "article"}

TypeOf(r) == IF r.kind \in DOMAIN SourceTypeOf THEN SourceTypeOf[r.kind] ELSE "rss"

Authority ==
    [official |-> 5, article |-> 4, signal |-> 3, search |-> 2, community |-> 1, catalog |-> 0, rss |-> 0]

KeyOf(r) ==
    CASE r.canonical # None -> <<"canon", r.canonical>>
      [] r.kind = "official_record" /\ r.official # None -> <<"officialid", r.source, r.official>>
      [] r.kind = "structured_signal" -> <<"signal", r.source, r.signal, r.day>>
      [] r.url # None /\ r.kind = "search_result" -> <<"search", r.source, r.title, r.url>>
      [] r.url # None -> <<"url", r.url>>
      [] r.title = None /\ r.day = None -> None
      [] OTHER -> <<"meta", r.source, r.title, r.day>>

Rank(k) == CHOOSE n \in DOMAIN KeyOrder : KeyOrder[n] = k

InOrder(keys) == SelectSeq(KeyOrder, LAMBDA k : k \in keys)

KeysOf(b, members) == {KeyOf(b[i]) : i \in members}

-----------------------------------------------------------------------------
(* The records that are joined.                                             *)

(* A strong key is a canonical url, an official id or the same figure of    *)
(* the same day.                                                            *)
StrongKeys(r) ==
    ({<<"canonical", r.canonical>>, <<"official", r.official>>}
        \ {<<"canonical", None>>, <<"official", None>>})
    \cup (IF r.kind = "structured_signal" THEN {<<"figure", r.signal, r.day, r.title>>} ELSE {})

Strong(r, q) == StrongKeys(r) \cap StrongKeys(q) # {}

Similar(t, u) == t = u \/ {t, u} \in Alike

Weak(r, q) == r.day # None /\ r.day = q.day /\ r.title # None /\ q.title # None /\ Similar(r.title, q.title)

StrongPairs(b, S) == {p \in S \X S : Strong(b[p[1]], b[p[2]])}

WeakPairs(b, S) == {p \in S \X S : Weak(b[p[1]], b[p[2]])}

(* The union-find: the least sets that no pair leads out of. *)
Components(S, pairs) ==
    LET closed == {c \in SUBSET S : c # {} /\ \A p \in pairs : p[1] \in c => p[2] \in c}
    IN  {c \in closed : \A d \in closed : d \subseteq c => d = c}

(* cluster_records: a record that is joined to no other is left out.        *)
Groups(b) ==
    LET S == DOMAIN b
    IN  {g \in Components(S, StrongPairs(b, S) \cup WeakPairs(b, S)) : Cardinality(g) > 1}

IsStrong(b, g) == \E i, j \in g : i # j /\ Strong(b[i], b[j])

HasPublishable(b, c) == \E i \in c : b[i].kind \in {"official_record", "article_candidate"}

(* The order of the members sorted by key, a stable sort. *)
Before(b, i, j) ==
    LET m == Rank(KeyOf(b[i]))
        n == Rank(KeyOf(b[j]))
    IN  m < n \/ (m = n /\ i < j)

First(b, members) == CHOOSE i \in members : \A j \in members \ {i} : Before(b, i, j)

Precedes(b, c, d) ==
    \/ Cardinality(c) > Cardinality(d)
    \/ /\ Cardinality(c) = Cardinality(d)
       /\ \/ HasPublishable(b, c) /\ ~HasPublishable(b, d)
          \/ /\ HasPublishable(b, c) = HasPublishable(b, d)
             /\ First(b, c \cup d) \in c

(* The core is one component of the strong keys alone, by size, then by     *)
(* whether it can be published, then by its least key.                      *)
Core(b, g) ==
    LET parts == Components(g, StrongPairs(b, g))
    IN  CHOOSE c \in parts : \A d \in parts \ {c} : Precedes(b, c, d)

WeakOnly(b, g) == KeysOf(b, g \ Core(b, g))

-----------------------------------------------------------------------------
(* What the timeline is told (candidate_from_cluster).                      *)

(* build_record_index: the first record with the key. *)
RecordOf(b, k) == b[CHOOSE i \in DOMAIN b : /\ KeyOf(b[i]) = k
                                            /\ \A j \in 1..(i - 1) : KeyOf(b[j]) # k]

CoreKeys(b, g) ==
    LET keys == KeysOf(b, g)
        core == keys \ WeakOnly(b, g)
    IN  IF IsStrong(b, g) /\ core # {} THEN core ELSE keys

(* The best source among the core, the least key of equals. *)
Primary(record, keys) ==
    LET rank(k) == Authority[TypeOf(record[k])]
    IN  CHOOSE k \in keys : \A l \in keys \ {k} :
            rank(k) > rank(l) \/ (rank(k) = rank(l) /\ Rank(k) < Rank(l))

CanAnchor(r) == TypeOf(r) \in PublishableTypes /\ (r.canonical # None \/ r.official # None)

CanFingerprint(r) ==
    TypeOf(r) \in PublishableTypes /\ r.title # None /\ r.title \notin Generic /\ r.day # None

Fingerprint(r) == <<r.title, r.day>>

(* dict.fromkeys *)
Distinct(s) == FoldLeft(LAMBDA seen, x : IF Contains(seen, x) THEN seen ELSE Append(seen, x), <<>>, s)

CandidateFrom(keys, record, core, weak, strong) ==
    LET primary == Primary(record, core)
        face == record[primary]
        marked == InOrder({k \in core : CanFingerprint(record[k])})
    IN  [id |-> InOrder(keys)[1], keys |-> keys, weak |-> weak, strong |-> strong,
         primary |-> primary,
         sources |-> {TypeOf(record[k]) : k \in core},
         anchors |-> InOrder({k \in core : CanAnchor(record[k])}),
         prints |-> Distinct([i \in DOMAIN marked |-> Fingerprint(record[marked[i]])]),
         title |-> IF face.title # None THEN face.title ELSE <<"event", InOrder(keys)[1]>>]

Candidate(b, g) ==
    CandidateFrom(KeysOf(b, g), [k \in KeysOf(b, g) |-> RecordOf(b, k)], CoreKeys(b, g),
                  WeakOnly(b, g), IsStrong(b, g))

CandidatesOf(b) == {Candidate(b, g) : g \in Groups(b)}
=============================================================================
