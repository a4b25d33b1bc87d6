--------------------------- MODULE MCRawEventStore ---------------------------
(***************************************************************************)
(* RawEventStore with two requests at a time on one row, or one at a time  *)
(* on two rows: requests that interleave are after the same row, lists and *)
(* the session that one entry leaves broken take two rows.  Rows are alike *)
(* and so are tasks: r1 can be the first row, t1 the only task on both.    *)
(* The second row comes early, before the first has a long life.           *)
(***************************************************************************)
EXTENDS RawEventStore

CONSTANTS r1, r2, t1, t2

Uncrowded ==
    /\ r2 \in Stored' => TaskAt(t2, "free")'
    /\ r2 \in Stored' \ Stored => r1 \in Stored /\ Len(rawLog) <= 1

MCSpec == /\ RawEventStoreInit
          /\ [][RawEventStoreNext /\ Uncrowded]_rawEventStoreVars
          /\ StoreFairness
=============================================================================
