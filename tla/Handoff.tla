------------------------------ MODULE Handoff ------------------------------
(***************************************************************************)
(* What workers/queue/dlq.py promises of the ingest stage, without its     *)
(* mechanism: an accepted message is open until it has been handed to the  *)
(* agent stage or set aside in the dead letter stream, and is closed only  *)
(* then.  The stage is at-least-once: a message may be handed over again,  *)
(* or reopened by a late retry, but it is never dropped.                   *)
(***************************************************************************)
VARIABLES accepted,   \* messages ever published
          open,       \* messages some consumer still owes work on
          delivered,  \* messages handed to the agent stage at least once
          dead        \* messages set aside in the dead letter stream

handoffVars == <<accepted, open, delivered, dead>>

HandoffInit == accepted = {} /\ open = {} /\ delivered = {} /\ dead = {}

Accept(p) == /\ p \notin accepted
             /\ accepted' = accepted \cup {p}
             /\ open' = open \cup {p}
             /\ UNCHANGED <<delivered, dead>>

Reopen(p) == /\ open' = open \cup {p}
             /\ UNCHANGED <<accepted, delivered, dead>>

Deliver(p) == /\ delivered' = delivered \cup {p}
              /\ UNCHANGED <<accepted, open, dead>>

SetAside(p) == /\ dead' = dead \cup {p}
               /\ UNCHANGED <<accepted, open, delivered>>

Close(p) == /\ p \in delivered \cup dead
            /\ open' = open \ {p}
            /\ UNCHANGED <<accepted, delivered, dead>>

HandoffNext ==
    \/ \E p \in accepted' : Accept(p)
    \/ \E p \in accepted : Reopen(p) \/ Deliver(p) \/ SetAside(p) \/ Close(p)

HandoffSafety == HandoffInit /\ [][HandoffNext]_handoffVars

(* No accepted message is lost. *)
NothingLost == accepted \subseteq open \cup delivered \cup dead

(* Every one of these messages, once accepted, is handed over or set aside.*)
HandoffLiveness(messages) ==
    \A p \in messages : p \in accepted ~> p \in delivered \cup dead

=============================================================================
