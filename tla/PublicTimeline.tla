--------------------------- MODULE PublicTimeline ---------------------------
(***************************************************************************)
(* What the event timeline promises its readers (list_events,              *)
(* get_public_event): a cluster belongs to one event for good, an event is *)
(* shown once a cluster is mapped to it, with at least the update that     *)
(* says what it is about, and its updates only grow in number.             *)
(***************************************************************************)
EXTENDS Naturals

CONSTANTS ClusterIds, EventIds, NoEvent

VARIABLES
    belongs, \* the event of each cluster
    told     \* the updates of each event that is shown, 0 of any other

TimelineInit ==
    /\ belongs = [k \in ClusterIds |-> NoEvent]
    /\ told = [e \in EventIds |-> 0]

Shown(e) == \E k \in ClusterIds : belongs[k] = e

Publish(k, e) ==
    /\ belongs[k] = NoEvent /\ ~Shown(e)
    /\ belongs' = [belongs EXCEPT ![k] = e]
    /\ told' = [told EXCEPT ![e] = 1]

Attach(k, e) ==
    /\ belongs[k] = NoEvent /\ Shown(e)
    /\ belongs' = [belongs EXCEPT ![k] = e]
    /\ UNCHANGED told

Tell(e) ==
    /\ Shown(e)
    /\ told' = [told EXCEPT ![e] = @ + 1]
    /\ UNCHANGED belongs

TimelineNext ==
    \E e \in EventIds : Tell(e) \/ \E k \in ClusterIds : Publish(k, e) \/ Attach(k, e)

TimelineSpec == TimelineInit /\ [][TimelineNext]_<<belongs, told>>
=============================================================================
