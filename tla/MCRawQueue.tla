---------------------------- MODULE MCRawQueue ----------------------------
(***************************************************************************)
(* RawQueue on small instances.  MessageIds bounds the roots the liveness  *)
(* of Handoff is asked of: the ids the published messages can have.        *)
(***************************************************************************)
EXTENDS RawQueue

CONSTANT MessageIds

(* Every published message is in the end handed to the agent stage or set  *)
(* aside in the dead letter stream.                                        *)
EventuallyHandedOff == Promise!HandoffLiveness(MessageIds)

=============================================================================
