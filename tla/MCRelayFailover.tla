-------------------------- MODULE MCRelayFailover --------------------------
(* Both ends of a session: the controller, whose monitor makes one recovery *)
(* call at a time, and the agent, whose responder may have two offers in    *)
(* hand and may drop either.                                                *)
EXTENDS RelayFailover

CONSTANTS m1, a1, a2, east, west, none
=============================================================================
