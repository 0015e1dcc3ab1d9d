------------------------- MODULE MCSessionEventFeed -------------------------
(* A registry of small limits with attended, unattended and outgoing         *)
(* sessions, leases on what is granted, and one user interface.              *)
EXTENDS SessionEventFeed, TLC

CONSTANTS k1, s1, view, input

Attended == [role |-> "Agent", device |-> k1, key |-> k1, mode |-> "Attended",
             requested |-> Scopes, ceiling |-> {view}, wan |-> TRUE, expires |-> 2]

Unattended == [Attended EXCEPT !.mode = "Unattended", !.wan = FALSE]

Outgoing == [Attended EXCEPT !.role = "Controller", !.key = None]

TheRequests == {Attended, Unattended, Outgoing}
OneFailure == {<<"Revoked", "RouteLost">>}
=============================================================================
