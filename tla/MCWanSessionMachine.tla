------------------------- MODULE MCWanSessionMachine -------------------------
(* A small instance of WanSessionMachine: two of everything that is compared *)
(* so that every mismatch can occur, and grants that expire before, at and   *)
(* after the session deadline.                                               *)
EXTENDS WanSessionMachine

CONSTANTS r1, r2, i1, i2, n1, n2, k1, k2

MCRequests == {r1, r2}
MCIntents  == {i1, i2}
MCKeys     == {k1, k2}
MCAccesses == [revision: {1, 2}, node: {n1}] \cup {[revision |-> 1, node |-> n2]}
MCGrants   ==
    LET G(r, e, p, v, t) == [request |-> r, expires |-> e, policyExpires |-> p,
                             revision |-> v, route |-> t]
    IN  {G(r1, 2, 2, 1, "RelayOnly"), G(r1, 1, 2, 2, "DirectFirst"),
         G(r1, 3, 3, 1, "RelayOnly"), G(r2, 2, 3, 1, "DirectFirst")}
=============================================================================
