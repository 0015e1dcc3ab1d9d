--------------------------- MODULE MCLanAdmission ---------------------------
EXTENDS LanAdmission, TLC

CONSTANTS k1, k2, s1, s2, h1, h2, view

Attended == [role |-> "Agent", device |-> k1, key |-> k1, mode |-> "Attended",
             requested |-> {view}, ceiling |-> {view}, wan |-> FALSE, expires |-> 1]
Unattended == [Attended EXCEPT !.mode = "Unattended", !.device = k2, !.key = k2]

MCRequests == {Attended, Unattended}
NoFailures == {}

\* An attended and an unattended request, of two devices that name the same
\* session.
OneSession == [h \in Handlers |-> s1]
TwoPeers == (h1 :> Attended) @@ (h2 :> Unattended)
=============================================================================
