----------------------------- MODULE HeldInputs -----------------------------
(***************************************************************************)
(* What the remote-input layers of the service and of the desktop agent    *)
(* promise together: several owners (sessions, or input resources) hold    *)
(* keys and buttons of one physical desktop, and the desktop has a key     *)
(* down exactly while somebody holds it.  An owner that lets go never      *)
(* lifts a key another owner still holds, and a release that fails half    *)
(* way leaves the rest of the owner's inputs both down and still its own,  *)
(* so that a later release can find them.                                  *)
(***************************************************************************)
CONSTANTS Owners, Inputs

VARIABLES held,  \* held[o]: the inputs owner o holds
          down   \* the inputs that are physically down

Init == /\ held = [o \in Owners |-> {}]
        /\ down = {}

Press(o, i) == /\ held' = [held EXCEPT ![o] = @ \cup {i}]
               /\ down' = down \cup {i}

\* Owner o lets go of any part R of what it holds.
Release(o, R) == /\ R \subseteq held[o]
                 /\ held' = [held EXCEPT ![o] = @ \ R]
                 /\ down' = {i \in down : \E p \in Owners : i \in held'[p]}

Next == \E o \in Owners : \/ \E i \in Inputs : Press(o, i)
                          \/ \E R \in SUBSET held[o] : Release(o, R)

Spec == Init /\ [][Next]_<<held, down>>
=============================================================================
