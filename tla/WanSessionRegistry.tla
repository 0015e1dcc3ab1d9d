------------------------- MODULE WanSessionRegistry -------------------------
(* What the coordinator's registry promises its callers, without locks,      *)
(* tasks or events: an id is taken once, ends once, is torn down before it   *)
(* is counted out, and is remembered until MaxTerminal later ones have been  *)
(* torn down (apps/mrd-service/src/wan_session/coordinator.rs, begin and     *)
(* the end of run_cleanup).                                                  *)
EXTENDS Naturals, Sequences, FiniteSets

CONSTANTS Ids,          \* session ids
          MaxSessions,  \* config.max_sessions
          MaxTerminal   \* config.max_terminal_sessions

VARIABLES slots,  \* what the registry knows of each id
          order   \* the retained ids, oldest first

vars == <<slots, order>>

Statuses == {"vacant", "active", "ending", "retained"}

Init ==
    /\ slots = [i \in Ids |-> "vacant"]
    /\ order = <<>>

Admit(i) ==
    /\ slots[i] = "vacant"
    /\ Cardinality({j \in Ids : slots[j] \in {"active", "ending"}}) < MaxSessions
    /\ slots' = [slots EXCEPT ![i] = "active"]
    /\ UNCHANGED order

End(i) ==
    /\ slots[i] = "active"
    /\ slots' = [slots EXCEPT ![i] = "ending"]
    /\ UNCHANGED order

(* Only the oldest retained id makes room, and only when there is no other. *)
Retire(i) ==
    /\ slots[i] = "ending"
    /\ IF Len(order) < MaxTerminal
       THEN /\ slots' = [slots EXCEPT ![i] = "retained"]
            /\ order' = Append(order, i)
       ELSE /\ slots' = [slots EXCEPT ![i] = "retained", ![Head(order)] = "vacant"]
            /\ order' = Append(Tail(order), i)

Next == \E i \in Ids : Admit(i) \/ End(i) \/ Retire(i)

Spec == Init /\ [][Next]_vars
=============================================================================
