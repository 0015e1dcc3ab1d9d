-------------------------- MODULE WanSessionMachine --------------------------
(* One WanSessionState driven by an arbitrary sequence of events: every      *)
(* event of every kind and payload, in any order, at any time, as the public *)
(* apply() accepts them. The order the workflows really produce is the       *)
(* subject of WanCoordinator; what is stated here holds of any caller.       *)
EXTENDS WanSessionState

CONSTANTS Deadlines,  \* the deadlines a session may be created with
          MaxTime     \* bound on the clock, beyond every deadline

ASSUME MachineAssumption ==
    /\ MaxTime \in Nat
    /\ Deadlines \subseteq 1 .. MaxTime

VARIABLES s,    \* the WanSessionState
          now   \* now_unix_ms

vars == <<s, now>>

Init ==
    /\ now = 0
    /\ \E role \in Roles, deadline \in Deadlines, key \in Keys :
         s = NewState(role, deadline, IF role = "Target" THEN key ELSE None)

(* WanSessionState::apply *)
ApplyEvent(kind, arg) ==
    /\ s' = Apply(s, Event(kind, arg), now)
    /\ UNCHANGED now

(* WanSessionState::bind_controller_target_key *)
BindTargetKey(key) ==
    /\ CanBindKey(s, key)
    /\ s' = BindKey(s, key)
    /\ UNCHANGED now

Tick ==
    /\ now < MaxTime
    /\ now' = now + 1
    /\ UNCHANGED s

Next ==
    \/ \E kind \in EventKinds : \E arg \in Payloads(kind) : ApplyEvent(kind, arg)
    \/ \E key \in Keys : BindTargetKey(key)
    \/ Tick

Spec == Init /\ [][Next]_vars
-----------------------------------------------------------------------------
(* Every payload, key and phase is of its kind, and time is within its bound. *)
TypeOK == IsState(s) /\ now \in 0 .. MaxTime

(* Skipped phases fail closed: whatever was bound, everything before it was  *)
(* bound too, and a live session has bound exactly what its phase stands for *)
(* (the next() chain of WanSessionPhase).                                    *)
PhaseChain ==
    \A k \in EventKinds \ TerminalPhases :
        /\ s.bound[k] # None =>
             \A j \in EventKinds : Rank[j] < Rank[k] => s.bound[j] # None
        /\ ~Terminal(s) => (s.bound[k] # None <=> Rank[k] <= Rank[s.phase])

(* What authorizes the media path hangs together end to end, also after the  *)
(* session has ended: the grant answers the bound request within its         *)
(* deadline, the relay access carries the grant's policy revision, and the   *)
(* proven route is on that access under the grant's route policy.            *)
AuthorityChain ==
    LET grant  == s.bound["Granted"]
        access == s.bound["AccessBound"]
        proof  == s.bound["RelayVerified"]
    IN  /\ grant # None =>
             /\ grant.request = s.bound["BackendBound"]
             /\ grant.expires <= s.deadline
             /\ grant.expires <= grant.policyExpires
        /\ access # None => access.revision = grant.revision
        /\ proof # None =>
             /\ proof.access = access
             /\ proof.route = grant.route
             /\ grant.route = "RelayOnly" => proof.relayed
        /\ s.bound["Streaming"] # None => proof # None

(* No later event rebinds what an earlier one bound: conflicting duplicates  *)
(* are refused, and the target key is set at most once (model.rs 161-176).   *)
BoundOnce ==
    [][/\ \A k \in EventKinds : s.bound[k] # None => s'.bound[k] = s.bound[k]
       /\ s.key # None => s'.key = s.key]_vars

(* A terminal session never changes again (the Terminal arm of apply). *)
TerminalIsFinal == [][Terminal(s) => s' = s]_vars

(* From the deadline on a session can only fail, however late and in         *)
(* whatever order its remaining events arrive.                               *)
NoProgressPastDeadline ==
    [][now >= s.deadline => s'.phase \in {s.phase, "Failed"}]_vars
=============================================================================
