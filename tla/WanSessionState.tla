--------------------------- MODULE WanSessionState ---------------------------
(* The fail-closed phase machine of one WAN session                          *)
(* (apps/mrd-service/src/wan_session/model.rs), as operators on a record.    *)
(*                                                                           *)
(* The code keeps the list accepted_events next to five optional fields that *)
(* repeat the payloads of those events (request_commitment, grant, ...).     *)
(* Every kind of event is accepted at most once, so both are one function    *)
(* here: bound[kind] is the payload of the accepted event of that kind, or   *)
(* None. Digests, identifiers and device names are model values: they are    *)
(* only ever compared. Times are milliseconds reduced to small ticks.        *)
EXTENDS Naturals

CONSTANTS None,      \* the absent value of an Option field
          Requests,  \* commitments of the session requests
          Intents,   \* commitments of the signed intents
          Grants,    \* the grants a backend may issue
          Accesses,  \* generation-zero relay access bindings
          Keys       \* key fingerprints of target devices

Roles == {"Controller", "Target"}

(* WanRoutePolicyV3 *)
RoutePolicies == {"RelayOnly", "DirectFirst"}

(* WanSessionPhase derives Ord: the declaration order is what `<=` compares. *)
Rank == [Created |-> 0, BackendBound |-> 1, AwaitingConsent |-> 2,
         Granted |-> 3, AccessBound |-> 4, Negotiating |-> 5,
         RelayVerified |-> 6, Streaming |-> 7, Closed |-> 8, Failed |-> 9]

Phases == {"Created", "BackendBound", "AwaitingConsent", "Granted",
           "AccessBound", "Negotiating", "RelayVerified", "Streaming",
           "Closed", "Failed"}

TerminalPhases == {"Closed", "Failed"}

(* WanSessionEvent::target_phase: an event kind is named for its phase. *)
EventKinds == Phases \ {"Created"}

(* The WanSessionFailure values that the modelled code produces. *)
Failures == {"InvalidTransition", "ConflictingDuplicate", "DeadlineExceeded",
             "PolicyMismatch", "RouteMismatch", "Transport", "Cancelled",
             "Internal"}

(* GrantBinding::with_profile: a policy never ends before its grant. *)
IsGrant(g) ==
    /\ g \in [request: Requests, expires: Nat, policyExpires: Nat,
              revision: Nat, route: RoutePolicies]
    /\ g.expires > 0
    /\ g.revision > 0
    /\ g.policyExpires >= g.expires

(* RelayAccessBinding: the generation is always zero, so it is left out. *)
IsAccess(a) == DOMAIN a = {"revision", "node"} /\ a.revision \in Nat

(* RelayRouteProof::from_verified_policy *)
RouteProofs ==
    {p \in [access: Accesses, route: RoutePolicies, relayed: BOOLEAN] :
        p.route = "RelayOnly" => p.relayed}

ASSUME PayloadAssumption ==
    /\ None \notin Requests \cup Intents \cup Keys
    /\ \A g \in Grants : g # None /\ IsGrant(g)
    /\ \A a \in Accesses : a # None /\ IsAccess(a)
    /\ None # TRUE
    /\ \A f \in Failures : f # None
    /\ \A p \in RouteProofs : p # None

Payloads(kind) ==
    CASE kind = "BackendBound"    -> Requests
      [] kind = "AwaitingConsent" -> Intents
      [] kind = "Granted"         -> Grants
      [] kind = "AccessBound"     -> Accesses
      [] kind = "RelayVerified"   -> RouteProofs
      [] kind = "Failed"          -> Failures
      [] OTHER                    -> {TRUE}

Event(kind, arg) == [kind |-> kind, arg |-> arg]

(* WanSessionState::new. A controller learns the target's key from the grant *)
(* (new_controller_pending_target); a target knows its own.                  *)
NewState(role, deadline, key) ==
    [role |-> role, deadline |-> deadline, key |-> key, phase |-> "Created",
     bound |-> [k \in EventKinds |-> None]]

IsState(s) ==
    /\ s = [role |-> s.role, deadline |-> s.deadline, key |-> s.key,
            phase |-> s.phase, bound |-> s.bound]
    /\ s.role \in Roles
    /\ s.deadline \in Nat
    /\ s.key \in Keys \cup {None}
    /\ s.phase \in Phases
    /\ s.bound = [k \in EventKinds |-> s.bound[k]]
    /\ \A k \in EventKinds : s.bound[k] \in Payloads(k) \cup {None}

Terminal(s) == s.phase \in TerminalPhases

(* The min() of expire_due_sessions: a grant only shortens the deadline. *)
EffectiveDeadline(s) ==
    LET g == s.bound["Granted"]
        Least(x, y) == IF x <= y THEN x ELSE y
    IN  IF g = None THEN s.deadline
        ELSE Least(s.deadline, Least(g.expires, g.policyExpires))

Accept(s, ev) ==
    [s EXCEPT !.phase = ev.kind, !.bound = [@ EXCEPT ![ev.kind] = ev.arg]]

(* set_terminal_failure: the failure joins accepted_events like any event. *)
FailWith(s, failure) == Accept(s, Event("Failed", failure))

(* Fault: only the grant is compared with what was bound before it. *)
PermittedOnceGranted(s, ev, now) ==
    ev.kind = "Granted" =>
        /\ s.bound["BackendBound"] = ev.arg.request
        /\ now < ev.arg.expires /\ ev.arg.expires <= s.deadline

(* The semantic check of apply, per kind of event. *)
Permitted(s, ev, now) ==
    CASE ev.kind = "Granted" ->
            /\ s.bound["BackendBound"] = ev.arg.request
            /\ now < ev.arg.expires
            /\ now < ev.arg.policyExpires
            /\ ev.arg.expires <= s.deadline
      [] ev.kind = "AccessBound" ->
            /\ s.bound["Granted"] # None
            /\ s.bound["Granted"].revision = ev.arg.revision
      [] ev.kind = "RelayVerified" ->
            /\ s.bound["Granted"] # None
            /\ s.bound["Granted"].route = ev.arg.route
            /\ ev.arg.route = "DirectFirst" \/ ev.arg.relayed
            /\ s.bound["AccessBound"] = ev.arg.access
      [] ev.kind = "Streaming" -> s.bound["RelayVerified"] # None
      [] OTHER -> TRUE

SemanticFailure(kind) ==
    IF kind = "Granted" THEN "PolicyMismatch" ELSE "RouteMismatch"

(* Fault: a phase may be skipped. *)
OutcomeOfLaterPhase(s, ev, now) ==
    IF s.bound[ev.kind] = ev.arg THEN "Duplicate"
    ELSE IF Terminal(s) THEN "Terminal"
    ELSE IF now >= s.deadline THEN "DeadlineExceeded"
    ELSE IF Rank[ev.kind] <= Rank[s.phase] THEN "ConflictingDuplicate"
    ELSE IF ev.kind \in TerminalPhases \/ Permitted(s, ev, now) THEN "Applied"
    ELSE SemanticFailure(ev.kind)

(* The result and the next state of WanSessionState::apply, in the order of  *)
(* its early returns.                                                        *)
Outcome(s, ev, now) ==
    IF s.bound[ev.kind] = ev.arg THEN "Duplicate"
    ELSE IF Terminal(s) THEN "Terminal"
    ELSE IF now >= s.deadline THEN "DeadlineExceeded"
    ELSE IF Rank[ev.kind] <= Rank[s.phase] THEN "ConflictingDuplicate"
    ELSE IF ev.kind \in TerminalPhases THEN "Applied"
    ELSE IF Rank[ev.kind] # Rank[s.phase] + 1 THEN "InvalidTransition"
    ELSE IF ~Permitted(s, ev, now) THEN SemanticFailure(ev.kind)
    ELSE "Applied"

Apply(s, ev, now) ==
    LET result == Outcome(s, ev, now)
    IN  CASE result \in {"Duplicate", "Terminal"} -> s
          [] result = "Applied"                   -> Accept(s, ev)
          [] OTHER                                -> FailWith(s, result)

(* bind_controller_target_key and bind_target_key_fingerprint *)
CanBindKey(s, key) ==
    /\ s.role = "Controller"
    /\ s.phase \in {"Created", "BackendBound", "AwaitingConsent"}
    /\ s.key \in {None, key}

BindKey(s, key) == [s EXCEPT !.key = key]
=============================================================================
