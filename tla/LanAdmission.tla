---------------------------- MODULE LanAdmission ----------------------------
(***************************************************************************)
(* Signed LAN session requests on the controlled machine                   *)
(* (lan_discovery.rs, handle_signed_remote_session_request) composed with  *)
(* the authorization registry, the unattended material and the trust       *)
(* store. A handler runs per request packet; trust transitions and the     *)
(* switching off of unattended access (handlers/identity.rs,               *)
(* handlers/session.rs) run beside it. They exclude each other with        *)
(* authorization_security_gate, which a handler holds while it admits and  *)
(* again while it issues, but not while it waits for the user.             *)
(***************************************************************************)
EXTENDS SessionAuthorization

CONSTANTS
    Handlers,           \* request packets being handled
    SessionOf,          \* the session id each packet names
    RequestOf,          \* what it asks for
    GrantLife           \* lifetime of a signed grant

VARIABLES
    pc,                 \* where each handler is
    gate,               \* the owner of authorization_security_gate
    reserved,           \* LanDiscoveryState::pending_sessions
    trusted,            \* keys whose trust is_controllable
    live,               \* sessions with a committed media sender
    admin               \* the administrative change under way

lan == <<pc, gate, reserved, trusted, live, admin>>
lanVars == <<vars, lan>>

Admin == "admin"
Idle == [task |-> "none", key |-> None, victims |-> {}]

ASSUME HandlersAssumption ==
    /\ SessionOf \in [Handlers -> Sessions]
    /\ RequestOf \in [Handlers -> Requests \cap IncomingRequest]
    /\ GrantLife \in Nat
    /\ Admin \notin Handlers
    /\ None \notin Handlers \cup {Admin}

LanInit ==
    /\ Init
    /\ pc = [h \in Handlers |-> "idle"]
    /\ gate = None
    /\ reserved = {}
    /\ trusted = Keys
    /\ live = {}
    /\ admin = Idle

At(h, here) == pc[h] = here
Goto(h, there) == pc' = [pc EXCEPT ![h] = there]
Peer(h) == RequestOf[h].key
Rec(h) == records[SessionOf[h]]
HasRecord(h) == SessionOf[h] \in DOMAIN records

Release(h) == gate' = IF gate = h THEN None ELSE gate

\* The handler returns: guard and reservation are dropped.
Done(h) ==
    /\ Goto(h, "done")
    /\ Release(h)
    /\ reserved' = IF pc[h] \in {"idle", "received", "admitting", "reserving"}
                   THEN reserved ELSE reserved \ {SessionOf[h]}

\* `?` inside the admitted part: the guard is dropped, the error is handled.
Abort(h) ==
    /\ Goto(h, "finalizing")
    /\ Release(h)
    /\ UNCHANGED <<now, unattended, verifying, leases, registry, reserved, trusted, live, admin>>

\* record_failure, which leaves a record that already ended as it is.
RecordFailure(h, state, code) ==
    IF HasRecord(h) /\ ~IsTerminal(Rec(h))
    THEN TransitionFailure(SessionOf[h], state, code)
    ELSE UNCHANGED registry

Refuse(h, state, code) ==
    /\ RecordFailure(h, state, code)
    /\ Done(h)
    /\ UNCHANGED <<now, unattended, verifying, leases, trusted, live, admin>>

Advance(h, there) ==
    /\ Goto(h, there)
    /\ UNCHANGED <<now, unattended, verifying, leases, registry, gate, reserved, trusted, live, admin>>

Turn(h, there, state) ==
    /\ Goto(h, there)
    /\ state
    /\ UNCHANGED <<now, unattended, verifying, leases, gate, reserved, trusted, live, admin>>

Return(h) ==
    /\ Done(h)
    /\ UNCHANGED <<now, unattended, verifying, leases, registry, trusted, live, admin>>

Expired(h) == now > RequestOf[h].expires

-----------------------------------------------------------------------------
(* Admission. *)

\* The inexpensive check before the gate and the signed request's validity; one
\* whose nonce was used before, or finds no room to be remembered, is refused.
Receive(h) ==
    /\ At(h, "idle")
    /\ \/ /\ Peer(h) \in trusted /\ now < RequestOf[h].expires
          /\ Advance(h, "received")
       \/ Return(h)

Enter(h, here, there) ==
    /\ At(h, here)
    /\ gate = None
    /\ gate' = h
    /\ Goto(h, there)
    /\ UNCHANGED <<now, unattended, verifying, leases, registry, reserved, trusted, live, admin>>

EnterAdmission(h) == Enter(h, "received", "admitting")

\* Fault: the check before the gate is taken for enough.
TrustedBefore(h) == TRUE

\* resolve_authenticated_peer_trust ... is_controllable, under the gate.
StillTrusted(h) == Peer(h) \in trusted

CheckTrust(h) ==
    /\ At(h, "admitting")
    /\ IF StillTrusted(h) THEN Advance(h, "reserving") ELSE Return(h)

\* reserve_session, and the test for a session that is already there.
Reserve(h) ==
    /\ At(h, "reserving")
    /\ IF SessionOf[h] \in reserved \cup live
       THEN Return(h)
       ELSE /\ reserved' = reserved \cup {SessionOf[h]}
            /\ Goto(h, "inserting")
            /\ UNCHANGED <<now, unattended, verifying, leases, registry, gate, trusted, live, admin>>

Insert(h) ==
    /\ At(h, "inserting")
    /\ \/ now >= RequestOf[h].expires /\ Return(h)
       \/ /\ Begin(SessionOf[h], RequestOf[h])
          /\ IF nextInstance' > nextInstance
             THEN Goto(h, "binding") /\ UNCHANGED <<gate, reserved>>
             ELSE Done(h)
          /\ UNCHANGED <<now, unattended, verifying, leases, trusted, live, admin>>

\* bind_authenticated_peer_key; the gate is dropped.
Bind(h) ==
    /\ At(h, "binding")
    /\ IF HasRecord(h) /\ ~IsTerminal(Rec(h))
       THEN /\ BindKey(SessionOf[h], Peer(h))
            /\ Goto(h, "admitted")
            /\ gate' = None
            /\ UNCHANGED <<now, unattended, verifying, leases, reserved, trusted, live, admin>>
       ELSE Return(h)

-----------------------------------------------------------------------------
(* The decision. *)

\* The request is still live and its audit record was written, or not.
Audit(h) ==
    /\ At(h, "admitted")
    /\ \/ Expired(h) /\ Abort(h)
       \/ ~Expired(h) /\ Advance(h, "deciding")
       \/ ~Expired(h) /\ Refuse(h, "PolicyChanged", "PolicyChanged")

Decided(h) == HasRecord(h) /\ Rec(h).auth \in {"Authorizing", "Granted"}
Ended(h) == ~HasRecord(h) \/ IsTerminal(Rec(h))

\* wait_for_authorization_decision, attended.
Wait(h) ==
    /\ At(h, "deciding")
    /\ RequestOf[h].mode = "Attended"
    /\ \/ Decided(h) /\ Advance(h, "approved")
       \/ Ended(h) /\ Return(h)
       \/ /\ ~Decided(h) /\ ~Ended(h) /\ Expired(h)
          /\ Turn(h, "refused", ExpirePending(SessionOf[h]))
       \* the deadline and a decision at the same time: the snapshot was read
       \* before the decision, expire_pending runs after it
       \/ /\ Decided(h) /\ Expired(h)
          /\ Advance(h, "refused")

\* verify_unattended
Verify(h) ==
    /\ RequestOf[h].mode = "Unattended"
    /\ \/ /\ At(h, "deciding")
          /\ \E epoch \in 1..MaxRevision :
               VerifyStart(SessionOf[h], epoch) /\ Goto(h, "verifying")
          /\ UNCHANGED <<now, leases, gate, reserved, trusted, live, admin>>
       \/ /\ At(h, "deciding")
          /\ MaterialFree
          /\ Advance(h, "refused")
       \/ /\ At(h, "verifying")
          /\ \/ VerifyCommit(SessionOf[h], Scopes) /\ Goto(h, "approved")
             \/ VerifyRefused(SessionOf[h]) /\ Goto(h, "refused")
          /\ UNCHANGED <<now, leases, gate, reserved, trusted, live, admin>>

\* An error of either: the record takes it as its end, unless it has one.
Refused(h) ==
    /\ At(h, "refused")
    /\ IF RequestOf[h].mode = "Attended" \/ Expired(h)
       THEN Refuse(h, "Expired", "AuthorizationTimeout")
       ELSE Refuse(h, "Denied", "CredentialInvalid")

-----------------------------------------------------------------------------
(* Issuance, under the gate to its end. *)

Live(h) ==
    /\ At(h, "approved")
    /\ IF Expired(h) THEN Abort(h) ELSE Advance(h, "waiting")

EnterIssuance(h) == Enter(h, "waiting", "issuing")

\* The trust store is asked again, and may fail to answer.
FinalTrust(h) ==
    /\ At(h, "issuing")
    /\ \/ Abort(h)
       \/ /\ Peer(h) \notin trusted
          /\ Refuse(h, "Revoked", "TrustRequired")
       \/ /\ Peer(h) \in trusted
          /\ HasRecord(h) /\ Rec(h).auth = "Authorizing"
          /\ Advance(h, "preparing")
       \/ /\ Peer(h) \in trusted
          /\ ~(HasRecord(h) /\ Rec(h).auth = "Authorizing")
          /\ Refuse(h, "Revoked", "PolicyChanged")

\* prepare_lan_remote_session; then the request must still be live.
Prepare(h) ==
    /\ At(h, "preparing")
    /\ \/ Expired(h) /\ Abort(h)
       \/ ~Expired(h) /\ Advance(h, "installing")
       \/ Refuse(h, "Revoked", "EncoderUnavailable")

\* Sign, audit and install the grant for what the record holds now.
SignedGrant(h) ==
    [scopes |-> Rec(h).granted, expires |-> now + GrantLife,
     revision |-> Rec(h).revision]

Install(h) ==
    /\ At(h, "installing")
    /\ \/ /\ HasRecord(h)
          /\ Turn(h, "routing", InstallGrant(SessionOf[h], SignedGrant(h), None))
       \/ /\ ~(HasRecord(h) /\ Rec(h).auth = "Authorizing")
          /\ Refuse(h, "Revoked", "PolicyChanged")
       \/ Refuse(h, "Revoked", "PolicyChanged")     \* the audit failed
       \/ Abort(h)                                  \* signing failed

\* bind_prepared_lan_remote_session, then the bootstrap is signed and sent.
Route(h) ==
    /\ At(h, "routing")
    /\ \/ Refuse(h, "Revoked", "RouteLost")
       \/ Expired(h) /\ Abort(h)
       \/ ~Expired(h) /\ Advance(h, "sending")

Send(h) ==
    /\ At(h, "sending")
    /\ \/ Advance(h, "committing")
       \/ Expired(h) /\ Abort(h)
       \/ /\ RecordFailure(h, "Revoked", "RouteLost")
          /\ Goto(h, "finalizing")
          /\ Release(h)
          /\ UNCHANGED <<now, unattended, verifying, leases, reserved, trusted, live, admin>>

\* commit_prepared_lan_remote_session: under every registry's lock.
Committable(h) ==
    /\ HasRecord(h)
    /\ Rec(h).auth = "Granted"
    /\ ~GrantOver(SessionOf[h])
    /\ SessionOf[h] \notin live

Commit(h) ==
    /\ At(h, "committing")
    /\ \/ /\ Committable(h)
          /\ live' = live \cup {SessionOf[h]}
          /\ Done(h)
          /\ UNCHANGED <<now, unattended, verifying, leases, registry, trusted, admin>>
       \/ /\ RecordFailure(h, "Revoked", "RouteLost")
          /\ Goto(h, "finalizing")
          /\ Release(h)
          /\ UNCHANGED <<now, unattended, verifying, leases, reserved, trusted, live, admin>>

\* finalize_post_admission_error: no gate.
Finalize(h) ==
    /\ At(h, "finalizing")
    /\ IF Expired(h)
       THEN Refuse(h, "Expired", "AuthorizationTimeout")
       ELSE Refuse(h, "Revoked", "PolicyChanged")

Handle(h) ==
    \/ Receive(h) \/ CheckTrust(h) \/ Reserve(h) \/ Insert(h) \/ Bind(h)
    \/ Audit(h) \/ Wait(h) \/ Verify(h) \/ Refused(h)
    \/ Live(h) \/ FinalTrust(h) \/ Prepare(h) \/ Install(h)
    \/ Route(h) \/ Send(h) \/ Commit(h) \/ Finalize(h)

-----------------------------------------------------------------------------
(* The user and the administrator. *)

\* respond_to_consent takes the gate for one registry operation.
Answer ==
    /\ gate = None
    /\ \E s \in Sessions : Approve(s, Scopes) \/ Deny(s) \/ ConsentTooLate(s)
    /\ UNCHANGED <<now, unattended, verifying, leases, lan>>

Busy(task) ==
    /\ admin.task = task
    /\ UNCHANGED <<now, verifying, leases, pc, reserved>>

Start(task, key) ==
    /\ gate = None
    /\ gate' = Admin
    /\ admin' = [task |-> task, key |-> key, victims |-> {}]
    /\ UNCHANGED <<now, verifying, leases, registry, pc, reserved, live>>

\* transition_trusted_device: the audited transition in the store ...
BeginDistrust(key) ==
    /\ key \in trusted
    /\ Start("distrust", key)
    /\ trusted' = trusted \ {key}
    /\ UNCHANGED unattended

\* ... the records of the peer ...
Distrust ==
    /\ Busy("distrust")
    /\ RevokePeer(admin.key)
    /\ admin' = [admin EXCEPT !.task = "terminate", !.victims = PeerSessions(admin.key)]
    /\ UNCHANGED <<unattended, gate, trusted, live>>

\* disable_unattended_access: the material ...
BeginDisable ==
    /\ unattended.enabled
    /\ Start("disable", None)
    /\ DisableUnattended
    /\ UNCHANGED trusted

\* ... the records that rest on it ...
Disable ==
    /\ Busy("disable")
    /\ RevokeUnattended
    /\ admin' = [admin EXCEPT !.task = "terminate", !.victims = UnattendedSessions]
    /\ UNCHANGED <<unattended, gate, trusted, live>>

\* terminate_lan_media_sessions
Terminate ==
    /\ Busy("terminate")
    /\ live' = live \ admin.victims
    /\ admin' = Idle
    /\ gate' = None
    /\ UNCHANGED <<unattended, trusted, registry>>

\* The device is paired again; unattended access is switched on.
Pair(key) ==
    /\ gate = None
    /\ key \notin trusted
    /\ trusted' = trusted \cup {key}
    /\ UNCHANGED <<vars, pc, gate, reserved, live, admin>>

Enable ==
    /\ EnableUnattended
    /\ UNCHANGED <<now, verifying, leases, registry, lan>>

-----------------------------------------------------------------------------
(* What else happens to a granted session. *)

\* Fault: the sender waits for the cancellation only, not for the deadline.
CancelledOnly(s) == s \in DOMAIN records => records[s].cancelled

\* run_lan_media_operation_while_authorized: the lease of the next operation
\* cannot be acquired, or the one of the running operation ends.
LeaseOver(s) == s \in DOMAIN records => records[s].cancelled \/ GrantOver(s)

\* The media sender stops: under the gate its session is terminated and the
\* record, if still active, fails.
MediaEnds(s) ==
    /\ gate = None
    /\ s \in live
    /\ live' = live \ {s}
    /\ IF s \in DOMAIN records /\ ~IsTerminal(records[s])
       THEN IF GrantOver(s) THEN TransitionFailure(s, "Expired", "GrantExpired")
            ELSE TransitionFailure(s, "Revoked", "RouteLost")
       ELSE UNCHANGED registry
    /\ UNCHANGED <<now, unattended, verifying, leases, pc, gate, reserved, trusted, admin>>

LeaseEnds(s) == LeaseOver(s) /\ MediaEnds(s)

\* Any query notices a grant that is over.
Query(s) ==
    /\ ExpireGrant(s)
    /\ UNCHANGED <<now, unattended, verifying, leases, lan>>

LanTick == Tick /\ UNCHANGED lan

LanNext ==
    \/ \E h \in Handlers : Handle(h) \/ EnterAdmission(h) \/ EnterIssuance(h)
    \/ Answer
    \/ \E key \in Keys : BeginDistrust(key) \/ Pair(key)
    \/ Distrust \/ BeginDisable \/ Disable \/ Terminate \/ Enable
    \/ \E s \in Sessions : MediaEnds(s) \/ Query(s)
    \/ LanTick

LanSpec == LanInit /\ [][LanNext]_lanVars

(***************************************************************************)
(* The runtime polls handler tasks that can go on and its clock advances;  *)
(* the gate is a fair mutex, so whoever waits for it while it becomes free *)
(* again and again gets it.                                                *)
(***************************************************************************)
LanFairness ==
    /\ \A h \in Handlers :
          /\ WF_lanVars(Handle(h))
          /\ SF_lanVars(EnterAdmission(h))
          /\ SF_lanVars(EnterIssuance(h))
    /\ WF_lanVars(Distrust) /\ WF_lanVars(Disable) /\ WF_lanVars(Terminate)
    /\ \A s \in Sessions : SF_lanVars(LeaseEnds(s))
    /\ WF_lanVars(LanTick)

LanFairSpec == LanSpec /\ LanFairness

-----------------------------------------------------------------------------
(* Properties. *)

\* "Any transition that follows will revoke and tear down the fully visible
\* session": outside the gate a key that is not trusted has no request that
\* could still be granted, and media that still runs has lost its lease.
DistrustedHasNothing ==
    gate = None =>
        \A s \in DOMAIN records : records[s].request.key \notin trusted =>
            /\ IsTerminal(records[s])
            /\ s \in live => records[s].cancelled

\* The same for unattended access that was switched off: a request that was
\* authorized without a user does not outlive the material, although the
\* material is checked without the gate.
DisabledHasNothing ==
    gate = None /\ ~unattended.enabled =>
        \A s \in DOMAIN records : records[s].request.mode = "Unattended" =>
            /\ records[s].auth \notin {"Authorizing", "Granted"}
            /\ s \in live => records[s].cancelled

\* Nothing of an admission is left over: every handler returns, whether or not
\* the user ever answers, and media whose authorization ended, by a revocation
\* or by its deadline, even if no query ever notices the deadline, stops.
EverythingEnds ==
    /\ \A h \in Handlers : pc[h] = "received" ~> pc[h] = "done"
    /\ \A s \in Sessions :
          s \in live /\ s \in DOMAIN records /\ (IsTerminal(records[s]) \/ GrantOver(s))
          ~> s \notin live
=============================================================================
