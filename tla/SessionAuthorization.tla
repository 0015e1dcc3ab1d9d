------------------------ MODULE SessionAuthorization ------------------------
(***************************************************************************)
(* The authorization registry of mrd-service (session_authorization.rs):   *)
(* one record per remote session, from the verified request over consent   *)
(* or an unattended credential to the grant and its end; the unattended    *)
(* material next to it; the leases running operations hold; and the        *)
(* bounded event history user interfaces page through.                     *)
(*                                                                         *)
(* Every operation runs under the registry's mutex, so each is one action. *)
(* verify_unattended takes a second mutex first and holds both: it is two  *)
(* actions, so that enabling, disabling and rotating interleave with it.   *)
(* Operations that are refused change nothing and are not written down.    *)
(*                                                                         *)
(* Abstractions: a peer key stands for its identifier (a digest of it);    *)
(* the three ceilings a scope has to pass (peer, machine, runtime) are one *)
(* set; reason codes are kept as the classes transition_failure_locked     *)
(* tells apart; presentation_state, which only repeats the other states    *)
(* for display, is left out.                                               *)
(***************************************************************************)
EXTENDS Integers, Sequences, FiniteSets, SequencesExt

CONSTANTS
    Sessions,           \* session identifiers
    Requests,           \* the verified requests that may arrive
    Keys,               \* peer key identifiers
    Scopes,             \* RemotePermissionScope
    Failures,           \* <<terminal state, reason code>> callers report
    MaxTime,            \* bound on the clock
    MaxInstances,       \* bound on the records ever created
    MaxLeases,          \* bound on the leases in use
    MaxRevision,        \* bound on the unattended policy revision
    RecordLimit,        \* AUTHORIZATION_RECORD_LIMIT
    PendingLimit,       \* MAX_PENDING_INCOMING_AUTHORIZATIONS
    PendingPerPeer,     \* MAX_PENDING_INCOMING_PER_PEER
    Retention,          \* TERMINAL_RECORD_RETENTION_MS
    HistoryLimit,       \* EVENT_HISTORY_LIMIT
    None                \* absent key, grant, failure or lock owner

VARIABLES
    now,                \* unix_time_ms
    records,            \* session -> its authorization record
    nextInstance,       \* instance ids handed out
    unattended,         \* credential present, access epoch, policy revision
    verifying,          \* the session whose verification holds the material,
                        \* and the epoch its proof was checked for
    leases,             \* SessionAuthorizationLease values in use
    events,             \* the retained event history, oldest first
    nextSequence,       \* sequence number of the newest event
    approved            \* history: scopes the user or the policy approved

registry == <<records, nextInstance, events, nextSequence, approved>>
vars == <<now, unattended, verifying, leases, registry>>

Time == 0..MaxTime

IncomingRequest ==
    [role: {"Agent"}, device: Keys, key: Keys, mode: {"Attended", "Unattended"},
     requested: SUBSET Scopes \ {{}}, ceiling: SUBSET Scopes, wan: BOOLEAN,
     expires: Nat]

OutgoingRequest ==
    [role: {"Controller"}, device: Keys, key: Keys \cup {None},
     mode: {"Attended", "Unattended"}, requested: SUBSET Scopes \ {{}},
     ceiling: SUBSET Scopes, wan: BOOLEAN, expires: Nat]

ASSUME RequestsAssumption == Requests \subseteq IncomingRequest \cup OutgoingRequest
ASSUME LimitsAssumption ==
    /\ {RecordLimit, PendingLimit, PendingPerPeer} \subseteq Nat \ {0}
    /\ {MaxTime, MaxInstances, MaxLeases, MaxRevision} \subseteq Nat
    /\ {Retention, HistoryLimit} \subseteq Nat

Pending == {"AwaitingLocalConsent", "VerifyingUnattendedCredential", "Authorizing"}
Terminal == {"Denied", "Expired", "Revoked", "LockedOut", "PolicyChanged"}

\* The reason codes, by what transition_failure_locked does with them.
CleanCodes == {"GrantExpired", "GrantRevoked", "PolicyChanged", "TrustRequired"}
DenialCodes == {"ConsentDenied", "AuthorizationTimeout", "CredentialInvalid"}
RouteCodes == {"RouteLost"}
MediaCodes == {"EncoderUnavailable"}
OtherCodes == {"CertificateBindingMismatch"}
Codes == CleanCodes \cup DenialCodes \cup RouteCodes \cup MediaCodes \cup OtherCodes

ASSUME FailuresAssumption == Failures \subseteq Terminal \X Codes

EventKinds == {"ConsentRequested", "ConsentResolved", "AuthorizationChanged",
               "RouteChanged", "MediaChanged", "SessionClosed"}

Grants == [scopes: SUBSET Scopes, expires: Nat, revision: Nat]

ASSUME NoneAssumption == None \notin Grants

Record ==
    [request: IncomingRequest \cup OutgoingRequest, instance: 1..MaxInstances,
     auth: Pending \cup Terminal \cup {"Granted"},
     route: {"Idle", "Connecting", "Connected", "Closed", "Failed"},
     media: {"Idle", "Streaming", "Stopped", "Failed"},
     granted: SUBSET Scopes, revision: Nat, failure: Codes \cup {None},
     updated: Nat, grant: Grants \cup {None}, boundKey: Keys \cup {None},
     cancelled: BOOLEAN]

Init ==
    /\ now = 0
    /\ records = [s \in {} |-> None]
    /\ nextInstance = 0
    /\ unattended = [enabled |-> FALSE, epoch |-> 0, revision |-> 1]
    /\ verifying = None
    /\ leases = {}
    /\ events = << >>
    /\ nextSequence = 0
    /\ approved = [s \in Sessions |-> {}]

-----------------------------------------------------------------------------
(* The event history. *)

\* push_event for each <<session, kind>> in turn: number it, append it, keep
\* the newest.
PushAll(new) ==
    LET all == events \o [i \in 1..Len(new) |->
                    [sequence |-> nextSequence + i, session |-> new[i][1], kind |-> new[i][2]]]
        drop == IF Len(all) > HistoryLimit THEN Len(all) - HistoryLimit ELSE 0
    IN  /\ events' = SubSeq(all, drop + 1, Len(all))
        /\ nextSequence' = nextSequence + Len(new)

Of(s, kinds) == [i \in 1..Len(kinds) |-> <<s, kinds[i]>>]

Push(s, kinds) == PushAll(Of(s, kinds))

-----------------------------------------------------------------------------
(* Records. *)

IsTerminal(r) == r.auth \in Terminal

PendingIncoming(R) ==
    {s \in DOMAIN R : R[s].request.role = "Agent" /\ R[s].auth \in Pending}

NewRecord(req) ==
    [request |-> req, instance |-> nextInstance + 1,
     auth |-> CASE req.role = "Controller" -> "Authorizing"
                [] req.role = "Agent" /\ req.mode = "Attended" -> "AwaitingLocalConsent"
                [] OTHER -> "VerifyingUnattendedCredential",
     route |-> "Idle", media |-> "Idle", granted |-> {}, revision |-> 1,
     failure |-> None, updated |-> now, grant |-> None, boundKey |-> None,
     cancelled |-> FALSE]

\* Fault: the lease of a record that ends is not cancelled with it.
CancelForgotten(r) == r.cancelled

CancelledByFailure(r) == TRUE

HadRoute(r) == r.grant # None \/ r.route \notin {"Idle", "Closed"}
HadMedia(r) == r.media \notin {"Idle", "Stopped"}

\* transition_failure_locked on a record that is not terminal.
Failed(r, state, code) ==
    LET ended(clean, failed) == IF code \in CleanCodes THEN clean ELSE failed
    IN  [r EXCEPT !.auth = state, !.failure = code, !.granted = {},
            !.updated = now, !.grant = None, !.cancelled = CancelledByFailure(r),
            !.route = IF HadRoute(r) \/ code \in RouteCodes
                      THEN ended("Closed", "Failed") ELSE @,
            !.media = IF HadMedia(r) \/ code \in MediaCodes
                      THEN ended("Stopped", "Failed") ELSE @]

FailureEvents(r, code) ==
    LET onRoute == HadRoute(r) \/ code \in RouteCodes
        onMedia == HadMedia(r) \/ code \in MediaCodes
    IN  <<"AuthorizationChanged">>
        \o (IF onRoute THEN <<"RouteChanged">> ELSE << >>)
        \o (IF onMedia THEN <<"MediaChanged">> ELSE << >>)
        \o (IF onRoute \/ onMedia \/ code \in OtherCodes
            THEN <<"SessionClosed">> ELSE << >>)

Set(s, r) == records' = [records EXCEPT ![s] = r]

\* transition_failure_locked: a terminal record keeps its first end.
TransitionFailure(s, state, code) ==
    /\ s \in DOMAIN records
    /\ ~IsTerminal(records[s])
    /\ Set(s, Failed(records[s], state, code))
    /\ Push(s, FailureEvents(records[s], code))
    /\ UNCHANGED <<nextInstance, approved>>

GrantOver(s) ==
    /\ s \in DOMAIN records
    /\ records[s].auth = "Granted"
    /\ now > records[s].grant.expires

-----------------------------------------------------------------------------
(* Admission. *)

Retained == {s \in DOMAIN records :
                \/ ~IsTerminal(records[s])
                \/ now - records[s].updated <= Retention}

OldestTerminal(S) ==
    {s \in S : /\ IsTerminal(records[s])
               /\ \A t \in S : IsTerminal(records[t])
                                => records[s].updated <= records[t].updated}

\* prune_authorization_records: what may be left. There are never more than
\* RecordLimit records, so its loop removes at most one, an oldest terminal
\* one; among equally old ones the map's order decides.
Kept == IF Cardinality(Retained) >= RecordLimit /\ OldestTerminal(Retained) # {}
        THEN {Retained \ {s} : s \in OldestTerminal(Retained)}
        ELSE {Retained}

HasRoom(R, req) ==
    req.role = "Agent" =>
        /\ Cardinality(PendingIncoming(R)) < PendingLimit
        /\ Cardinality({s \in PendingIncoming(R) : R[s].request.key = req.key})
            < PendingPerPeer

\* A refused begin has still pruned.
Prune(K) == records' = [s \in K |-> records[s]]

\* begin_verified_incoming, begin_outgoing.
Begin(s, req) ==
    \E K \in Kept :
        LET left == [t \in K |-> records[t]]
        IN  /\ now < req.expires
            /\ IF s \notin K /\ Cardinality(K) < RecordLimit /\ HasRoom(left, req)
               THEN /\ nextInstance < MaxInstances
                    /\ records' = [t \in K \cup {s} |->
                                    IF t = s THEN NewRecord(req) ELSE records[t]]
                    /\ nextInstance' = nextInstance + 1
                    /\ approved' = [approved EXCEPT ![s] = {}]
                    /\ Push(s, IF req.role = "Agent" /\ req.mode = "Attended"
                               THEN <<"ConsentRequested">> ELSE << >>)
               ELSE /\ Prune(K)
                    /\ UNCHANGED <<nextInstance, approved, events, nextSequence>>

-----------------------------------------------------------------------------
(* Identity of the peer. *)

\* bind_authenticated_peer_key
BindKey(s, key) ==
    /\ s \in DOMAIN records
    /\ ~IsTerminal(records[s])
    /\ records[s].request.key = key
    /\ records[s].boundKey \in {None, key}
    /\ Set(s, [records[s] EXCEPT !.boundKey = key, !.updated = now])
    /\ UNCHANGED <<nextInstance, events, nextSequence, approved>>

\* bind_outgoing_authenticated_peer: the marker a controller request starts
\* with is replaced by the first verified key of the requested device.
MayBindOutgoing(r, device, key) ==
    /\ r.request.role = "Controller"
    /\ r.auth = "Authorizing"
    /\ r.request.device = device
    /\ r.request.key \in {None, key}
    /\ r.boundKey \in {None, key}

BindOutgoing(s, device, key) ==
    /\ s \in DOMAIN records
    /\ MayBindOutgoing(records[s], device, key)
    /\ Set(s, [records[s] EXCEPT !.request.key = key, !.boundKey = key,
                                 !.updated = now])
    /\ UNCHANGED <<nextInstance, events, nextSequence, approved>>

-----------------------------------------------------------------------------
(* Decisions. *)

\* effective_scopes
Effective(req, allowed) == req.requested \cap req.ceiling \cap allowed

\* respond_to_consent_with_audit, an answer after the deadline.
ConsentTooLate(s) ==
    /\ s \in DOMAIN records
    /\ records[s].auth = "AwaitingLocalConsent"
    /\ now > records[s].request.expires
    /\ Set(s, [records[s] EXCEPT !.auth = "Expired", !.updated = now,
                                 !.failure = "AuthorizationTimeout"])
    /\ Push(s, <<"AuthorizationChanged">>)
    /\ UNCHANGED <<nextInstance, approved>>

\* respond_to_consent_with_audit: a refused audit entry refuses the answer.
Approve(s, scopes) ==
    /\ s \in DOMAIN records
    /\ records[s].auth = "AwaitingLocalConsent"
    /\ now <= records[s].request.expires
    /\ scopes \subseteq records[s].request.requested
    /\ Effective(records[s].request, scopes) # {}
    /\ Set(s, [records[s] EXCEPT !.auth = "Authorizing", !.updated = now,
                    !.granted = Effective(records[s].request, scopes)])
    /\ approved' = [approved EXCEPT ![s] = scopes]
    /\ Push(s, <<"ConsentResolved">>)
    /\ UNCHANGED nextInstance

Deny(s) ==
    /\ s \in DOMAIN records
    /\ records[s].auth = "AwaitingLocalConsent"
    /\ now <= records[s].request.expires
    /\ Set(s, [records[s] EXCEPT !.auth = "Denied", !.updated = now,
                                 !.failure = "ConsentDenied"])
    /\ Push(s, <<"ConsentResolved">>)
    /\ UNCHANGED <<nextInstance, approved>>

\* expire_pending
ExpirePending(s) ==
    /\ s \in DOMAIN records
    /\ records[s].auth = "AwaitingLocalConsent"
    /\ now > records[s].request.expires
    /\ Set(s, [records[s] EXCEPT !.auth = "Expired", !.updated = now,
                    !.failure = "AuthorizationTimeout", !.granted = {}])
    /\ Push(s, <<"AuthorizationChanged">>)
    /\ UNCHANGED <<nextInstance, approved>>

\* Fault: verification does not hold the material.
MaterialUnguarded == TRUE

\* verify_unattended, first lock: the material the proof was made for.
MaterialFree == verifying = None

VerifyStart(s, epoch) ==
    /\ verifying = None
    /\ unattended.enabled
    /\ epoch = unattended.epoch
    /\ verifying' = [session |-> s, epoch |-> epoch]
    /\ UNCHANGED <<unattended, registry>>

Verifiable(s) ==
    /\ s \in DOMAIN records
    /\ records[s].auth = "VerifyingUnattendedCredential"
    /\ now <= records[s].request.expires

\* verify_unattended, second lock: the record, if it still waits and the
\* proof and the policy (ceiling) allow it. Both locks are released.
VerifyCommit(s, ceiling) ==
    /\ verifying # None /\ verifying.session = s
    /\ Verifiable(s)
    /\ Effective(records[s].request, ceiling) # {}
    /\ Set(s, [records[s] EXCEPT !.auth = "Authorizing", !.updated = now,
                    !.granted = Effective(records[s].request, ceiling),
                    !.revision = unattended.revision])
    /\ approved' = [approved EXCEPT ![s] = ceiling]
    /\ Push(s, <<"AuthorizationChanged">>)
    /\ verifying' = None
    /\ UNCHANGED <<nextInstance, unattended>>

VerifyRefused(s) ==
    /\ verifying # None /\ verifying.session = s
    /\ verifying' = None
    /\ UNCHANGED <<unattended, registry>>

-----------------------------------------------------------------------------
(* Grants and leases. *)

\* Fault: a grant may hold whatever was requested.
ScopesRequested(r, g) == g.scopes # {} /\ g.scopes \subseteq r.request.requested

\* What install_verified_grant_inner asks of the grant's scopes.
ScopesBound(r, g) ==
    IF r.request.role = "Controller"
    THEN g.scopes # {} /\ g.scopes \subseteq Effective(r.request, Scopes)
    ELSE g.scopes = r.granted

\* ... and of its policy revision; the WAN target exchanges the revision of
\* the local consent for that of the backend.
PolicyBound(r, g, wanRevision) ==
    IF wanRevision # None
    THEN /\ r.request.role = "Agent" /\ r.request.mode = "Attended"
         /\ r.request.wan
         /\ r.revision = wanRevision
         /\ r.boundKey = r.request.key
         /\ now < r.request.expires
         /\ g.expires <= r.request.expires
         /\ g.revision > 0
    ELSE r.request.role = "Controller" \/ g.revision = r.revision

\* install_verified_grant, install_verified_wan_target_grant
InstallGrant(s, g, wanRevision) ==
    /\ s \in DOMAIN records
    /\ records[s].auth = "Authorizing"
    /\ ScopesBound(records[s], g)
    /\ PolicyBound(records[s], g, wanRevision)
    /\ now <= g.expires
    /\ Set(s, [records[s] EXCEPT !.auth = "Granted", !.grant = g,
                    !.granted = g.scopes, !.revision = g.revision,
                    !.route = "Connecting", !.updated = now])
    /\ Push(s, <<"AuthorizationChanged", "RouteChanged">>)
    /\ UNCHANGED <<nextInstance, approved>>

\* mark_streaming, once the grant is known not to be over.
MarkStreaming(s) ==
    /\ s \in DOMAIN records
    /\ records[s].auth = "Granted"
    /\ now <= records[s].grant.expires
    /\ ~(records[s].route = "Connected" /\ records[s].media = "Streaming")
    /\ Set(s, [records[s] EXCEPT !.route = "Connected", !.media = "Streaming",
                                 !.updated = now])
    /\ Push(s, <<"RouteChanged", "MediaChanged">>)
    /\ UNCHANGED <<nextInstance, approved>>

\* expire_grant_locked: every query and mark_streaming begin with it.
ExpireGrant(s) ==
    /\ GrantOver(s)
    /\ TransitionFailure(s, "Expired", "GrantExpired")

\* acquire_scope_lease
AcquireLease(s, scope) ==
    /\ s \in DOMAIN records
    /\ records[s].auth = "Granted"
    /\ now <= records[s].grant.expires
    /\ scope \in records[s].grant.scopes
    /\ Cardinality(leases) < MaxLeases
    /\ leases' = leases \cup {[session |-> s, instance |-> records[s].instance,
                                scope |-> scope, expires |-> records[s].grant.expires]}
    /\ UNCHANGED registry

\* SessionAuthorizationLease::wait_until_invalid has not returned: the
\* record's sender exists, nothing was sent and the deadline is not over.
LeaseValid(l) ==
    /\ l.session \in DOMAIN records
    /\ records[l.session].instance = l.instance
    /\ ~records[l.session].cancelled
    /\ now <= l.expires

ReleaseLease(l) ==
    /\ l \in leases
    /\ leases' = leases \ {l}
    /\ UNCHANGED registry

-----------------------------------------------------------------------------
(* Revocation. *)

\* Every record of S ends in one critical section, in the map's order.
FailAll(S, state, code) ==
    /\ records' = [s \in DOMAIN records |->
                    IF s \in S THEN Failed(records[s], state, code) ELSE records[s]]
    /\ \E order \in SetToSeqs(S) :
          PushAll(FlattenSeq([i \in 1..Len(order) |->
                    Of(order[i], FailureEvents(records[order[i]], code))]))
    /\ UNCHANGED <<nextInstance, approved>>

Active == {s \in DOMAIN records : ~IsTerminal(records[s])}

ProvenDevices(key) ==
    {records[s].request.device : s \in {t \in Active : records[t].request.key = key}}

\* revoke_peer_authorizations: the sessions of the key, and those still
\* waiting for a key of a device that is known to use it.
PeerSessions(key) ==
    {s \in Active : \/ records[s].request.key = key
                    \/ /\ records[s].request.key = None
                       /\ records[s].request.device \in ProvenDevices(key)}
RevokePeer(key) == FailAll(PeerSessions(key), "Revoked", "GrantRevoked")

\* Fault: a session that is authorized but not yet granted is overlooked.
UnattendedGranted ==
    {s \in Active : records[s].request.mode = "Unattended" /\ records[s].auth = "Granted"}

\* revoke_unattended_authorizations
UnattendedSessions == {s \in Active : records[s].request.mode = "Unattended"}
RevokeUnattended == FailAll(UnattendedSessions, "PolicyChanged", "GrantRevoked")

\* disable_unattended, enable_unattended, rotate_unattended: new material
\* under the first lock of verify_unattended.
Renewed(enabled) ==
    /\ unattended.revision < MaxRevision
    /\ unattended' = [enabled |-> enabled, epoch |-> unattended.epoch + 1,
                      revision |-> unattended.revision + 1]

EnableUnattended == MaterialFree /\ Renewed(TRUE)
RotateUnattended == MaterialFree /\ unattended.enabled /\ Renewed(TRUE)
DisableUnattended == MaterialFree /\ Renewed(FALSE)

-----------------------------------------------------------------------------
(* The registry on its own: any caller, any order. *)

NextGrant == [scopes: SUBSET Scopes \ {{}}, expires: Time, revision: 1..MaxRevision]

Step(s) ==
    \/ \E req \in Requests : Begin(s, req)
    \/ \E key \in Keys : BindKey(s, key)
    \/ \E device \in Keys, key \in Keys : BindOutgoing(s, device, key)
    \/ \E scopes \in SUBSET Scopes : Approve(s, scopes)
    \/ Deny(s)
    \/ ConsentTooLate(s)
    \/ ExpirePending(s)
    \/ \E g \in NextGrant, rev \in {None} \cup 1..MaxRevision : InstallGrant(s, g, rev)
    \/ MarkStreaming(s)
    \/ ExpireGrant(s)
    \/ \E f \in Failures : TransitionFailure(s, f[1], f[2])

Revoke ==
    \/ \E key \in Keys : PeerSessions(key) # {} /\ RevokePeer(key)
    \/ UnattendedSessions # {} /\ RevokeUnattended

Verification ==
    \/ \E s \in Sessions, epoch \in 1..MaxRevision : VerifyStart(s, epoch)
    \/ \E s \in Sessions, ceiling \in SUBSET Scopes : VerifyCommit(s, ceiling)
    \/ \E s \in Sessions : VerifyRefused(s)

Material ==
    /\ EnableUnattended \/ RotateUnattended \/ DisableUnattended
    /\ UNCHANGED <<registry, verifying>>

Leasing ==
    \/ \E s \in Sessions, scope \in Scopes : AcquireLease(s, scope)
    \/ \E l \in leases : ReleaseLease(l)

Tick ==
    /\ now < MaxTime
    /\ now' = now + 1
    /\ UNCHANGED <<unattended, verifying, leases, registry>>

Next ==
    \/ (\E s \in Sessions : Step(s)) /\ UNCHANGED <<now, unattended, verifying, leases>>
    \/ Revoke /\ UNCHANGED <<now, unattended, verifying, leases>>
    \/ Verification /\ UNCHANGED <<now, leases>>
    \/ Material /\ UNCHANGED <<now, leases>>
    \/ Leasing /\ UNCHANGED <<now, unattended, verifying>>
    \/ Tick

Spec == Init /\ [][Next]_vars

-----------------------------------------------------------------------------
(* Properties. *)

\* Every record has its type, no limit of the registry is exceeded and the
\* history is the newest events, numbered without a gap.
TypeOK ==
    /\ now \in Time
    /\ DOMAIN records \subseteq Sessions
    /\ \A s \in DOMAIN records : records[s] \in Record
    /\ Cardinality(DOMAIN records) <= RecordLimit
    /\ Cardinality(PendingIncoming(records)) <= PendingLimit
    /\ nextInstance \in 0..MaxInstances
    /\ verifying \in [session: Sessions, epoch: 1..MaxRevision] \cup {None}
    /\ Len(events) <= HistoryLimit
    /\ \A i \in 1..Len(events) :
          /\ events[i].sequence = nextSequence - Len(events) + i
          /\ events[i].kind \in EventKinds

\* What a session may do was requested, lies under every ceiling and, on the
\* controlled machine, was approved by its user or its unattended policy for
\* this very record; a granted record has its grant, a record that ended has
\* neither grant nor scopes.
GrantWithinApproval ==
    \A s \in DOMAIN records :
        LET r == records[s]
        IN  /\ r.granted \subseteq Effective(r.request, Scopes)
            /\ r.request.role = "Agent" => r.granted \subseteq approved[s]
            /\ r.auth = "Granted" <=> r.grant # None
            /\ r.auth = "Granted" => r.grant.scopes = r.granted
            /\ IsTerminal(r) => r.granted = {}

\* wait_until_invalid: whatever ends an authorization, also a later record
\* under the same session id, also ends the operations it allowed.
LeaseEndsWithGrant ==
    \A l \in leases : LeaseValid(l) =>
        /\ records[l.session].auth = "Granted"
        /\ l.scope \in records[l.session].grant.scopes

\* verify_unattended: when a record is authorized without a user, the
\* material is enabled and has not been renewed since its proof was checked.
NoStaleMaterial ==
    [][\A s \in DOMAIN records \cap DOMAIN records' :
          /\ records[s].auth = "VerifyingUnattendedCredential"
          /\ records'[s].auth = "Authorizing"
          => unattended.enabled /\ verifying.epoch = unattended.epoch]_vars
=============================================================================
