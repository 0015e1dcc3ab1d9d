-------------------------- MODULE AdmissionProofs --------------------------
(***************************************************************************)
(* Who is admitted, for every set of handlers, sessions, keys and scopes   *)
(* and every bound.                                                        *)
(*                                                                         *)
(* The registry: what a record may hold, when the leases taken from it end *)
(* and which material an unattended verification uses. Its feed: no prompt *)
(* is lost, although the history is truncated. LAN admission: what         *)
(* authorization_security_gate achieves, although handlers wait for the    *)
(* user and check the material without the gate.                           *)
(***************************************************************************)
EXTENDS LanAdmission, SessionEventFeed, FiniteSetTheorems, SequenceTheorems,
        WellFoundedInduction, TLAPS

\* The part of the types the argument needs.
Typed ==
    /\ now \in Nat
    /\ nextInstance \in 0..MaxInstances
    /\ approved \in [Sessions -> SUBSET Scopes]
    /\ unattended \in [enabled: BOOLEAN, epoch: Nat, revision: Nat]

\* GrantWithinApproval of one record whose approval is a, strengthened: it
\* has its type, and a record nobody decided on yet has no scopes.
RecordOK(r, a) ==
    /\ r \in Record
    /\ r.granted \subseteq Effective(r.request, Scopes)
    /\ r.request.role = "Agent" => r.granted \subseteq a
    /\ r.auth = "Granted" <=> r.grant # None
    /\ r.auth = "Granted" => r.grant.scopes = r.granted
    /\ r.auth \notin {"Authorizing", "Granted"} => r.granted = {}

RecordsOK ==
    /\ records = [s \in DOMAIN records |-> records[s]]
    /\ DOMAIN records \subseteq Sessions
    /\ \A s \in DOMAIN records :
          /\ RecordOK(records[s], approved[s])
          /\ records[s].instance <= nextInstance

RegistryInv == Typed /\ RecordsOK

\* A lease stems from a record that was created before, and as long as that
\* record is there and not cancelled it is granted, with the lease's scope.
LeaseOK(l) ==
    /\ l.instance \in Nat
    /\ l.instance <= nextInstance
    /\ (/\ l.session \in DOMAIN records
        /\ records[l.session].instance = l.instance
        /\ ~records[l.session].cancelled)
       => /\ records[l.session].auth = "Granted"
          /\ l.scope \in records[l.session].grant.scopes

LeasesOK == \A l \in leases : LeaseOK(l)

\* The material cannot be renewed under a verification.
MaterialHeld ==
    verifying # None => unattended.enabled /\ verifying.epoch = unattended.epoch

AuthorizationInv == RegistryInv /\ LeasesOK /\ MaterialHeld

-----------------------------------------------------------------------------
(* What a registry operation may do to a record. *)

\* From r to n: the same record; it keeps a grant it has, or is cancelled.
Successor(r, n) ==
    /\ n.instance = r.instance
    /\ \/ n.cancelled
       \/ /\ n.cancelled = r.cancelled
          /\ r.auth = "Granted" => n.auth = "Granted" /\ n.grant = r.grant

\* A registry step keeps, replaces or removes records; only a new instance
\* takes the place of nothing.
Evolves ==
    /\ nextInstance' \in {nextInstance, nextInstance + 1}
    /\ \A s \in DOMAIN records' :
          \/ s \in DOMAIN records /\ Successor(records[s], records'[s])
          \/ records'[s].instance = nextInstance + 1

\* What every registry operation does, whoever calls it.
RegistryStep ==
    /\ RecordsOK'
    /\ approved' \in [Sessions -> SUBSET Scopes]
    /\ nextInstance' \in 0..MaxInstances
    /\ Evolves

\* One record is replaced.
LEMMA SetStep ==
  ASSUME RegistryInv, NEW s \in DOMAIN records, NEW r, Set(s, r),
         NEW a \in SUBSET Scopes, approved' = [approved EXCEPT ![s] = a],
         RecordOK(r, a), Successor(records[s], r),
         nextInstance' = nextInstance
  PROVE  RegistryStep
<1>1. s \in Sessions /\ DOMAIN records' = DOMAIN records
  BY DEF RegistryInv, RecordsOK, Set
<1>2. records'[s] = r /\ \A t \in DOMAIN records : t # s => records'[t] = records[t]
  BY DEF RegistryInv, RecordsOK, Set
<1>3. approved' \in [Sessions -> SUBSET Scopes]
  BY DEF RegistryInv, Typed
<1>4. approved'[s] = a /\ \A t \in DOMAIN records : t # s => approved'[t] = approved[t]
  BY <1>1 DEF RegistryInv, Typed, RecordsOK
<1>5. records' = [t \in DOMAIN records' |-> records'[t]]
  BY <1>1 DEF Set
<1>6. \A t \in DOMAIN records : Successor(records[t], records[t])
  BY DEF Successor
<1>7. ASSUME NEW t \in DOMAIN records
      PROVE  /\ RecordOK(records'[t], approved'[t])
             /\ records'[t].instance <= nextInstance'
             /\ Successor(records[t], records'[t])
  <2>1. CASE t = s
    BY <1>2, <1>4, <2>1 DEF RegistryInv, RecordsOK, Successor
  <2>2. CASE t # s
    BY <1>2, <1>4, <1>6, <2>2 DEF RegistryInv, RecordsOK
  <2> QED
    BY <2>1, <2>2
<1> QED
  BY <1>1, <1>3, <1>5, <1>7 DEF RegistryInv, Typed, RecordsOK, Evolves, RegistryStep
\* The approval stays as it is.
LEMMA SetStepSame ==
  ASSUME RegistryInv, NEW s \in DOMAIN records, NEW r, Set(s, r),
         approved' = approved, nextInstance' = nextInstance,
         RecordOK(r, approved[s]), Successor(records[s], r)
  PROVE  RegistryStep
<1>1. approved[s] \in SUBSET Scopes /\ approved' = [approved EXCEPT ![s] = approved[s]]
  BY DEF RegistryInv, Typed, RecordsOK
<1> QED
  BY <1>1, SetStep

\* transition_failure_locked leaves a record without grant or scopes and
\* cancels its leases.
LEMMA FailedOK ==
  ASSUME RegistryInv, NEW s \in DOMAIN records,
         NEW state \in Terminal, NEW code \in Codes
  PROVE  /\ RecordOK(Failed(records[s], state, code), approved[s])
         /\ Successor(records[s], Failed(records[s], state, code))
         /\ Failed(records[s], state, code).cancelled
         /\ IsTerminal(Failed(records[s], state, code))
         /\ Failed(records[s], state, code).request = records[s].request
<1> DEFINE r == records[s]
           n == Failed(r, state, code)
<1>1. r \in Record /\ now \in Nat
  BY DEF RegistryInv, Typed, RecordsOK, RecordOK
<1>2. n \in Record
  <2> DEFINE route == IF HadRoute(r) \/ code \in RouteCodes
                      THEN IF code \in CleanCodes THEN "Closed" ELSE "Failed"
                      ELSE r.route
             media == IF HadMedia(r) \/ code \in MediaCodes
                      THEN IF code \in CleanCodes THEN "Stopped" ELSE "Failed"
                      ELSE r.media
  <2>1. n = [r EXCEPT !.auth = state, !.failure = code, !.granted = {},
                !.updated = now, !.grant = None, !.cancelled = TRUE,
                !.route = route, !.media = media]
    BY <1>1 DEF Failed, CancelledByFailure, Record
  <2>2. /\ route \in {"Idle", "Connecting", "Connected", "Closed", "Failed"}
        /\ media \in {"Idle", "Streaming", "Stopped", "Failed"}
    BY <1>1 DEF Record
  <2> HIDE DEF route, media
  <2> QED
    BY <1>1, <2>1, <2>2, ZenonT(60) DEF Record
<1>3. /\ n.auth = state /\ n.granted = {} /\ n.grant = None /\ n.cancelled = TRUE
      /\ n.request = r.request /\ n.instance = r.instance
  BY <1>1 DEF Failed, Record, CancelledByFailure
<1>4. state \notin {"Authorizing", "Granted"}
  BY DEF Terminal
<1> QED
  BY <1>2, <1>3, <1>4 DEF RecordOK, Successor, IsTerminal

LEMMA TransitionFailureStep ==
  ASSUME RegistryInv, NEW s, NEW state \in Terminal, NEW code \in Codes,
         TransitionFailure(s, state, code)
  PROVE  RegistryStep
BY FailedOK, SetStepSame DEF TransitionFailure

LEMMA FailAllStep ==
  ASSUME RegistryInv, NEW S, NEW state \in Terminal, NEW code \in Codes,
         FailAll(S, state, code)
  PROVE  RegistryStep
<1>1. DOMAIN records' = DOMAIN records /\ records' = [s \in DOMAIN records' |-> records'[s]]
  BY DEF FailAll
<1>2. nextInstance' = nextInstance /\ approved' = approved
  BY DEF FailAll
<1>3. ASSUME NEW s \in DOMAIN records
      PROVE  /\ RecordOK(records'[s], approved[s])
             /\ Successor(records[s], records'[s])
             /\ records'[s].instance <= nextInstance
  <2>1. CASE s \in S
    <3>1. records'[s] = Failed(records[s], state, code)
      BY <2>1 DEF FailAll
    <3> QED
      BY <3>1, FailedOK DEF Successor, RegistryInv, RecordsOK
  <2>2. CASE s \notin S
    BY <2>2 DEF FailAll, Successor, RegistryInv, RecordsOK
  <2> QED
    BY <2>1, <2>2
<1> QED
  BY <1>1, <1>2, <1>3 DEF RegistryInv, Typed, RecordsOK, RegistryStep, Evolves

LEMMA KeptIncluded ==
  ASSUME NEW K \in Kept
  PROVE  K \subseteq DOMAIN records
BY DEF Kept, Retained

\* begin_verified_incoming, begin_outgoing: the new record has the next
\* instance, no scopes and no grant; pruning only removes.
LEMMA BeginStep ==
  ASSUME RegistryInv, NEW s \in Sessions, NEW req \in Requests, Begin(s, req)
  PROVE  RegistryStep
<1>1. PICK K \in Kept :
        LET left == [t \in K |-> records[t]]
        IN  /\ now < req.expires
            /\ IF s \notin K /\ Cardinality(K) < RecordLimit /\ HasRoom(left, req)
               THEN /\ nextInstance < MaxInstances
                    /\ records' = [t \in K \cup {s} |->
                                    IF t = s THEN NewRecord(req) ELSE records[t]]
                    /\ nextInstance' = nextInstance + 1
                    /\ approved' = [approved EXCEPT ![s] = {}]
               ELSE /\ Prune(K)
                    /\ UNCHANGED <<nextInstance, approved>>
  BY DEF Begin
<1>2. K \subseteq DOMAIN records
  BY KeptIncluded
<1>3. MaxInstances \in Nat
  BY LimitsAssumption
<1>4. CASE /\ s \notin K
           /\ nextInstance < MaxInstances
           /\ records' = [t \in K \cup {s} |->
                            IF t = s THEN NewRecord(req) ELSE records[t]]
           /\ nextInstance' = nextInstance + 1
           /\ approved' = [approved EXCEPT ![s] = {}]
  <2>1. nextInstance' \in 0..MaxInstances
    BY <1>3, <1>4 DEF RegistryInv, Typed
  <2>2. approved' \in [Sessions -> SUBSET Scopes] /\ approved'[s] = {}
    BY <1>4 DEF RegistryInv, Typed
  <2>3. RecordOK(NewRecord(req), {})
    <3>1. req \in IncomingRequest \cup OutgoingRequest
      BY RequestsAssumption
    <3>2. NewRecord(req) \in Record
      BY <1>3, <1>4, <3>1 DEF NewRecord, Record, RegistryInv, Typed, Pending
    <3>3. /\ NewRecord(req).granted = {} /\ NewRecord(req).grant = None
          /\ NewRecord(req).auth # "Granted"
      BY DEF NewRecord
    <3> QED
      BY <3>2, <3>3 DEF RecordOK
  <2>4. NewRecord(req).instance = nextInstance + 1
    BY DEF NewRecord
  <2>5. ASSUME NEW t \in DOMAIN records'
        PROVE  /\ RecordOK(records'[t], approved'[t])
               /\ records'[t].instance <= nextInstance'
               /\ \/ t \in DOMAIN records /\ Successor(records[t], records'[t])
                  \/ records'[t].instance = nextInstance + 1
    <3>1. CASE t = s
      <4>1. records'[t] = NewRecord(req)
        BY <1>4, <3>1
      <4> QED
        BY <1>4, <2>1, <2>2, <2>3, <2>4, <3>1, <4>1 DEF RegistryInv, Typed
    <3>2. CASE t # s
      <4>1. t \in DOMAIN records /\ records'[t] = records[t] /\ t \in Sessions
        BY <1>2, <1>4, <3>2 DEF RegistryInv, RecordsOK
      <4>2. approved'[t] = approved[t]
        BY <1>4, <3>2, <4>1 DEF RegistryInv, Typed
      <4>3. RecordOK(records[t], approved[t]) /\ records[t].instance <= nextInstance
        BY <4>1 DEF RegistryInv, RecordsOK
      <4>4. records[t].instance \in Nat
        BY <1>3, <4>3 DEF RecordOK, Record
      <4> QED
        BY <1>4, <4>1, <4>2, <4>3, <4>4 DEF Successor, RegistryInv, Typed
    <3> QED
      BY <3>1, <3>2
  <2> QED
    BY <1>2, <1>4, <2>1, <2>2, <2>5 DEF RegistryStep, RegistryInv, RecordsOK, Evolves
<1>5. CASE Prune(K) /\ UNCHANGED <<nextInstance, approved>>
  <2>1. \A t \in DOMAIN records' : t \in DOMAIN records /\ records'[t] = records[t]
    BY <1>2, <1>5 DEF Prune
  <2>2. records' = [t \in DOMAIN records' |-> records'[t]]
    BY <1>5 DEF Prune
  <2> QED
    BY <1>5, <2>1, <2>2 DEF RegistryStep, RegistryInv, Typed, RecordsOK, Evolves, Successor
<1> QED
  BY <1>1, <1>4, <1>5

-----------------------------------------------------------------------------
(* The operations on one record. *)

\* The facts about the record an operation changes.
LEMMA RecordFacts ==
  ASSUME RegistryInv, NEW s \in DOMAIN records
  PROVE  /\ s \in Sessions
         /\ RecordOK(records[s], approved[s])
         /\ records[s] \in Record
         /\ now \in Nat
         /\ approved[s] \in SUBSET Scopes
BY DEF RegistryInv, Typed, RecordsOK, RecordOK

LEMMA BindKeyStep ==
  ASSUME RegistryInv, NEW s, NEW key \in Keys, BindKey(s, key)
  PROVE  RegistryStep
<1> DEFINE r == records[s]
           n == [r EXCEPT !.boundKey = key, !.updated = now]
<1>1. s \in DOMAIN records /\ Set(s, n) /\ UNCHANGED <<nextInstance, approved>>
  BY DEF BindKey
<1>2. RecordOK(n, approved[s]) /\ Successor(r, n)
  BY <1>1, RecordFacts, ZenonT(60) DEF RecordOK, Record, Successor
<1> QED
  BY <1>1, <1>2, SetStepSame

LEMMA BindOutgoingStep ==
  ASSUME RegistryInv, NEW s, NEW device, NEW key \in Keys, BindOutgoing(s, device, key)
  PROVE  RegistryStep
<1> DEFINE r == records[s]
           q == [r.request EXCEPT !.key = key]
           n == [r EXCEPT !.request = q, !.boundKey = key, !.updated = now]
<1>1. s \in DOMAIN records /\ UNCHANGED <<nextInstance, approved>>
  BY DEF BindOutgoing
<1>2. r \in Record /\ r.request \in OutgoingRequest
  BY <1>1, RecordFacts DEF BindOutgoing, MayBindOutgoing, Record, IncomingRequest
<1>3. Set(s, n)
  BY <1>2 DEF BindOutgoing, Set, Record
<1>4. /\ q \in OutgoingRequest
      /\ q.role = r.request.role /\ q.requested = r.request.requested
      /\ q.ceiling = r.request.ceiling
  BY <1>2 DEF OutgoingRequest
<1> HIDE DEF q
<1>5. RecordOK(n, approved[s]) /\ Successor(r, n)
  BY <1>1, <1>2, <1>4, RecordFacts, ZenonT(60) DEF RecordOK, Record, Successor, Effective
<1> QED
  BY <1>1, <1>3, <1>5, SetStepSame

\* A request that ends undecided had no scopes and no lease.
LEMMA EndUndecided ==
  ASSUME RegistryInv, NEW s \in DOMAIN records,
         records[s].auth = "AwaitingLocalConsent",
         NEW state \in Terminal, NEW code \in Codes,
         Set(s, [records[s] EXCEPT !.auth = state, !.updated = now, !.failure = code]),
         UNCHANGED <<nextInstance, approved>>
  PROVE  RegistryStep
<1> DEFINE r == records[s]
           n == [r EXCEPT !.auth = state, !.updated = now, !.failure = code]
<1>1. n \in Record
  BY RecordFacts, ZenonT(60) DEF Record
<1>2. /\ n.auth = state /\ n.grant = r.grant /\ n.granted = r.granted
      /\ n.request = r.request /\ n.instance = r.instance /\ n.cancelled = r.cancelled
  BY RecordFacts DEF Record
<1>3. state # "Granted" /\ r.auth \notin {"Authorizing", "Granted"}
  BY DEF Terminal
<1>4. r.granted = {} /\ r.grant = None
  BY <1>3, RecordFacts DEF RecordOK
<1>5. RecordOK(n, approved[s]) /\ Successor(r, n)
  BY <1>1, <1>2, <1>3, <1>4 DEF RecordOK, Successor
<1> QED
  BY <1>5, SetStepSame

LEMMA ConsentTooLateStep ==
  ASSUME RegistryInv, NEW s, ConsentTooLate(s)
  PROVE  RegistryStep
<1>1. "Expired" \in Terminal /\ "AuthorizationTimeout" \in Codes
  BY DEF Terminal, Codes, DenialCodes
<1> QED
  BY <1>1, EndUndecided DEF ConsentTooLate

LEMMA DenyStep ==
  ASSUME RegistryInv, NEW s, Deny(s)
  PROVE  RegistryStep
<1>1. "Denied" \in Terminal /\ "ConsentDenied" \in Codes
  BY DEF Terminal, Codes, DenialCodes
<1> QED
  BY <1>1, EndUndecided DEF Deny

LEMMA ExpirePendingStep ==
  ASSUME RegistryInv, NEW s, ExpirePending(s)
  PROVE  RegistryStep
<1> DEFINE r == records[s]
<1>1. "Expired" \in Terminal /\ "AuthorizationTimeout" \in Codes
  BY DEF Terminal, Codes, DenialCodes
<1>2. /\ s \in DOMAIN records /\ r.auth = "AwaitingLocalConsent"
      /\ Set(s, [r EXCEPT !.auth = "Expired", !.updated = now,
                          !.failure = "AuthorizationTimeout", !.granted = {}])
      /\ UNCHANGED <<nextInstance, approved>>
  BY DEF ExpirePending
<1>3. r \in Record /\ r.granted = {}
  BY <1>2, RecordFacts DEF RecordOK
<1>4. [r EXCEPT !.auth = "Expired", !.updated = now,
                !.failure = "AuthorizationTimeout", !.granted = {}]
      = [r EXCEPT !.auth = "Expired", !.updated = now, !.failure = "AuthorizationTimeout"]
  BY <1>3 DEF Record
<1> QED
  BY <1>1, <1>2, <1>4, EndUndecided

\* The user's approval becomes the record's: nothing beyond it is kept.
LEMMA ApproveStep ==
  ASSUME RegistryInv, NEW s, NEW scopes \in SUBSET Scopes, Approve(s, scopes)
  PROVE  RegistryStep
<1> DEFINE r == records[s]
           e == Effective(r.request, scopes)
           n == [r EXCEPT !.auth = "Authorizing", !.updated = now, !.granted = e]
<1>1. /\ s \in DOMAIN records /\ r.auth = "AwaitingLocalConsent"
      /\ Set(s, n) /\ approved' = [approved EXCEPT ![s] = scopes]
      /\ nextInstance' = nextInstance
  BY DEF Approve
<1>2. e \subseteq scopes /\ e \subseteq Scopes /\ e \subseteq Effective(r.request, Scopes)
  BY DEF Effective
<1> HIDE DEF e
<1>3. RecordOK(n, scopes) /\ Successor(r, n)
  BY <1>1, <1>2, RecordFacts, ZenonT(60) DEF RecordOK, Record, Successor, Pending
<1> QED
  BY <1>1, <1>3, SetStep

\* The same for the unattended policy.
LEMMA VerifyCommitStep ==
  ASSUME RegistryInv, NEW s, NEW ceiling \in SUBSET Scopes, VerifyCommit(s, ceiling)
  PROVE  RegistryStep
<1> DEFINE r == records[s]
           e == Effective(r.request, ceiling)
           v == unattended.revision
           n == [r EXCEPT !.auth = "Authorizing", !.updated = now, !.granted = e,
                          !.revision = v]
<1>1. /\ s \in DOMAIN records /\ r.auth = "VerifyingUnattendedCredential"
      /\ Set(s, n) /\ approved' = [approved EXCEPT ![s] = ceiling]
      /\ nextInstance' = nextInstance
  BY DEF VerifyCommit, Verifiable
<1>2. e \subseteq ceiling /\ e \subseteq Scopes /\ e \subseteq Effective(r.request, Scopes)
  BY DEF Effective
<1>3. v \in Nat
  BY DEF RegistryInv, Typed
<1> HIDE DEF e, v
<1>4. RecordOK(n, ceiling) /\ Successor(r, n)
  BY <1>1, <1>2, <1>3, RecordFacts, ZenonT(60) DEF RecordOK, Record, Successor, Pending
<1> QED
  BY <1>1, <1>4, SetStep

\* A grant holds what the record was authorized for; on the controller, what
\* it asked for under its ceilings.
LEMMA InstallGrantStep ==
  ASSUME RegistryInv, NEW s, NEW g \in Grants, NEW rev, InstallGrant(s, g, rev)
  PROVE  RegistryStep
<1> DEFINE r == records[s]
           n == [r EXCEPT !.auth = "Granted", !.grant = g, !.granted = g.scopes,
                          !.revision = g.revision, !.route = "Connecting",
                          !.updated = now]
<1>1. /\ s \in DOMAIN records /\ r.auth = "Authorizing"
      /\ Set(s, n) /\ UNCHANGED <<nextInstance, approved>>
  BY DEF InstallGrant
<1>2. /\ g.scopes \in SUBSET Scopes /\ g.revision \in Nat /\ g # None
  BY NoneAssumption DEF Grants
<1>3. /\ g.scopes \subseteq Effective(r.request, Scopes)
      /\ r.request.role = "Agent" => g.scopes \subseteq approved[s]
  <2>1. r.granted \subseteq Effective(r.request, Scopes)
        /\ (r.request.role = "Agent" => r.granted \subseteq approved[s])
    BY <1>1, RecordFacts DEF RecordOK
  <2>2. CASE r.request.role = "Controller"
    BY <2>2 DEF InstallGrant, ScopesBound
  <2>3. CASE r.request.role # "Controller"
    BY <2>1, <2>3 DEF InstallGrant, ScopesBound
  <2> QED
    BY <2>2, <2>3
<1>4. n \in Record
  BY <1>1, <1>2, RecordFacts, ZenonT(60) DEF Record
<1>5. /\ n.auth = "Granted" /\ n.grant = g /\ n.granted = g.scopes
      /\ n.request = r.request /\ n.instance = r.instance /\ n.cancelled = r.cancelled
  BY <1>1, RecordFacts DEF Record
<1>6. RecordOK(n, approved[s]) /\ Successor(r, n)
  BY <1>1, <1>2, <1>3, <1>4, <1>5 DEF RecordOK, Successor
<1> QED
  BY <1>1, <1>6, SetStepSame

LEMMA MarkStreamingStep ==
  ASSUME RegistryInv, NEW s, MarkStreaming(s)
  PROVE  RegistryStep
<1> DEFINE r == records[s]
           n == [r EXCEPT !.route = "Connected", !.media = "Streaming", !.updated = now]
<1>1. s \in DOMAIN records /\ Set(s, n) /\ UNCHANGED <<nextInstance, approved>>
  BY DEF MarkStreaming
<1>2. RecordOK(n, approved[s]) /\ Successor(r, n)
  BY <1>1, RecordFacts, ZenonT(60) DEF RecordOK, Record, Successor
<1> QED
  BY <1>1, <1>2, SetStepSame

LEMMA ExpireGrantStep ==
  ASSUME RegistryInv, NEW s, ExpireGrant(s)
  PROVE  RegistryStep
BY TransitionFailureStep DEF ExpireGrant, Terminal, Codes, CleanCodes

-----------------------------------------------------------------------------
(* The specification. *)

\* A registry step ends the leases of the records it ends or replaces: no
\* lease has an instance that is still to be handed out.
LEMMA LeasesFollow ==
  ASSUME RegistryInv, LeasesOK, RegistryStep, NEW l \in leases
  PROVE  LeaseOK(l)'
<1>1. LeaseOK(l)
  BY DEF LeasesOK
<1>2. nextInstance \in Nat /\ nextInstance' \in {nextInstance, nextInstance + 1}
  BY DEF RegistryInv, Typed, RegistryStep, Evolves
<1>3. l.instance \in Nat /\ l.instance <= nextInstance' /\ l.instance # nextInstance + 1
  BY <1>1, <1>2 DEF LeaseOK
<1>4. ASSUME l.session \in DOMAIN records', records'[l.session].instance = l.instance,
             ~records'[l.session].cancelled
      PROVE  /\ records'[l.session].auth = "Granted"
             /\ l.scope \in records'[l.session].grant.scopes
  <2>1. l.session \in DOMAIN records /\ Successor(records[l.session], records'[l.session])
    BY <1>3, <1>4 DEF RegistryStep, Evolves
  <2> QED
    BY <1>1, <1>4, <2>1 DEF Successor, LeaseOK
<1> QED
  BY <1>3, <1>4 DEF LeaseOK

LEMMA InitInv == Init => AuthorizationInv
<1> SUFFICES ASSUME Init PROVE AuthorizationInv
  OBVIOUS
<1>1. Typed
  BY LimitsAssumption DEF Init, Typed
<1>2. records = [s \in {} |-> None] /\ DOMAIN records = {}
  BY DEF Init
<1>3. RecordsOK
  BY <1>2 DEF RecordsOK
<1> QED
  BY <1>1, <1>3 DEF Init, AuthorizationInv, RegistryInv, LeasesOK, MaterialHeld

\* Every operation on the records, whoever takes it.
LEMMA StepIsRegistryStep ==
  ASSUME RegistryInv, NEW s \in Sessions, Step(s)
  PROVE  RegistryStep
<1>1. CASE \E req \in Requests : Begin(s, req)
  BY <1>1, BeginStep
<1>2. CASE \E key \in Keys : BindKey(s, key)
  BY <1>2, BindKeyStep
<1>3. CASE \E device \in Keys, key \in Keys : BindOutgoing(s, device, key)
  BY <1>3, BindOutgoingStep
<1>4. CASE \E scopes \in SUBSET Scopes : Approve(s, scopes)
  BY <1>4, ApproveStep
<1>5. CASE Deny(s) \/ ConsentTooLate(s) \/ ExpirePending(s)
  BY <1>5, DenyStep, ConsentTooLateStep, ExpirePendingStep
<1>6. CASE \E g \in NextGrant, rev \in {None} \cup 1..MaxRevision : InstallGrant(s, g, rev)
  <2>1. NextGrant \subseteq Grants
    BY LimitsAssumption DEF NextGrant, Grants, Time
  <2> QED
    BY <1>6, <2>1, InstallGrantStep
<1>7. CASE MarkStreaming(s) \/ ExpireGrant(s)
  BY <1>7, MarkStreamingStep, ExpireGrantStep
<1>8. CASE \E f \in Failures : TransitionFailure(s, f[1], f[2])
  BY <1>8, FailuresAssumption, TransitionFailureStep
<1> QED
  BY <1>1, <1>2, <1>3, <1>4, <1>5, <1>6, <1>7, <1>8 DEF Step

LEMMA RevokePeerStep ==
  ASSUME RegistryInv, NEW key, RevokePeer(key)
  PROVE  RegistryStep
<1>1. "Revoked" \in Terminal /\ "GrantRevoked" \in Codes
  BY DEF Terminal, Codes, CleanCodes
<1> QED
  BY <1>1, FailAllStep DEF RevokePeer

LEMMA RevokeUnattendedStep ==
  ASSUME RegistryInv, RevokeUnattended
  PROVE  RegistryStep
<1>1. "PolicyChanged" \in Terminal /\ "GrantRevoked" \in Codes
  BY DEF Terminal, Codes, CleanCodes
<1> QED
  BY <1>1, FailAllStep DEF RevokeUnattended

\* A registry step with the rest unchanged.
LEMMA RegistryStepInv ==
  ASSUME AuthorizationInv, RegistryStep, UNCHANGED <<now, unattended, leases>>,
         MaterialHeld'
  PROVE  AuthorizationInv'
<1>1. RegistryInv'
  BY DEF AuthorizationInv, RegistryInv, Typed, RegistryStep
<1>2. LeasesOK'
  BY LeasesFollow DEF AuthorizationInv, LeasesOK
<1> QED
  BY <1>1, <1>2 DEF AuthorizationInv

\* The registry does not change.
LEMMA RegistryKept ==
  ASSUME AuthorizationInv, UNCHANGED registry, now' \in Nat,
         unattended' \in [enabled: BOOLEAN, epoch: Nat, revision: Nat]
  PROVE  RegistryInv' /\ \A l \in leases : LeaseOK(l)'
BY DEF AuthorizationInv, RegistryInv, Typed, RecordsOK, LeasesOK, LeaseOK, registry

\* A lease is taken from a granted record.
LEMMA LeasingStep ==
  ASSUME AuthorizationInv, Leasing, UNCHANGED <<now, unattended, verifying>>
  PROVE  AuthorizationInv'
<1>1. UNCHANGED registry
  BY DEF Leasing, AcquireLease, ReleaseLease
<1>2. RegistryInv' /\ \A l \in leases : LeaseOK(l)'
  BY <1>1, RegistryKept DEF AuthorizationInv, RegistryInv, Typed
<1>3. ASSUME NEW s \in Sessions, NEW scope \in Scopes, AcquireLease(s, scope)
      PROVE  LeasesOK'
  <2>0. PICK new : new = [session |-> s, instance |-> records[s].instance,
                          scope |-> scope, expires |-> records[s].grant.expires]
    OBVIOUS
  <2>1. /\ s \in DOMAIN records /\ records[s].auth = "Granted"
        /\ scope \in records[s].grant.scopes /\ leases' = leases \cup {new}
    BY <1>3, <2>0 DEF AcquireLease
  <2>2. records[s].instance \in Nat /\ records[s].instance <= nextInstance
    <3>1. RecordOK(records[s], approved[s]) /\ records[s].instance <= nextInstance
      BY <2>1 DEF AuthorizationInv, RegistryInv, RecordsOK
    <3>2. MaxInstances \in Nat
      BY LimitsAssumption
    <3> QED
      BY <3>1, <3>2 DEF RecordOK, Record
  <2>3. LeaseOK(new)'
    BY <1>1, <2>0, <2>1, <2>2 DEF LeaseOK, registry
  <2> QED
    BY <1>2, <2>1, <2>3 DEF LeasesOK
<1>4. ASSUME NEW l \in leases, ReleaseLease(l)
      PROVE  LeasesOK'
  BY <1>2, <1>4 DEF ReleaseLease, LeasesOK
<1>5. MaterialHeld'
  BY DEF AuthorizationInv, MaterialHeld
<1> QED
  BY <1>2, <1>3, <1>4, <1>5 DEF Leasing, AuthorizationInv

LEMMA NextInv ==
  ASSUME AuthorizationInv, [Next]_vars
  PROVE  AuthorizationInv'
<1>1. CASE (\E s \in Sessions : Step(s)) /\ UNCHANGED <<now, unattended, verifying, leases>>
  <2>1. RegistryStep
    BY <1>1, StepIsRegistryStep DEF AuthorizationInv
  <2>2. MaterialHeld'
    BY <1>1 DEF AuthorizationInv, MaterialHeld
  <2> QED
    BY <1>1, <2>1, <2>2, RegistryStepInv
<1>2. CASE Revoke /\ UNCHANGED <<now, unattended, verifying, leases>>
  <2>1. RegistryStep
    BY <1>2, RevokePeerStep, RevokeUnattendedStep DEF AuthorizationInv, Revoke
  <2>2. MaterialHeld'
    BY <1>2 DEF AuthorizationInv, MaterialHeld
  <2> QED
    BY <1>2, <2>1, <2>2, RegistryStepInv
<1>3. CASE Verification /\ UNCHANGED <<now, leases>>
  <2>1. ASSUME NEW s \in Sessions, NEW epoch \in 1..MaxRevision, VerifyStart(s, epoch)
        PROVE  AuthorizationInv'
    <3>1. MaterialHeld' /\ UNCHANGED <<unattended, registry>>
      BY <2>1 DEF VerifyStart, MaterialHeld
    <3> QED
      BY <1>3, <3>1, RegistryKept DEF AuthorizationInv, RegistryInv, Typed, LeasesOK
  <2>2. ASSUME NEW s \in Sessions, NEW ceiling \in SUBSET Scopes, VerifyCommit(s, ceiling)
        PROVE  AuthorizationInv'
    <3>1. RegistryStep
      BY <2>2, VerifyCommitStep DEF AuthorizationInv
    <3>2. MaterialHeld' /\ UNCHANGED unattended
      BY <2>2 DEF VerifyCommit, MaterialHeld
    <3> QED
      BY <1>3, <3>1, <3>2, RegistryStepInv
  <2>3. ASSUME NEW s \in Sessions, VerifyRefused(s)
        PROVE  AuthorizationInv'
    <3>1. MaterialHeld' /\ UNCHANGED <<unattended, registry>>
      BY <2>3 DEF VerifyRefused, MaterialHeld
    <3> QED
      BY <1>3, <3>1, RegistryKept DEF AuthorizationInv, RegistryInv, Typed, LeasesOK
  <2> QED
    BY <1>3, <2>1, <2>2, <2>3 DEF Verification
<1>4. CASE Material /\ UNCHANGED <<now, leases>>
  <2>1. /\ verifying = None /\ UNCHANGED <<registry, verifying>>
        /\ \E b \in BOOLEAN : Renewed(b)
    BY <1>4 DEF Material, EnableUnattended, RotateUnattended, DisableUnattended,
                MaterialFree
  <2>2. unattended' \in [enabled: BOOLEAN, epoch: Nat, revision: Nat]
    BY <2>1 DEF Renewed, AuthorizationInv, RegistryInv, Typed
  <2>3. MaterialHeld'
    BY <2>1 DEF MaterialHeld
  <2> QED
    BY <1>4, <2>1, <2>2, <2>3, RegistryKept DEF AuthorizationInv, RegistryInv, Typed, LeasesOK
<1>5. CASE Leasing /\ UNCHANGED <<now, unattended, verifying>>
  BY <1>5, LeasingStep
<1>6. CASE Tick
  BY <1>6, RegistryKept
     DEF Tick, AuthorizationInv, RegistryInv, Typed, LeasesOK, MaterialHeld
<1>7. CASE UNCHANGED vars
  BY <1>7, RegistryKept
     DEF vars, AuthorizationInv, RegistryInv, Typed, LeasesOK, MaterialHeld
<1> QED
  BY <1>1, <1>2, <1>3, <1>4, <1>5, <1>6, <1>7 DEF Next

\* The inductive invariant: every record is well formed and within its
\* approval, every lease hangs on the record it was taken from, and the
\* material of a verification under way is the current one.
THEOREM RegistryInvariant == Spec => []AuthorizationInv
<1>1. AuthorizationInv /\ [Next]_vars => AuthorizationInv'
  BY NextInv
<1> QED
  BY <1>1, InitInv, PTL DEF Spec

LEMMA WithinApproval == AuthorizationInv => GrantWithinApproval
<1> SUFFICES ASSUME AuthorizationInv, NEW s \in DOMAIN records
             PROVE  /\ records[s].granted \subseteq Effective(records[s].request, Scopes)
                    /\ records[s].request.role = "Agent"
                          => records[s].granted \subseteq approved[s]
                    /\ records[s].auth = "Granted" <=> records[s].grant # None
                    /\ records[s].auth = "Granted"
                          => records[s].grant.scopes = records[s].granted
                    /\ IsTerminal(records[s]) => records[s].granted = {}
  BY DEF GrantWithinApproval
<1>1. RecordOK(records[s], approved[s])
  BY DEF AuthorizationInv, RegistryInv, RecordsOK
<1>2. IsTerminal(records[s]) => records[s].auth \notin {"Authorizing", "Granted"}
  BY DEF IsTerminal, Terminal
<1> QED
  BY <1>1, <1>2 DEF RecordOK

\* What a session may do was requested, lies under every ceiling and was
\* approved for this very record (respond_to_consent_with_audit,
\* verify_unattended, install_verified_grant_inner); an ended record has
\* nothing left (transition_failure_locked).
THEOREM GrantsStayWithinApproval == Spec => []GrantWithinApproval
BY WithinApproval, RegistryInvariant, PTL

\* wait_until_invalid: an operation whose lease is still valid has a grant
\* with its scope, whatever ended, pruned or replaced the record meanwhile.
THEOREM LeasesEndWithGrants == Spec => []LeaseEndsWithGrant
<1>1. AuthorizationInv => LeaseEndsWithGrant
  BY DEF AuthorizationInv, LeasesOK, LeaseOK, LeaseEndsWithGrant, LeaseValid
<1> QED
  BY <1>1, RegistryInvariant, PTL

-----------------------------------------------------------------------------
(* Verification. *)

\* No record leaves its verification with an authorization.
NoneVerified ==
    \A s \in DOMAIN records \cap DOMAIN records' :
        ~(/\ records[s].auth = "VerifyingUnattendedCredential"
          /\ records'[s].auth = "Authorizing")

LEMMA SetVerifiesNone ==
  ASSUME RegistryInv, NEW s \in DOMAIN records, NEW r, Set(s, r),
         r.auth = "Authorizing" => records[s].auth # "VerifyingUnattendedCredential"
  PROVE  NoneVerified
<1>1. records'[s] = r /\ \A t \in DOMAIN records : t # s => records'[t] = records[t]
  BY DEF RegistryInv, RecordsOK, Set
<1> QED
  BY <1>1 DEF NoneVerified

LEMMA FailVerifiesNone ==
  ASSUME RegistryInv, NEW s, NEW state \in Terminal, NEW code \in Codes,
         TransitionFailure(s, state, code)
  PROVE  NoneVerified
<1>1. s \in DOMAIN records /\ Set(s, Failed(records[s], state, code))
  BY DEF TransitionFailure
<1>2. Failed(records[s], state, code).auth # "Authorizing"
  BY <1>1, FailedOK DEF IsTerminal, Terminal
<1> QED
  BY <1>1, <1>2, SetVerifiesNone

LEMMA FailAllVerifiesNone ==
  ASSUME RegistryInv, NEW S, NEW state \in Terminal, NEW code \in Codes,
         FailAll(S, state, code)
  PROVE  NoneVerified
<1> SUFFICES ASSUME NEW s \in DOMAIN records
             PROVE  ~(/\ records[s].auth = "VerifyingUnattendedCredential"
                      /\ records'[s].auth = "Authorizing")
  BY DEF NoneVerified
<1>1. Failed(records[s], state, code).auth # "Authorizing"
  BY FailedOK DEF IsTerminal, Terminal
<1> QED
  BY <1>1 DEF FailAll

\* A record that takes the place of another takes that of an ended one.
LEMMA BeginVerifiesNone ==
  ASSUME RegistryInv, NEW s, NEW req, Begin(s, req)
  PROVE  NoneVerified
<1>1. PICK K \in Kept :
        \/ /\ s \notin K
           /\ records' = [t \in K \cup {s} |->
                            IF t = s THEN NewRecord(req) ELSE records[t]]
        \/ records' = [t \in K |-> records[t]]
  BY DEF Begin, Prune
<1>2. \A t \in DOMAIN records : t \notin K => IsTerminal(records[t])
  BY DEF Kept, Retained, OldestTerminal
<1>3. \A t \in DOMAIN records : IsTerminal(records[t])
        => records[t].auth # "VerifyingUnattendedCredential"
  BY DEF IsTerminal, Terminal
<1> QED
  BY <1>1, <1>2, <1>3 DEF NoneVerified

LEMMA StepVerifiesNone ==
  ASSUME RegistryInv, NEW s \in Sessions, Step(s)
  PROVE  NoneVerified
<1>1. CASE \E req \in Requests : Begin(s, req)
  BY <1>1, BeginVerifiesNone
<1>2. CASE \E key \in Keys : BindKey(s, key)
  <2>1. PICK key \in Keys : BindKey(s, key)
    BY <1>2
  <2>2. s \in DOMAIN records
    BY <2>1 DEF BindKey
  <2>3. [records[s] EXCEPT !.boundKey = key, !.updated = now].auth = records[s].auth
    BY <2>2, RecordFacts DEF Record
  <2> QED
    BY <2>1, <2>2, <2>3, SetVerifiesNone DEF BindKey
<1>3. CASE \E device \in Keys, key \in Keys : BindOutgoing(s, device, key)
  BY <1>3, SetVerifiesNone DEF BindOutgoing, MayBindOutgoing
<1>4. CASE \E scopes \in SUBSET Scopes : Approve(s, scopes)
  BY <1>4, SetVerifiesNone DEF Approve
<1>5. CASE Deny(s) \/ ConsentTooLate(s) \/ ExpirePending(s)
  BY <1>5, SetVerifiesNone DEF Deny, ConsentTooLate, ExpirePending
<1>6. CASE \E g \in NextGrant, rev \in {None} \cup 1..MaxRevision : InstallGrant(s, g, rev)
  BY <1>6, SetVerifiesNone DEF InstallGrant
<1>7. CASE MarkStreaming(s)
  BY <1>7, SetVerifiesNone, RecordFacts DEF MarkStreaming, Record
<1>8. CASE ExpireGrant(s)
  BY <1>8, FailVerifiesNone DEF ExpireGrant, Terminal, Codes, CleanCodes
<1>9. CASE \E f \in Failures : TransitionFailure(s, f[1], f[2])
  BY <1>9, FailuresAssumption, FailVerifiesNone
<1> QED
  BY <1>1, <1>2, <1>3, <1>4, <1>5, <1>6, <1>7, <1>8, <1>9 DEF Step

\* verify_unattended: whoever is authorized without a user presented a proof
\* for the material that is in force in that very step.
THEOREM VerifiedAgainstCurrentMaterial == Spec => NoStaleMaterial
<1> DEFINE Fresh == \A s \in DOMAIN records \cap DOMAIN records' :
                        /\ records[s].auth = "VerifyingUnattendedCredential"
                        /\ records'[s].auth = "Authorizing"
                        => unattended.enabled /\ verifying.epoch = unattended.epoch
<1>1. AuthorizationInv /\ [Next]_vars => [Fresh]_vars
  <2> SUFFICES ASSUME AuthorizationInv, Next PROVE Fresh
    OBVIOUS
  <2>0. NoneVerified => Fresh
    BY DEF NoneVerified
  <2>1. CASE \E s \in Sessions : Step(s)
    BY <2>0, <2>1, StepVerifiesNone DEF AuthorizationInv
  <2>2. CASE Revoke
    <3>1. "Revoked" \in Terminal /\ "PolicyChanged" \in Terminal /\ "GrantRevoked" \in Codes
      BY DEF Terminal, Codes, CleanCodes
    <3>2. \E S : FailAll(S, "Revoked", "GrantRevoked") \/ FailAll(S, "PolicyChanged", "GrantRevoked")
      BY <2>2 DEF Revoke, RevokePeer, RevokeUnattended
    <3> QED
      BY <2>0, <3>1, <3>2, FailAllVerifiesNone DEF AuthorizationInv
  <2>3. CASE Verification
    <3>1. CASE verifying # None
      BY <3>1 DEF AuthorizationInv, MaterialHeld
    <3>2. CASE verifying = None
      BY <2>3, <3>2 DEF Verification, VerifyStart, VerifyCommit, VerifyRefused, registry
    <3> QED
      BY <3>1, <3>2
  <2>4. CASE UNCHANGED registry
    BY <2>4 DEF registry
  <2> QED
    BY <2>1, <2>2, <2>3, <2>4
       DEF Next, Material, Leasing, AcquireLease, ReleaseLease, Tick
<1> QED
  BY <1>1, RegistryInvariant, PTL DEF Spec, NoStaleMaterial

-----------------------------------------------------------------------------
(* The history of events and the user interfaces that page through it.     *)

\* A set of natural numbers has a least one: what stands for induction here.
LEMMA Least ==
  ASSUME NEW S \in SUBSET Nat, S # {}
  PROVE  \E m \in S : \A k \in S : m <= k
<1> DEFINE T == {1..k : k \in S}
<1>1. IsWellFoundedOn(StrictSubsetOrdering(Nat), FiniteSubsetsOf(Nat))
  BY FS_StrictSubsetOrderingWellFounded
<1>2. T \subseteq FiniteSubsetsOf(Nat)
  <2> SUFFICES ASSUME NEW k \in S PROVE 1..k \in FiniteSubsetsOf(Nat)
    OBVIOUS
  <2>1. 1 \in Int /\ k \in Int
    OBVIOUS
  <2>2. IsFiniteSet(1..k)
    BY <2>1, FS_Interval
  <2>3. 1..k \subseteq Nat
    OBVIOUS
  <2> QED
    BY <2>2, <2>3 DEF FiniteSubsetsOf
<1>3. T # {}
  OBVIOUS
<1>4. PICK x \in T : \A y \in T : ~ (<<y, x>> \in StrictSubsetOrdering(Nat))
  <2> HIDE DEF T
  <2> QED
    BY <1>1, <1>2, <1>3, WFMin
<1>5. PICK m \in S : x = 1..m
  OBVIOUS
<1>6. ASSUME NEW k \in S, ~(m <= k)
      PROVE  FALSE
  <2>1. m \in 1..m /\ m \notin 1..k
    BY <1>6
  <2>2. 1..k \in T /\ 1..k \subseteq 1..m /\ 1..k # 1..m
    BY <1>6, <2>1
  <2>3. <<1..k, 1..m>> \in StrictSubsetOrdering(Nat)
    BY <2>2 DEF StrictSubsetOrdering
  <2> QED
    BY <1>4, <1>5, <2>2, <2>3
<1> QED
  BY <1>6

\* A set of natural numbers with a bound has a greatest one.
LEMMA Greatest ==
  ASSUME NEW S \in SUBSET Nat, S # {}, NEW b \in Nat, \A k \in S : k <= b
  PROVE  \E m \in S : \A k \in S : k <= m
<1> DEFINE U == {u \in Nat : \A k \in S : k <= u}
<1>1. U \in SUBSET Nat /\ b \in U
  OBVIOUS
<1>2. PICK m \in U : \A u \in U : m <= u
  <2> HIDE DEF U
  <2> QED
    BY <1>1, Least
<1>3. \A k \in S : k <= m
  OBVIOUS
<1>4. ASSUME m \notin S
      PROVE  FALSE
  <2>1. \A k \in S : k <= m - 1
    BY <1>3, <1>4
  <2>2. PICK k \in S : k <= m - 1
    BY <2>1
  <2>3. m - 1 \in Nat
    BY <2>2
  <2>4. m - 1 \in U
    BY <2>1, <2>3
  <2> QED
    BY <1>2, <2>4
<1> QED
  BY <1>3, <1>4

\* FlattenSeq of sequences over D is a sequence over D. Its recursive
\* function exists, because there is no shortest prefix it is missing for.
LEMMA FlattenExists ==
  ASSUME NEW D, NEW s \in Seq(Seq(D)), Len(s) > 0
  PROVE  \E f : f = [i \in 1..Len(s) |-> IF i = 1 THEN s[i] ELSE f[i-1] \o s[i]]
<1> DEFINE Is(f, n) == f = [i \in 1..n |-> IF i = 1 THEN s[i] ELSE f[i-1] \o s[i]]
           Has(n) == \E f : Is(f, n)
           Bad == {n \in 1..Len(s) : ~Has(n)}
<1>0. Len(s) \in 1..Len(s)
  OBVIOUS
<1>1. SUFFICES ASSUME Bad # {} PROVE FALSE
  <2> HIDE DEF Has
  <2>1. Has(Len(s))
    BY <1>0
  <2> QED
    BY <2>1 DEF Has
<1>2. PICK n \in Bad : \A k \in Bad : n <= k
  <2>1. Bad \in SUBSET Nat
    <3> HIDE DEF Has
    <3> QED
      BY <1>0
  <2> HIDE DEF Bad
  <2> QED
    BY <1>1, <2>1, Least
<1>3. n \in 1..Len(s) /\ ~Has(n)
  <2> HIDE DEF Has
  <2> QED
    OBVIOUS
<1>4. n # 1
  <2> SUFFICES ASSUME n = 1 PROVE Has(n)
    BY <1>3
  <2> DEFINE f == [i \in 1..1 |-> s[1]]
  <2>1. Is(f, 1)
    OBVIOUS
  <2> QED
    BY <2>1
<1>5. n - 1 \in 1..Len(s) /\ Has(n - 1)
  <2> HIDE DEF Has
  <2>1. n - 1 \in 1..Len(s)
    BY <1>0, <1>3, <1>4
  <2>2. n - 1 \notin Bad
    <3>1. ~(n <= n - 1)
      BY <1>3
    <3> HIDE DEF Bad
    <3> QED
      BY <1>2, <3>1
  <2> QED
    BY <2>1, <2>2
<1>6. PICK f : Is(f, n - 1)
  BY <1>5
<1> DEFINE g == [i \in 1..n |-> IF i < n THEN f[i] ELSE f[n-1] \o s[n]]
<1>7. \A i \in 1..n : g[i] = IF i = 1 THEN s[i] ELSE g[i-1] \o s[i]
  <2> SUFFICES ASSUME NEW i \in 1..n
               PROVE  g[i] = IF i = 1 THEN s[i] ELSE g[i-1] \o s[i]
    OBVIOUS
  <2>1. CASE i = 1
    <3>1. 1 \in 1..(n-1) /\ 1 < n
      BY <1>3, <1>4
    <3>2. f[1] = s[1]
      BY <1>6, <3>1
    <3> QED
      BY <2>1, <3>1, <3>2
  <2>2. CASE i # 1 /\ i < n
    <3>1. i \in 1..(n-1) /\ i - 1 \in 1..n /\ i - 1 < n
      BY <1>3, <2>2
    <3>2. f[i] = f[i-1] \o s[i]
      BY <1>6, <2>2, <3>1
    <3>3. g[i] = f[i] /\ g[i-1] = f[i-1]
      BY <2>2, <3>1
    <3> QED
      BY <2>2, <3>2, <3>3
  <2>3. CASE i = n
    <3>1. n - 1 \in 1..n /\ n - 1 < n
      BY <1>3, <1>4
    <3>2. g[n-1] = f[n-1]
      BY <3>1
    <3>3. n \in 1..n /\ ~(n < n)
      BY <1>3
    <3>4. g[n] = f[n-1] \o s[n]
      BY <3>3
    <3> QED
      BY <1>4, <2>3, <3>2, <3>4
  <2>4. i = 1 \/ (i # 1 /\ i < n) \/ i = n
    BY <1>3
  <2> QED
    BY <2>1, <2>2, <2>3, <2>4
<1>8. Is(g, n)
  <2> DEFINE rhs == [i \in 1..n |-> IF i = 1 THEN s[i] ELSE g[i-1] \o s[i]]
  <2>1. g = [i \in 1..n |-> g[i]]
    OBVIOUS
  <2> HIDE DEF g
  <2> QED
    BY <1>7, <2>1
<1> QED
  BY <1>3, <1>8

LEMMA FlattenIn ==
  ASSUME NEW D, NEW s \in Seq(Seq(D))
  PROVE  FlattenSeq(s) \in Seq(D)
<1>1. CASE Len(s) = 0
  <2>1. s = << >>
    BY <1>1
  <2> QED
    BY <1>1, <2>1 DEF FlattenSeq
<1>2. CASE Len(s) > 0
  <2> DEFINE f == CHOOSE f : f = [i \in 1..Len(s) |-> IF i = 1 THEN s[i] ELSE f[i-1] \o s[i]]
             Bad == {n \in 1..Len(s) : f[n] \notin Seq(D)}
  <2>1. f = [i \in 1..Len(s) |-> IF i = 1 THEN s[i] ELSE f[i-1] \o s[i]]
    BY <1>2, FlattenExists
  <2>2. FlattenSeq(s) = f[Len(s)]
    BY <1>2 DEF FlattenSeq
  <2> HIDE DEF f
  <2>3. ASSUME Bad # {} PROVE FALSE
    <3>1. Bad \in SUBSET Nat
      OBVIOUS
    <3>2. PICK n \in Bad : \A k \in Bad : n <= k
      <4> HIDE DEF Bad
      <4> QED
        BY <2>3, <3>1, Least
    <3>3. n \in 1..Len(s) /\ f[n] \notin Seq(D)
      OBVIOUS
    <3>4. CASE n = 1
      <4>1. f[1] = s[1]
        BY <2>1, <3>3, <3>4
      <4> QED
        BY <3>3, <3>4, <4>1
    <3>5. CASE n # 1
      <4>1. n - 1 \in 1..Len(s) /\ n - 1 \notin Bad
        BY <3>2, <3>3, <3>5
      <4>2. f[n-1] \in Seq(D) /\ s[n] \in Seq(D)
        BY <3>3, <4>1
      <4>3. f[n] = f[n-1] \o s[n]
        BY <2>1, <3>3, <3>5
      <4> QED
        BY <3>3, <4>2, <4>3
    <3> QED
      BY <3>4, <3>5
  <2> QED
    BY <1>2, <2>2, <2>3
<1> QED
  BY <1>1, <1>2

\* The history is the newest events, numbered without a gap.
Event == [sequence: Nat, session: Sessions, kind: EventKinds]

HistoryOK ==
    /\ nextSequence \in Nat
    /\ events \in Seq(Event)
    /\ Len(events) <= HistoryLimit
    /\ Len(events) <= nextSequence
    /\ \A i \in 1..Len(events) : events[i].sequence = nextSequence - Len(events) + i
    /\ IsFiniteSet(DOMAIN records)

New == Sessions \X EventKinds

Numbered(new, k) == [sequence |-> nextSequence + k, session |-> new[k][1], kind |-> new[k][2]]

\* push_event: place i of the new history is place i + d of the old one with
\* the new events behind it.
LEMMA PushPlaces ==
  ASSUME HistoryOK, NEW new \in Seq(New), PushAll(new)
  PROVE  \E d \in Nat :
            /\ nextSequence' = nextSequence + Len(new)
            /\ d <= Len(events) + Len(new)
            /\ d > 0 => (Len(events) + Len(new)) - d = HistoryLimit
            /\ events' \in Seq(Event)
            /\ Len(events') = (Len(events) + Len(new)) - d
            /\ Len(events') <= HistoryLimit
            /\ \A i \in 1..Len(events') :
                  /\ i + d <= Len(events) => events'[i] = events[i + d]
                  /\ i + d > Len(events) =>
                        events'[i] = Numbered(new, (i + d) - Len(events))
<1> DEFINE added == [i \in 1..Len(new) |-> Numbered(new, i)]
           all == events \o added
           drop == IF Len(all) > HistoryLimit THEN Len(all) - HistoryLimit ELSE 0
<1>0. HistoryLimit \in Nat
  BY LimitsAssumption
<1>1. events' = SubSeq(all, drop + 1, Len(all)) /\ nextSequence' = nextSequence + Len(new)
  BY DEF PushAll, Numbered
<1>2. Len(new) \in Nat /\ Len(events) \in Nat /\ nextSequence \in Nat
  BY DEF HistoryOK
<1>3. ASSUME NEW i \in 1..Len(new)
      PROVE  Numbered(new, i) \in Event
  <2>1. new[i] \in New
    OBVIOUS
  <2>2. new[i][1] \in Sessions /\ new[i][2] \in EventKinds
    BY <2>1 DEF New
  <2>3. nextSequence + i \in Nat
    BY <1>2
  <2> QED
    BY <2>2, <2>3 DEF Numbered, Event
<1>4. added \in Seq(Event) /\ Len(added) = Len(new)
  <2>1. added \in [1..Len(new) -> Event]
    BY <1>3
  <2> QED
    BY <1>2, <2>1
<1>5. events \in Seq(Event)
  BY DEF HistoryOK
<1>6. \A i \in 1..Len(new) : added[i] = Numbered(new, i)
  OBVIOUS
<1> HIDE DEF added
<1>7. /\ all \in Seq(Event) /\ Len(all) = Len(events) + Len(new)
      /\ \A i \in 1..Len(events) : all[i] = events[i]
      /\ \A i \in (Len(events)+1)..(Len(events)+Len(new)) : all[i] = added[i - Len(events)]
  BY <1>2, <1>4, <1>5
<1> HIDE DEF all
<1>8. /\ drop \in Nat /\ drop <= Len(all)
      /\ drop > 0 => Len(all) - drop = HistoryLimit
      /\ Len(all) - drop <= HistoryLimit
  BY <1>0, <1>2, <1>7
<1> HIDE DEF drop
<1>9. /\ events' \in Seq(Event) /\ Len(events') = Len(all) - drop
      /\ \A i \in 1..Len(events') : events'[i] = all[i + drop]
  <2>1. drop + 1 \in 1..(Len(all) + 1) /\ Len(all) \in (drop + 1 - 1)..Len(all)
    BY <1>2, <1>7, <1>8
  <2>2. /\ events' \in Seq(Event) /\ Len(events') = Len(all) - (drop + 1) + 1
        /\ \A i \in 1..(Len(all) - (drop + 1) + 1) : events'[i] = all[drop + 1 + i - 1]
    BY <1>1, <1>7, <2>1, SubSeqProperties
  <2>3. Len(all) - (drop + 1) + 1 = Len(all) - drop
    BY <1>2, <1>7, <1>8
  <2>4. ASSUME NEW i \in 1..(Len(all) - drop)
        PROVE  drop + 1 + i - 1 = i + drop
    BY <1>8
  <2> QED
    BY <2>2, <2>3, <2>4
<1>10. ASSUME NEW i \in 1..Len(events')
       PROVE  /\ i + drop <= Len(events) => events'[i] = events[i + drop]
              /\ i + drop > Len(events) =>
                    events'[i] = Numbered(new, (i + drop) - Len(events))
  <2>1. i \in Nat /\ i >= 1 /\ i + drop <= Len(all)
    BY <1>2, <1>7, <1>8, <1>9
  <2>2. events'[i] = all[i + drop]
    BY <1>9
  <2>3. CASE i + drop <= Len(events)
    <3>1. i + drop \in 1..Len(events)
      BY <1>2, <1>8, <2>1, <2>3
    <3> QED
      BY <1>2, <1>7, <1>8, <2>1, <2>2, <2>3, <3>1
  <2>4. CASE i + drop > Len(events)
    <3>1. /\ i + drop \in (Len(events)+1)..(Len(events)+Len(new))
          /\ (i + drop) - Len(events) \in 1..Len(new)
      BY <1>2, <1>7, <1>8, <2>1, <2>4
    <3>2. all[i + drop] = added[(i + drop) - Len(events)]
      <4>1. PICK k : k = i + drop
        OBVIOUS
      <4>2. k \in (Len(events)+1)..(Len(events)+Len(new))
        BY <3>1, <4>1
      <4>3. all[k] = added[k - Len(events)]
        BY <1>7, <4>2
      <4> QED
        BY <4>1, <4>3
    <3> QED
      BY <1>2, <1>6, <1>8, <2>1, <2>2, <2>4, <3>1, <3>2
  <2> QED
    BY <1>2, <1>8, <2>1, <2>3, <2>4
<1>11. drop \in Nat /\ drop <= Len(events) + Len(new)
  BY <1>7, <1>8
<1>12. drop > 0 => (Len(events) + Len(new)) - drop = HistoryLimit
  BY <1>7, <1>8
<1>13. Len(events') = (Len(events) + Len(new)) - drop /\ Len(events') <= HistoryLimit
  BY <1>7, <1>8, <1>9
<1> QED
  BY <1>1, <1>9, <1>10, <1>11, <1>12, <1>13, Zenon

Asks(e, s) == e.session = s /\ e.kind = "ConsentRequested"

\* What decides or ends a request that still waits was followed by a new
\* request of its session.
Reasked ==
    \A s \in PendingSessions : \A i \in 1..Len(events) :
        events[i].session = s /\ events[i].kind \in {"ConsentResolved", "AuthorizationChanged"}
            => \E j \in (i + 1)..Len(events) : Asks(events[j], s)

CursorOK == cursor # None => cursor \in Nat /\ cursor <= nextSequence

\* NoPromptLost for one session.
Reached(s) ==
    \/ cursor = None
    \/ ResetRequired
    \/ s \in prompts
    \/ \E i \in 1..Len(events) : Asks(events[i], s) /\ events[i].sequence > cursor

FeedInv == HistoryOK /\ Reasked /\ CursorOK /\ NoPromptLost

LEMMA ReachedIsShown == NoPromptLost <=> \A s \in PendingSessions : Reached(s)
BY DEF NoPromptLost, Reached, Asks

LEMMA ResetMeans ==
  HistoryOK /\ CursorOK =>
    (ResetRequired <=> /\ cursor # None /\ Len(events) > 0
                       /\ cursor < nextSequence - Len(events))
<1> SUFFICES ASSUME HistoryOK, CursorOK
             PROVE  ResetRequired <=> /\ cursor # None /\ Len(events) > 0
                                      /\ cursor < nextSequence - Len(events)
  OBVIOUS
<1>1. events \in Seq(Event) /\ Len(events) \in Nat /\ nextSequence \in Nat
  BY DEF HistoryOK
<1>2. events # << >> <=> Len(events) > 0
  BY <1>1
<1>3. CASE cursor = None \/ ~(Len(events) > 0)
  BY <1>2, <1>3 DEF ResetRequired
<1>4. CASE cursor # None /\ Len(events) > 0
  <2>1. Head(events).sequence = nextSequence - Len(events) + 1
    <3>1. 1 \in 1..Len(events) /\ Head(events) = events[1]
      BY <1>1, <1>2, <1>4
    <3> QED
      BY <3>1 DEF HistoryOK
  <2>2. cursor \in Nat
    BY <1>4 DEF CursorOK
  <2> QED
    BY <1>1, <1>2, <1>4, <2>1, <2>2 DEF ResetRequired
<1> QED
  BY <1>3, <1>4

\* The events pushed with a step say all that changes for those who wait: a
\* session waits as before and is not spoken of, or is asked for last.
Announced(new) ==
    \A s \in PendingSessions' :
        \/ s \in PendingSessions /\ \A k \in 1..Len(new) : new[k][1] # s
        \/ Len(new) > 0 /\ new[Len(new)] = <<s, "ConsentRequested">>

LEMMA PushHistory ==
  ASSUME HistoryOK, NEW new \in Seq(New), PushAll(new), IsFiniteSet(DOMAIN records')
  PROVE  HistoryOK'
<1>1. PICK d \in Nat :
            /\ nextSequence' = nextSequence + Len(new)
            /\ d <= Len(events) + Len(new)
            /\ d > 0 => (Len(events) + Len(new)) - d = HistoryLimit
            /\ events' \in Seq(Event)
            /\ Len(events') = (Len(events) + Len(new)) - d
            /\ Len(events') <= HistoryLimit
            /\ \A i \in 1..Len(events') :
                  /\ i + d <= Len(events) => events'[i] = events[i + d]
                  /\ i + d > Len(events) =>
                        events'[i] = Numbered(new, (i + d) - Len(events))
  BY PushPlaces
<1>2. /\ Len(new) \in Nat /\ Len(events) \in Nat /\ nextSequence \in Nat
      /\ Len(events) <= nextSequence
  BY DEF HistoryOK
<1>3. ASSUME NEW i \in 1..Len(events')
      PROVE  events'[i].sequence = nextSequence' - Len(events') + i
  <2>0. i \in Nat
    OBVIOUS
  <2>1. CASE i + d <= Len(events)
    <3>1. i + d \in 1..Len(events) /\ events'[i] = events[i + d]
      BY <1>1, <1>2, <2>0, <2>1, SMTT(30)
    <3>2. events[i + d].sequence = nextSequence - Len(events) + (i + d)
      BY <3>1 DEF HistoryOK
    <3> QED
      BY <1>1, <1>2, <2>0, <3>1, <3>2
  <2>2. CASE i + d > Len(events)
    <3>0. events'[i] = Numbered(new, (i + d) - Len(events))
      BY <1>1, <2>2
    <3>1. events'[i].sequence = nextSequence + ((i + d) - Len(events))
      BY <3>0 DEF Numbered
    <3> QED
      BY <1>1, <1>2, <2>0, <3>1
  <2> QED
    BY <1>1, <1>2, <2>0, <2>1, <2>2
<1>4. nextSequence' \in Nat /\ Len(events') <= nextSequence'
  BY <1>1, <1>2
<1> QED
  BY <1>1, <1>3, <1>4 DEF HistoryOK

LEMMA PushKeepsFeed ==
  ASSUME FeedInv, NEW new \in Seq(New), PushAll(new), Announced(new), UNCHANGED client,
         IsFiniteSet(DOMAIN records')
  PROVE  FeedInv'
<1>1. PICK d \in Nat :
            /\ nextSequence' = nextSequence + Len(new)
            /\ d <= Len(events) + Len(new)
            /\ d > 0 => (Len(events) + Len(new)) - d = HistoryLimit
            /\ events' \in Seq(Event)
            /\ Len(events') = (Len(events) + Len(new)) - d
            /\ Len(events') <= HistoryLimit
            /\ \A i \in 1..Len(events') :
                  /\ i + d <= Len(events) => events'[i] = events[i + d]
                  /\ i + d > Len(events) =>
                        events'[i] = Numbered(new, (i + d) - Len(events))
  BY PushPlaces DEF FeedInv
<1>2. /\ Len(new) \in Nat /\ Len(events) \in Nat /\ nextSequence \in Nat
      /\ Len(events) <= nextSequence /\ Len(events') \in Nat
  BY <1>1 DEF FeedInv, HistoryOK
<1>3. HistoryOK'
  BY PushHistory DEF FeedInv
<1>4. CursorOK'
  BY <1>1, <1>2 DEF FeedInv, CursorOK, client
<1>5. HistoryLimit \in Nat /\ HistoryLimit > 0
  BY LimitsAssumption, PageAssumption
<1>6. cursor' = cursor /\ prompts' = prompts
  BY DEF client
<1>7. (ResetRequired <=> /\ cursor # None /\ Len(events) > 0
                         /\ cursor < nextSequence - Len(events))'
  BY <1>3, <1>4, ResetMeans, PTL
\* A retained event of a session the step says nothing about is an old one.
<1>8. ASSUME NEW s, \A k \in 1..Len(new) : new[k][1] # s,
             NEW i \in 1..Len(events'), events'[i].session = s
      PROVE  i + d \in 1..Len(events) /\ events'[i] = events[i + d]
  <2>0. i \in Nat /\ i >= 1 /\ i <= Len(events')
    OBVIOUS
  <2>1. CASE i + d > Len(events)
    <3>1. (i + d) - Len(events) \in 1..Len(new)
      BY <1>1, <1>2, <2>0, <2>1
    <3>0. events'[i] = Numbered(new, (i + d) - Len(events))
      BY <1>1, <2>1
    <3>2. events'[i].session = new[(i + d) - Len(events)][1]
      BY <3>0 DEF Numbered
    <3> QED
      BY <1>8, <3>1, <3>2
  <2>2. CASE i + d <= Len(events)
    BY <1>1, <1>2, <2>0, <2>2
  <2> QED
    BY <1>1, <1>2, <2>0, <2>1, <2>2
\* The last event pushed is retained.
<1>9. ASSUME NEW s, Len(new) > 0, new[Len(new)] = <<s, "ConsentRequested">>
      PROVE  /\ Len(events') > 0
             /\ Asks(events'[Len(events')], s)
             /\ events'[Len(events')].sequence = nextSequence'
  <2>1. Len(events') > 0 /\ Len(events') + d = Len(events) + Len(new)
    BY <1>1, <1>2, <1>5, <1>9
  <2>2. /\ Len(events') \in 1..Len(events') /\ Len(events') + d > Len(events)
        /\ (Len(events') + d) - Len(events) = Len(new)
    BY <1>1, <1>2, <1>9, <2>1
  <2>3. events'[Len(events')] = Numbered(new, Len(new))
    BY <1>1, <2>2
  <2> QED
    BY <1>1, <1>9, <2>1, <2>3 DEF Numbered, Asks
<1>10. Reasked'
  <2> SUFFICES ASSUME NEW s \in PendingSessions', NEW i \in 1..Len(events'),
                      events'[i].session = s,
                      events'[i].kind \in {"ConsentResolved", "AuthorizationChanged"}
               PROVE  \E j \in (i + 1)..Len(events') : Asks(events'[j], s)
    BY DEF Reasked, Asks
  <2>0. i \in Nat /\ i >= 1 /\ i <= Len(events')
    OBVIOUS
  <2>1. CASE s \in PendingSessions /\ \A k \in 1..Len(new) : new[k][1] # s
    <3>1. i + d \in 1..Len(events) /\ events'[i] = events[i + d]
      BY <1>8, <2>1
    <3>2. PICK j \in ((i + d) + 1)..Len(events) : Asks(events[j], s)
      BY <2>1, <3>1 DEF FeedInv, Reasked
    <3>3. j \in Nat /\ j - d \in (i + 1)..Len(events') /\ (j - d) + d <= Len(events)
      BY <1>1, <1>2, <2>0, SMTT(30)
    <3>4. j - d \in 1..Len(events') /\ (j - d) + d = j
      BY <1>1, <1>2, <2>0, <3>3, SMTT(30)
    <3>5. events'[j - d] = events[j]
      BY <1>1, <3>3, <3>4
    <3> QED
      BY <3>2, <3>3, <3>5
  <2>2. CASE Len(new) > 0 /\ new[Len(new)] = <<s, "ConsentRequested">>
    <3>1. Len(events') > 0 /\ Asks(events'[Len(events')], s)
      BY <1>9, <2>2
    <3>2. i # Len(events')
      BY <3>1 DEF Asks
    <3>3. Len(events') \in (i + 1)..Len(events')
      BY <1>2, <2>0, <3>2
    <3> QED
      BY <3>1, <3>3
  <2> QED
    BY <2>1, <2>2 DEF Announced
<1>11. ASSUME NEW s \in PendingSessions'
       PROVE  Reached(s)'
  <2>0. CASE cursor = None
    BY <1>6, <2>0 DEF Reached
  <2>1. CASE cursor # None /\ Len(new) > 0 /\ new[Len(new)] = <<s, "ConsentRequested">>
    <3>1. /\ Len(events') \in 1..Len(events') /\ Asks(events'[Len(events')], s)
          /\ events'[Len(events')].sequence = nextSequence'
      BY <1>2, <1>9, <2>1
    <3>2. nextSequence' > cursor'
      BY <1>1, <1>2, <1>6, <2>1 DEF FeedInv, CursorOK
    <3> QED
      BY <3>1, <3>2 DEF Reached, Asks
  <2>2. CASE cursor # None /\ s \in PendingSessions /\ \A k \in 1..Len(new) : new[k][1] # s
    <3>0. cursor \in Nat /\ Reached(s)
      BY <2>2, ReachedIsShown DEF FeedInv, CursorOK
    <3>1. CASE ResetRequired
      <4>1. Len(events) > 0 /\ cursor < nextSequence - Len(events)
        BY <3>1, ResetMeans DEF FeedInv
      <4>2. Len(events') > 0 /\ cursor < nextSequence' - Len(events')
        BY <1>1, <1>2, <1>5, <3>0, <4>1
      <4> QED
        BY <1>6, <1>7, <2>2, <4>2 DEF Reached
    <3>2. CASE s \in prompts
      BY <1>6, <3>2 DEF Reached
    <3>3. CASE \E i \in 1..Len(events) : Asks(events[i], s) /\ events[i].sequence > cursor
      <4>1. PICK i \in 1..Len(events) : Asks(events[i], s) /\ events[i].sequence > cursor
        BY <3>3
      <4>2. i \in Nat /\ events[i].sequence = nextSequence - Len(events) + i
        BY DEF FeedInv, HistoryOK
      <4>3. CASE i > d
        <5>1. /\ i - d \in 1..Len(events') /\ (i - d) + d <= Len(events)
              /\ (i - d) + d = i
          BY <1>1, <1>2, <4>2, <4>3
        <5>2. events'[i - d] = events[i]
          BY <1>1, <5>1
        <5> QED
          BY <1>6, <4>1, <5>1, <5>2 DEF Reached, Asks
      <4>4. CASE i <= d
        <5>1. cursor < nextSequence - Len(events) + i
          BY <4>1, <4>2, <3>0, <1>2
        <5>2. Len(events') = HistoryLimit
          BY <1>1, <1>2, <4>2, <4>4
        <5>3. Len(events') > 0 /\ cursor < nextSequence' - Len(events')
          BY <1>1, <1>2, <1>5, <3>0, <4>2, <4>4, <5>1, <5>2
        <5> QED
          BY <1>6, <1>7, <2>2, <5>3 DEF Reached
      <4> QED
        BY <4>2, <4>3, <4>4
    <3> QED
      BY <2>2, <3>0, <3>1, <3>2, <3>3 DEF Reached
  <2> QED
    BY <2>0, <2>1, <2>2 DEF Announced
<1>12. NoPromptLost'
  <2>1. (NoPromptLost <=> \A s \in PendingSessions : Reached(s))'
    BY ReachedIsShown, PTL
  <2> QED
    BY <1>11, <2>1
<1> QED
  BY <1>3, <1>4, <1>10, <1>12 DEF FeedInv

\* A step that pushes nothing and makes nobody wait.
LEMMA QuietKeepsFeed ==
  ASSUME FeedInv, UNCHANGED <<events, nextSequence>>, UNCHANGED client,
         PendingSessions' \subseteq PendingSessions, IsFiniteSet(DOMAIN records')
  PROVE  FeedInv'
<1>1. HistoryOK' /\ CursorOK'
  BY DEF FeedInv, HistoryOK, CursorOK, client
<1>2. Reasked'
  BY DEF FeedInv, Reasked, Asks
<1>3. NoPromptLost'
  BY DEF FeedInv, NoPromptLost, ResetRequired, client
<1> QED
  BY <1>1, <1>2, <1>3 DEF FeedInv

-----------------------------------------------------------------------------
(* subscribe. *)

\* The newest of some retained places.
LEMMA NewestIsThere ==
  ASSUME HistoryOK, NEW places \in SUBSET DOMAIN events, places # {}
  PROVE  \E m \in places : Newest(places) = events[m] /\ \A j \in places : j <= m
<1>1. Len(events) \in Nat /\ DOMAIN events = 1..Len(events)
  BY DEF HistoryOK
<1>2. places \in SUBSET Nat /\ \A j \in places : j <= Len(events)
  BY <1>1
<1>3. \E m \in places : \A j \in places : j <= m
  BY <1>1, <1>2, Greatest
<1> DEFINE m == CHOOSE i \in places : \A j \in places : j <= i
<1>4. m \in places /\ \A j \in places : j <= m
  BY <1>3
<1> QED
  BY <1>4 DEF Newest

\* A page is the beginning of what matches the query, and empty only if
\* nothing does.
LEMMA PageIsFirst ==
  ASSUME HistoryOK
  PROVE  /\ Page \subseteq Matching /\ Matching \subseteq 1..Len(events)
         /\ \A i \in Page, j \in Matching : j <= i => j \in Page
         /\ Page = {} => Matching = {}
<1>1. Len(events) \in Nat /\ DOMAIN events = 1..Len(events) /\ PageLimit \in Nat /\ PageLimit >= 1
  BY PageAssumption DEF HistoryOK
<1>2. Page \subseteq Matching /\ Matching \subseteq 1..Len(events)
  BY <1>1 DEF Page, Matching
<1> DEFINE upto(i) == {j \in Matching : j <= i}
<1>3. IsFiniteSet(Matching)
  <2>1. 1 \in Int /\ Len(events) \in Int
    BY <1>1
  <2>2. IsFiniteSet(1..Len(events))
    BY <2>1, FS_Interval
  <2> QED
    BY <1>2, <2>2, FS_Subset
<1>4. ASSUME NEW i \in Page, NEW j \in Matching, j <= i
      PROVE  j \in Page
  <2>0. i \in Nat /\ j \in Nat /\ Matching \subseteq Nat
    BY <1>1, <1>2
  <2>1. upto(j) \subseteq upto(i)
    <3> SUFFICES ASSUME NEW k \in Matching, k <= j PROVE k <= i
      OBVIOUS
    <3> QED
      BY <1>4, <2>0
  <2>2. IsFiniteSet(upto(i))
    BY <1>3, FS_Subset
  <2> HIDE DEF upto
  <2>3. /\ Cardinality(upto(j)) <= Cardinality(upto(i))
        /\ Cardinality(upto(j)) \in Nat /\ Cardinality(upto(i)) \in Nat
    BY <2>1, <2>2, FS_Subset, FS_CardinalityType
  <2>4. Cardinality(upto(i)) <= PageLimit
    BY DEF Page, upto
  <2>5. Cardinality(upto(j)) <= PageLimit
    BY <1>1, <2>3, <2>4
  <2> QED
    BY <2>5 DEF Page, upto
<1>5. ASSUME Page = {}, Matching # {}
      PROVE  FALSE
  <2>1. Matching \in SUBSET Nat
    BY <1>2
  <2>2. PICK m \in Matching : \A k \in Matching : m <= k
    BY <1>5, <2>1, Least
  <2>3. upto(m) = {m}
    <3>1. m \in Nat /\ m <= m
      BY <2>1
    <3>2. ASSUME NEW k \in Matching, k <= m PROVE k = m
      BY <2>1, <2>2, <3>1, <3>2
    <3> QED
      BY <3>1, <3>2
  <2>4. Cardinality(upto(m)) <= PageLimit
    BY <1>1, <2>3, FS_Singleton
  <2>5. m \in Page
    BY <2>2, <2>4 DEF Page
  <2> QED
    BY <1>5, <2>5
<1> QED
  BY <1>2, <1>4, <1>5

\* A page passes a pending session on: it is shown, or asked for behind it.
LEMMA PageShows ==
  ASSUME FeedInv, NEW s \in PendingSessions, s \in Sessions, NEW shown,
         \/ s \in shown
         \/ \E i \in Matching : Asks(events[i], s)
  PROVE  \/ s \in Applied(shown, Page)
         \/ \E j \in Matching : j \notin Page /\ Asks(events[j], s)
<1> DEFINE about == {i \in Page : events[i].session = s /\ events[i].kind \in PromptKinds}
<1>0. HistoryOK /\ Page \subseteq Matching /\ Matching \subseteq 1..Len(events)
  BY PageIsFirst DEF FeedInv
<1>1. s \in Applied(shown, Page) <=> IF about = {} THEN s \in shown
                                     ELSE Newest(about).kind = "ConsentRequested"
  BY DEF Applied
<1>2. CASE about = {}
  <2>1. ASSUME NEW i \in Matching, Asks(events[i], s)
        PROVE  i \notin Page
    BY <1>2, <2>1 DEF Asks, PromptKinds
  <2> QED
    BY <1>1, <1>2, <2>1
<1>3. CASE about # {}
  <2>1. about \in SUBSET DOMAIN events
    BY <1>0 DEF Matching
  <2>2. PICK m \in about : Newest(about) = events[m] /\ \A j \in about : j <= m
    <3> HIDE DEF about
    <3> QED
      BY <1>0, <1>3, <2>1, NewestIsThere
  <2>3. CASE events[m].kind = "ConsentRequested"
    BY <1>1, <1>3, <2>2, <2>3
  <2>4. CASE events[m].kind # "ConsentRequested"
    <3>1. m \in 1..Len(events) /\ m \in Matching /\ events[m].session = s
      BY <1>0, <2>2
    <3>2. events[m].kind \in {"ConsentResolved", "AuthorizationChanged"}
      BY <2>2, <2>4 DEF PromptKinds
    <3>3. PICK j \in (m + 1)..Len(events) : Asks(events[j], s)
      BY <3>1, <3>2 DEF FeedInv, Reasked
    <3>4. j \in 1..Len(events) /\ j > m /\ Len(events) \in Nat /\ nextSequence \in Nat
      BY <1>0, <3>1 DEF HistoryOK
    <3>5. j \notin Page
      BY <2>2, <3>1, <3>3, <3>4 DEF Asks, PromptKinds
    <3>6. j \in Matching
      <4>1. /\ events[j].sequence = nextSequence - Len(events) + j
            /\ events[m].sequence = nextSequence - Len(events) + m
        BY <1>0, <3>1, <3>4 DEF HistoryOK
      <4>2. After \in Nat
        BY DEF After, FeedInv, CursorOK
      <4>3. events[m].sequence > After
        BY <3>1 DEF Matching
      <4>4. events[j].sequence > After
        BY <3>1, <3>4, <4>1, <4>2, <4>3
      <4>5. j \in DOMAIN events
        BY <1>0, <3>4 DEF HistoryOK
      <4> QED
        BY <4>4, <4>5 DEF Matching
    <3> QED
      BY <3>3, <3>5, <3>6
  <2> QED
    BY <2>3, <2>4
<1> QED
  BY <1>2, <1>3

\* subscribe: the page that is applied is a reset, the first or the next one.
LEMMA PollKeepsFeed ==
  ASSUME FeedInv, RegistryInv, Poll
  PROVE  FeedInv'
<1>0. HistoryOK /\ CursorOK /\ UNCHANGED vars
  BY DEF FeedInv, Poll
<1>1. /\ UNCHANGED <<records, events, nextSequence>>
      /\ PendingSessions' = PendingSessions
  BY <1>0 DEF vars, registry, PendingSessions
<1>2. HistoryOK' /\ Reasked'
  BY <1>1 DEF FeedInv, HistoryOK, Reasked, Asks
<1>3. nextSequence \in Nat /\ Len(events) \in Nat
  BY <1>0 DEF HistoryOK
<1>4. (NoPromptLost <=> \A s \in PendingSessions : Reached(s))'
  BY ReachedIsShown, PTL
<1>5. CASE ResetRequired
  <2>1. prompts' = PendingSessions /\ cursor' = nextSequence
    BY <1>5 DEF Poll, Refreshed
  <2>2. CursorOK'
    BY <1>1, <1>3, <2>1 DEF CursorOK
  <2>3. NoPromptLost'
    BY <1>1, <1>4, <2>1 DEF Reached
  <2> QED
    BY <1>2, <2>2, <2>3 DEF FeedInv
<1>6. CASE ~ResetRequired
  <2> DEFINE shown == IF cursor = None THEN PendingSessions ELSE prompts
  <2>1. prompts' = Applied(shown, Page) /\ cursor' = NextAfter
    BY <1>6 DEF Poll
  <2>2. /\ Page \subseteq Matching /\ Matching \subseteq 1..Len(events)
        /\ \A i \in Page, j \in Matching : j <= i => j \in Page
        /\ Page = {} => Matching = {}
    BY <1>0, PageIsFirst
  <2>3. CursorOK' /\ \A j \in Matching : j \notin Page => events[j].sequence > cursor'
    <3>1. CASE Page # {}
      <4>1. Page \in SUBSET DOMAIN events
        BY <2>2 DEF Matching
      <4>2. PICK m \in Page : Newest(Page) = events[m] /\ \A j \in Page : j <= m
        BY <1>0, <3>1, <4>1, NewestIsThere
      <4>3. cursor' = events[m].sequence
        BY <2>1, <3>1, <4>2 DEF NextAfter
      <4>4. m \in 1..Len(events) /\ cursor' = nextSequence - Len(events) + m
        BY <1>0, <2>2, <4>2, <4>3 DEF HistoryOK
      <4>5. cursor' \in Nat /\ cursor' <= nextSequence
        BY <1>0, <1>3, <4>4 DEF HistoryOK
      <4>6. ASSUME NEW j \in Matching, j \notin Page
            PROVE  events[j].sequence > cursor'
        <5>1. j \in 1..Len(events) /\ ~(j <= m)
          BY <2>2, <4>2, <4>6
        <5>2. events[j].sequence = nextSequence - Len(events) + j
          BY <1>0, <5>1 DEF HistoryOK
        <5> QED
          BY <1>3, <4>4, <5>1, <5>2
      <4>7. CursorOK'
        BY <1>1, <4>5 DEF CursorOK
      <4> QED
        BY <4>6, <4>7
    <3>2. CASE Page = {}
      <4>1. cursor' = IF nextSequence > 0 THEN nextSequence ELSE cursor
        BY <1>3, <2>1, <3>2 DEF NextAfter
      <4>2. CursorOK'
        BY <1>0, <1>1, <1>3, <4>1 DEF CursorOK
      <4> QED
        BY <2>2, <3>2, <4>2
    <3> QED
      BY <3>1, <3>2
  <2>4. ASSUME NEW s \in PendingSessions
        PROVE  Reached(s)'
    <3>0. s \in Sessions
      BY DEF PendingSessions, RegistryInv, RecordsOK
    <3>1. s \in shown \/ \E i \in Matching : Asks(events[i], s)
      <4>1. CASE cursor = None
        BY <4>1
      <4>2. CASE cursor # None
        <5>1. s \in prompts \/ \E i \in 1..Len(events) : Asks(events[i], s) /\ events[i].sequence > cursor
          BY <1>6, <4>2, ReachedIsShown DEF FeedInv, Reached
        <5>2. \A i \in 1..Len(events) : events[i].sequence > cursor => i \in Matching
          BY <1>0, <4>2 DEF Matching, After, HistoryOK
        <5> QED
          BY <4>2, <5>1, <5>2
      <4> QED
        BY <4>1, <4>2
    <3> HIDE DEF shown
    <3>2. CASE s \in Applied(shown, Page)
      BY <2>1, <3>2 DEF Reached
    <3>3. CASE \E j \in Matching : j \notin Page /\ Asks(events[j], s)
      <4>1. PICK j \in Matching : j \notin Page /\ Asks(events[j], s)
        BY <3>3
      <4>2. j \in 1..Len(events) /\ events[j].sequence > cursor'
        BY <2>2, <2>3, <4>1
      <4> QED
        BY <1>1, <4>1, <4>2 DEF Reached, Asks
    <3> QED
      BY <3>0, <3>1, <3>2, <3>3, PageShows
  <2>5. NoPromptLost'
    BY <1>1, <1>4, <2>4
  <2> QED
    BY <1>2, <2>3, <2>5 DEF FeedInv
<1> QED
  BY <1>5, <1>6

-----------------------------------------------------------------------------
(* The operations of the registry. *)

LEMMA OfIsNew ==
  ASSUME NEW s \in Sessions, NEW kinds \in Seq(EventKinds)
  PROVE  /\ Of(s, kinds) \in Seq(New) /\ Len(Of(s, kinds)) = Len(kinds)
         /\ \A k \in 1..Len(kinds) : Of(s, kinds)[k] = <<s, kinds[k]>>
<1>1. \A k \in 1..Len(kinds) : <<s, kinds[k]>> \in New
  BY DEF New
<1>2. Of(s, kinds) \in [1..Len(kinds) -> New]
  BY <1>1 DEF Of
<1>3. Len(kinds) \in Nat
  OBVIOUS
<1>4. Of(s, kinds) \in Seq(New) /\ Len(Of(s, kinds)) = Len(kinds)
  BY <1>2, <1>3
<1>5. \A k \in 1..Len(kinds) : Of(s, kinds)[k] = <<s, kinds[k]>>
  BY DEF Of
<1> QED
  BY <1>4, <1>5

LEMMA FailureEventsKinds ==
  ASSUME NEW r, NEW code
  PROVE  FailureEvents(r, code) \in Seq(EventKinds)
<1>1. /\ <<"AuthorizationChanged">> \in Seq(EventKinds) /\ <<"RouteChanged">> \in Seq(EventKinds)
      /\ <<"MediaChanged">> \in Seq(EventKinds) /\ <<"SessionClosed">> \in Seq(EventKinds)
      /\ << >> \in Seq(EventKinds)
  BY DEF EventKinds
<1> QED
  BY <1>1 DEF FailureEvents

\* The record of s stops waiting, and only s is spoken of.
LEMMA DecidedKeepsFeed ==
  ASSUME FeedInv, RegistryInv, NEW s \in DOMAIN records, NEW r, Set(s, r),
         r.auth # "AwaitingLocalConsent",
         NEW kinds \in Seq(EventKinds), Push(s, kinds), UNCHANGED client
  PROVE  FeedInv'
<1>1. s \in Sessions /\ DOMAIN records' = DOMAIN records
  BY DEF RegistryInv, RecordsOK, Set
<1>2. records'[s] = r /\ \A t \in DOMAIN records : t # s => records'[t] = records[t]
  BY DEF RegistryInv, RecordsOK, Set
<1>3. PICK new : new = Of(s, kinds)
  OBVIOUS
<1>4. new \in Seq(New) /\ PushAll(new)
  BY <1>1, <1>3, OfIsNew DEF Push
<1>5. \A k \in 1..Len(new) : new[k][1] = s
  BY <1>1, <1>3, OfIsNew
<1>6. \A t \in PendingSessions' : t # s /\ t \in PendingSessions
  BY <1>1, <1>2 DEF PendingSessions
<1>7. Announced(new)
  BY <1>5, <1>6 DEF Announced
<1>8. IsFiniteSet(DOMAIN records')
  BY <1>1 DEF FeedInv, HistoryOK
<1> QED
  BY <1>4, <1>7, <1>8, PushKeepsFeed

\* A record is touched without a word.
LEMMA TouchedKeepsFeed ==
  ASSUME FeedInv, RegistryInv, NEW s \in DOMAIN records, NEW r, Set(s, r),
         r.auth = records[s].auth, r.request.role = records[s].request.role,
         UNCHANGED <<events, nextSequence>>, UNCHANGED client
  PROVE  FeedInv'
<1>1. DOMAIN records' = DOMAIN records
  BY DEF RegistryInv, RecordsOK, Set
<1>2. records'[s] = r /\ \A t \in DOMAIN records : t # s => records'[t] = records[t]
  BY DEF RegistryInv, RecordsOK, Set
<1>3. PendingSessions' \subseteq PendingSessions
  BY <1>1, <1>2 DEF PendingSessions
<1>4. IsFiniteSet(DOMAIN records')
  BY <1>1 DEF FeedInv, HistoryOK
<1> QED
  BY <1>3, <1>4, QuietKeepsFeed

LEMMA FailKeepsFeed ==
  ASSUME FeedInv, RegistryInv, NEW s, NEW state \in Terminal, NEW code \in Codes,
         TransitionFailure(s, state, code), UNCHANGED client
  PROVE  FeedInv'
<1>1. /\ s \in DOMAIN records /\ Set(s, Failed(records[s], state, code))
      /\ Push(s, FailureEvents(records[s], code))
  BY DEF TransitionFailure
<1>2. Failed(records[s], state, code).auth # "AwaitingLocalConsent"
  BY <1>1, FailedOK DEF IsTerminal, Terminal
<1> QED
  BY <1>1, <1>2, FailureEventsKinds, DecidedKeepsFeed

\* revoke_peer_authorizations, revoke_unattended_authorizations: whatever the
\* order of the map, only records that end are spoken of.
LEMMA FailAllKeepsFeed ==
  ASSUME FeedInv, RegistryInv, NEW S \in SUBSET DOMAIN records,
         NEW state \in Terminal, NEW code \in Codes,
         FailAll(S, state, code), UNCHANGED client
  PROVE  FeedInv'
<1>1. PICK order \in SetToSeqs(S) :
        PushAll(FlattenSeq([i \in 1..Len(order) |->
                    Of(order[i], FailureEvents(records[order[i]], code))]))
  BY DEF FailAll
<1>2. S \subseteq Sessions /\ IsFiniteSet(S)
  BY FS_Subset DEF RegistryInv, RecordsOK, FeedInv, HistoryOK
<1>3. order \in Seq(S)
  <2>1. Cardinality(S) \in Nat
    BY <1>2, FS_CardinalityType
  <2>2. order \in [1..Cardinality(S) -> S]
    BY DEF SetToSeqs
  <2> QED
    BY <2>1, <2>2
<1> DEFINE D == S \X EventKinds
           parts == [i \in 1..Len(order) |->
                        Of(order[i], FailureEvents(records[order[i]], code))]
<1>4. ASSUME NEW t \in S
      PROVE  Of(t, FailureEvents(records[t], code)) \in Seq(D)
  <2>1. PICK kinds : kinds = FailureEvents(records[t], code)
    OBVIOUS
  <2>2. kinds \in Seq(EventKinds)
    BY <2>1, FailureEventsKinds
  <2>3. \A k \in 1..Len(kinds) : <<t, kinds[k]>> \in D
    BY <2>2
  <2>4. Of(t, kinds) \in [1..Len(kinds) -> D]
    BY <2>3 DEF Of
  <2>5. Len(kinds) \in Nat
    BY <2>2
  <2> QED
    BY <2>1, <2>4, <2>5
<1>5. parts \in Seq(Seq(D))
  <2>1. \A i \in 1..Len(order) : order[i] \in S
    BY <1>3
  <2>2. Len(order) \in Nat
    BY <1>3
  <2>3. parts \in [1..Len(order) -> Seq(D)]
    BY <1>4, <2>1
  <2> HIDE DEF parts, D
  <2> QED
    BY <2>2, <2>3
<1>6. PICK new : new = FlattenSeq(parts)
  OBVIOUS
<1>7. new \in Seq(D) /\ PushAll(new)
  <2>1. PushAll(new)
    BY <1>1, <1>6
  <2> HIDE DEF parts, D
  <2> QED
    BY <1>5, <1>6, <2>1, FlattenIn
<1>8. D \subseteq New
  BY <1>2 DEF New
<1>9. new \in Seq(New)
  BY <1>7, <1>8
<1>10. \A k \in 1..Len(new) : new[k][1] \in S
  <2>1. \A k \in 1..Len(new) : new[k] \in D
    BY <1>7
  <2> QED
    BY <2>1
<1>11. DOMAIN records' = DOMAIN records
  BY DEF FailAll
<1>12. ASSUME NEW t \in PendingSessions'
       PROVE  t \notin S /\ t \in PendingSessions
  <2>1. t \in DOMAIN records /\ records'[t].auth = "AwaitingLocalConsent"
    BY <1>11 DEF PendingSessions
  <2>2. t \notin S
    <3>1. Failed(records[t], state, code).auth # "AwaitingLocalConsent"
      BY <2>1, FailedOK DEF IsTerminal, Terminal
    <3> QED
      BY <2>1, <3>1 DEF FailAll
  <2>3. records'[t] = records[t]
    BY <2>1, <2>2 DEF FailAll
  <2> QED
    BY <2>1, <2>2, <2>3 DEF PendingSessions
<1>13. Announced(new)
  BY <1>10, <1>12 DEF Announced
<1>14. IsFiniteSet(DOMAIN records')
  BY <1>11 DEF FeedInv, HistoryOK
<1> QED
  BY <1>7, <1>9, <1>13, <1>14, PushKeepsFeed

\* begin_verified_incoming, begin_outgoing: whoever waits is kept by the
\* pruning, and a new record that waits is asked for.
LEMMA BeginKeepsFeed ==
  ASSUME FeedInv, RegistryInv, NEW s \in Sessions, NEW req \in Requests, Begin(s, req),
         UNCHANGED client
  PROVE  FeedInv'
<1>1. PICK K \in Kept :
        IF s \notin K /\ Cardinality(K) < RecordLimit /\ HasRoom([t \in K |-> records[t]], req)
        THEN /\ records' = [t \in K \cup {s} |->
                             IF t = s THEN NewRecord(req) ELSE records[t]]
             /\ Push(s, IF req.role = "Agent" /\ req.mode = "Attended"
                        THEN <<"ConsentRequested">> ELSE << >>)
        ELSE Prune(K) /\ UNCHANGED <<events, nextSequence>>
  BY DEF Begin
<1>2. K \subseteq DOMAIN records
  BY KeptIncluded
<1>3. IsFiniteSet(K) /\ IsFiniteSet(K \cup {s})
  BY <1>2, FS_Subset, FS_AddElement DEF FeedInv, HistoryOK
<1>4. CASE /\ s \notin K
           /\ records' = [t \in K \cup {s} |-> IF t = s THEN NewRecord(req) ELSE records[t]]
           /\ Push(s, IF req.role = "Agent" /\ req.mode = "Attended"
                      THEN <<"ConsentRequested">> ELSE << >>)
  <2>1. DOMAIN records' = K \cup {s} /\ records'[s] = NewRecord(req)
    BY <1>4
  <2>2. \A t \in PendingSessions' : t # s => t \in PendingSessions
    BY <1>2, <1>4, <2>1 DEF PendingSessions
  <2>3. CASE req.role = "Agent" /\ req.mode = "Attended"
    <3>1. PICK kinds : kinds = <<"ConsentRequested">>
      OBVIOUS
    <3>2. kinds \in Seq(EventKinds) /\ Len(kinds) = 1 /\ kinds[1] = "ConsentRequested"
      BY <3>1 DEF EventKinds
    <3>3. PICK new : new = Of(s, kinds)
      OBVIOUS
    <3>4. new \in Seq(New) /\ Len(new) = 1 /\ new[1] = <<s, "ConsentRequested">>
      BY <3>2, <3>3, OfIsNew
    <3>5. PushAll(new)
      BY <1>4, <2>3, <3>1, <3>3 DEF Push
    <3>6. Announced(new)
      <4> SUFFICES ASSUME NEW t \in PendingSessions'
                   PROVE  \/ t \in PendingSessions /\ \A k \in 1..Len(new) : new[k][1] # t
                          \/ Len(new) > 0 /\ new[Len(new)] = <<t, "ConsentRequested">>
        BY DEF Announced
      <4>1. CASE t = s
        BY <3>4, <4>1
      <4>2. CASE t # s
        <5>1. \A k \in 1..Len(new) : k = 1
          BY <3>4
        <5> QED
          BY <2>2, <3>4, <4>2, <5>1
      <4> QED
        BY <4>1, <4>2
    <3> QED
      BY <1>3, <2>1, <3>4, <3>5, <3>6, PushKeepsFeed
  <2>4. CASE ~(req.role = "Agent" /\ req.mode = "Attended")
    <3>1. PICK kinds : kinds = << >>
      OBVIOUS
    <3>2. kinds \in Seq(EventKinds) /\ Len(kinds) = 0
      BY <3>1
    <3>3. PICK new : new = Of(s, kinds)
      OBVIOUS
    <3>4. new \in Seq(New) /\ Len(new) = 0
      BY <3>2, <3>3, OfIsNew
    <3>5. PushAll(new)
      BY <1>4, <2>4, <3>1, <3>3 DEF Push
    <3>6. NewRecord(req).auth # "AwaitingLocalConsent" \/ NewRecord(req).request.role # "Agent"
      BY <2>4, RequestsAssumption DEF NewRecord, IncomingRequest, OutgoingRequest
    <3>7. s \notin PendingSessions'
      BY <2>1, <3>6 DEF PendingSessions
    <3>8. Announced(new)
      BY <2>2, <3>4, <3>7 DEF Announced
    <3> QED
      BY <1>3, <2>1, <3>4, <3>5, <3>8, PushKeepsFeed
  <2> QED
    BY <2>3, <2>4
<1>5. CASE Prune(K) /\ UNCHANGED <<events, nextSequence>>
  <2>1. DOMAIN records' = K /\ \A t \in K : records'[t] = records[t]
    BY <1>5 DEF Prune
  <2>2. PendingSessions' \subseteq PendingSessions
    BY <1>2, <2>1 DEF PendingSessions
  <2> QED
    BY <1>3, <1>5, <2>1, <2>2, QuietKeepsFeed
<1> QED
  BY <1>1, <1>4, <1>5

LEMMA StepKeepsFeed ==
  ASSUME FeedInv, RegistryInv, NEW s \in Sessions, Step(s), UNCHANGED client
  PROVE  FeedInv'
<1>0. /\ <<"AuthorizationChanged">> \in Seq(EventKinds) /\ <<"ConsentResolved">> \in Seq(EventKinds)
      /\ <<"AuthorizationChanged", "RouteChanged">> \in Seq(EventKinds)
      /\ <<"RouteChanged", "MediaChanged">> \in Seq(EventKinds)
  BY DEF EventKinds
<1>1. CASE \E req \in Requests : Begin(s, req)
  BY <1>1, BeginKeepsFeed
<1>2. CASE \E key \in Keys : BindKey(s, key)
  <2>1. PICK key \in Keys : BindKey(s, key)
    BY <1>2
  <2>2. s \in DOMAIN records /\ records[s] \in Record
    BY <2>1, RecordFacts DEF BindKey
  <2>3. PICK r : r = [records[s] EXCEPT !.boundKey = key, !.updated = now]
    OBVIOUS
  <2>4. r.auth = records[s].auth /\ r.request = records[s].request
    BY <2>2, <2>3 DEF Record
  <2> QED
    BY <2>1, <2>2, <2>3, <2>4, TouchedKeepsFeed DEF BindKey
<1>3. CASE \E device \in Keys, key \in Keys : BindOutgoing(s, device, key)
  <2>1. PICK device \in Keys, key \in Keys : BindOutgoing(s, device, key)
    BY <1>3
  <2>2. s \in DOMAIN records /\ records[s] \in Record
    BY <2>1, RecordFacts DEF BindOutgoing
  <2>3. PICK r : r = [records[s] EXCEPT !.request.key = key, !.boundKey = key, !.updated = now]
    OBVIOUS
  <2>4. r.auth = records[s].auth /\ r.request.role = records[s].request.role
    BY <2>2, <2>3 DEF Record, IncomingRequest, OutgoingRequest
  <2> QED
    BY <2>1, <2>2, <2>3, <2>4, TouchedKeepsFeed DEF BindOutgoing
<1>4. CASE \E scopes \in SUBSET Scopes : Approve(s, scopes)
  <2>1. PICK scopes \in SUBSET Scopes : Approve(s, scopes)
    BY <1>4
  <2>2. s \in DOMAIN records /\ records[s] \in Record
    BY <2>1, RecordFacts DEF Approve
  <2>3. PICK r : r = [records[s] EXCEPT !.auth = "Authorizing", !.updated = now,
                        !.granted = Effective(records[s].request, scopes)]
    OBVIOUS
  <2>4. r.auth = "Authorizing"
    BY <2>2, <2>3 DEF Record
  <2> QED
    BY <1>0, <2>1, <2>2, <2>3, <2>4, DecidedKeepsFeed DEF Approve
<1>5. CASE Deny(s)
  <2>1. s \in DOMAIN records /\ records[s] \in Record
    BY <1>5, RecordFacts DEF Deny
  <2>2. PICK r : r = [records[s] EXCEPT !.auth = "Denied", !.updated = now,
                                 !.failure = "ConsentDenied"]
    OBVIOUS
  <2>3. r.auth = "Denied"
    BY <2>1, <2>2 DEF Record
  <2> QED
    BY <1>0, <1>5, <2>1, <2>2, <2>3, DecidedKeepsFeed DEF Deny
<1>6. CASE ConsentTooLate(s)
  <2>1. s \in DOMAIN records /\ records[s] \in Record
    BY <1>6, RecordFacts DEF ConsentTooLate
  <2>2. PICK r : r = [records[s] EXCEPT !.auth = "Expired", !.updated = now,
                                 !.failure = "AuthorizationTimeout"]
    OBVIOUS
  <2>3. r.auth = "Expired"
    BY <2>1, <2>2 DEF Record
  <2> QED
    BY <1>0, <1>6, <2>1, <2>2, <2>3, DecidedKeepsFeed DEF ConsentTooLate
<1>7. CASE ExpirePending(s)
  <2>1. s \in DOMAIN records /\ records[s] \in Record
    BY <1>7, RecordFacts DEF ExpirePending
  <2>2. PICK r : r = [records[s] EXCEPT !.auth = "Expired", !.updated = now,
                    !.failure = "AuthorizationTimeout", !.granted = {}]
    OBVIOUS
  <2>3. r.auth = "Expired"
    BY <2>1, <2>2 DEF Record
  <2> QED
    BY <1>0, <1>7, <2>1, <2>2, <2>3, DecidedKeepsFeed DEF ExpirePending
<1>8. CASE \E g \in NextGrant, rev \in {None} \cup 1..MaxRevision : InstallGrant(s, g, rev)
  <2>1. PICK g \in NextGrant, rev \in {None} \cup 1..MaxRevision : InstallGrant(s, g, rev)
    BY <1>8
  <2>2. s \in DOMAIN records /\ records[s] \in Record
    BY <2>1, RecordFacts DEF InstallGrant
  <2>3. PICK r : r = [records[s] EXCEPT !.auth = "Granted", !.grant = g,
                    !.granted = g.scopes, !.revision = g.revision,
                    !.route = "Connecting", !.updated = now]
    OBVIOUS
  <2>4. r.auth = "Granted"
    BY <2>2, <2>3 DEF Record
  <2> QED
    BY <1>0, <2>1, <2>2, <2>3, <2>4, DecidedKeepsFeed DEF InstallGrant
<1>9. CASE MarkStreaming(s)
  <2>1. s \in DOMAIN records /\ records[s] \in Record /\ records[s].auth = "Granted"
    BY <1>9, RecordFacts DEF MarkStreaming
  <2>2. PICK r : r = [records[s] EXCEPT !.route = "Connected", !.media = "Streaming",
                                 !.updated = now]
    OBVIOUS
  <2>3. r.auth = "Granted"
    BY <2>1, <2>2 DEF Record
  <2> QED
    BY <1>0, <1>9, <2>1, <2>2, <2>3, DecidedKeepsFeed DEF MarkStreaming
<1>10. CASE ExpireGrant(s)
  BY <1>10, FailKeepsFeed DEF ExpireGrant, Terminal, Codes, CleanCodes
<1>11. CASE \E f \in Failures : TransitionFailure(s, f[1], f[2])
  BY <1>11, FailuresAssumption, FailKeepsFeed
<1> QED
  BY <1>1, <1>2, <1>3, <1>4, <1>5, <1>6, <1>7, <1>8, <1>9, <1>10, <1>11 DEF Step

LEMMA CommitKeepsFeed ==
  ASSUME FeedInv, RegistryInv, NEW s, NEW ceiling \in SUBSET Scopes, VerifyCommit(s, ceiling),
         UNCHANGED client
  PROVE  FeedInv'
<1>1. s \in DOMAIN records /\ records[s] \in Record
  BY RecordFacts DEF VerifyCommit, Verifiable
<1>2. PICK r : r = [records[s] EXCEPT !.auth = "Authorizing", !.updated = now,
                    !.granted = Effective(records[s].request, ceiling),
                    !.revision = unattended.revision]
  OBVIOUS
<1>3. r.auth = "Authorizing"
  BY <1>1, <1>2 DEF Record
<1>4. <<"AuthorizationChanged">> \in Seq(EventKinds)
  BY DEF EventKinds
<1> QED
  BY <1>1, <1>2, <1>3, <1>4, DecidedKeepsFeed DEF VerifyCommit

LEMMA NextKeepsFeed ==
  ASSUME FeedInv, RegistryInv, Next, UNCHANGED client
  PROVE  FeedInv'
<1>0. ASSUME UNCHANGED registry PROVE FeedInv'
  <2>1. UNCHANGED <<records, events, nextSequence>> /\ PendingSessions' = PendingSessions
    BY <1>0 DEF registry, PendingSessions
  <2>2. IsFiniteSet(DOMAIN records')
    BY <2>1 DEF FeedInv, HistoryOK
  <2> QED
    BY <2>1, <2>2, QuietKeepsFeed
<1>1. CASE \E s \in Sessions : Step(s)
  BY <1>1, StepKeepsFeed
<1>2. CASE Revoke
  <2>1. "Revoked" \in Terminal /\ "PolicyChanged" \in Terminal /\ "GrantRevoked" \in Codes
    BY DEF Terminal, Codes, CleanCodes
  <2>2. CASE \E key \in Keys : RevokePeer(key)
    BY <2>1, <2>2, FailAllKeepsFeed DEF RevokePeer, PeerSessions, Active
  <2>3. CASE RevokeUnattended
    BY <2>1, <2>3, FailAllKeepsFeed DEF RevokeUnattended, UnattendedSessions, Active
  <2> QED
    BY <1>2, <2>2, <2>3 DEF Revoke
<1>3. CASE Verification
  BY <1>0, <1>3, CommitKeepsFeed DEF Verification, VerifyStart, VerifyRefused
<1>4. CASE Material \/ Leasing \/ Tick
  BY <1>0, <1>4 DEF Material, Leasing, AcquireLease, ReleaseLease, Tick
<1> QED
  BY <1>1, <1>2, <1>3, <1>4 DEF Next

LEMMA FeedInitInv == FeedInit => FeedInv /\ AuthorizationInv
<1> SUFFICES ASSUME FeedInit PROVE FeedInv /\ AuthorizationInv
  OBVIOUS
<1>1. AuthorizationInv
  BY InitInv DEF FeedInit
<1>2. DOMAIN records = {} /\ events = << >> /\ nextSequence = 0 /\ cursor = None
  BY DEF FeedInit, Init
<1>3. IsFiniteSet(DOMAIN records)
  BY <1>2, FS_EmptySet
<1>4. HistoryOK
  BY <1>2, <1>3, LimitsAssumption DEF HistoryOK
<1>5. PendingSessions = {}
  BY <1>2 DEF PendingSessions
<1> QED
  BY <1>1, <1>2, <1>4, <1>5 DEF FeedInv, Reasked, CursorOK, NoPromptLost

\* The inductive invariant of the feed: the history has no gap and no
\* session that waits has a last word other than its request.
THEOREM FeedInvariant == FeedSpec => [](AuthorizationInv /\ FeedInv)
<1>1. AuthorizationInv /\ FeedInv /\ [FeedNext]_feedVars => (AuthorizationInv /\ FeedInv)'
  <2> SUFFICES ASSUME AuthorizationInv, FeedInv, [FeedNext]_feedVars
               PROVE  AuthorizationInv' /\ FeedInv'
    OBVIOUS
  <2>1. CASE Next /\ UNCHANGED client
    BY <2>1, NextInv, NextKeepsFeed DEF AuthorizationInv
  <2>2. CASE Poll
    <3>1. UNCHANGED vars
      BY <2>2 DEF Poll
    <3> QED
      BY <2>2, <3>1, NextInv, PollKeepsFeed DEF AuthorizationInv
  <2>3. CASE ClientRestart
    <3>1. UNCHANGED vars /\ cursor' = None
      BY <2>3 DEF ClientRestart
    <3>2. UNCHANGED <<records, events, nextSequence>> /\ PendingSessions' = PendingSessions
      BY <3>1 DEF vars, registry, PendingSessions
    <3>3. HistoryOK' /\ Reasked' /\ CursorOK' /\ NoPromptLost'
      BY <3>1, <3>2 DEF FeedInv, HistoryOK, Reasked, Asks, CursorOK, NoPromptLost
    <3> QED
      BY <3>1, <3>3, NextInv DEF FeedInv
  <2>4. CASE UNCHANGED feedVars
    <3>1. UNCHANGED vars /\ UNCHANGED client
      BY <2>4 DEF feedVars, client
    <3>2. UNCHANGED <<records, events, nextSequence>> /\ PendingSessions' = PendingSessions
      BY <3>1 DEF vars, registry, PendingSessions
    <3>3. IsFiniteSet(DOMAIN records')
      BY <3>2 DEF FeedInv, HistoryOK
    <3> QED
      BY <3>1, <3>2, <3>3, NextInv, QuietKeepsFeed
  <2> QED
    BY <2>1, <2>2, <2>3, <2>4 DEF FeedNext
<1> QED
  BY <1>1, FeedInitInv, PTL DEF FeedSpec

\* build_subscription: whatever the history has lost, a session that waits
\* for its user is shown, or the next page of the client's cursor shows it.
THEOREM NoPromptIsLost == FeedSpec => []NoPromptLost
<1>1. FeedInv => NoPromptLost
  BY DEF FeedInv
<1> QED
  BY <1>1, FeedInvariant, PTL

-----------------------------------------------------------------------------
(* The limits of the registry. *)

\* Nobody is added, and nobody starts to wait.
NobodyAdded ==
    /\ DOMAIN records' \subseteq DOMAIN records
    /\ PendingIncoming(records') \subseteq PendingIncoming(records)

WithinLimits ==
    /\ Cardinality(DOMAIN records) <= RecordLimit
    /\ Cardinality(PendingIncoming(records)) <= PendingLimit

LimitsInv ==
    /\ now \in Time
    /\ verifying \in [session: Sessions, epoch: 1..MaxRevision] \cup {None}
    /\ WithinLimits

LEMMA FewerWithinLimits ==
  ASSUME HistoryOK, WithinLimits, NobodyAdded
  PROVE  WithinLimits'
<1>1. IsFiniteSet(DOMAIN records) /\ IsFiniteSet(PendingIncoming(records))
  BY FS_Subset DEF HistoryOK, PendingIncoming
<1>2. /\ Cardinality(DOMAIN records') <= Cardinality(DOMAIN records)
      /\ Cardinality(DOMAIN records') \in Nat /\ Cardinality(DOMAIN records) \in Nat
  BY <1>1, FS_Subset, FS_CardinalityType DEF NobodyAdded
<1>3. /\ Cardinality(PendingIncoming(records')) <= Cardinality(PendingIncoming(records))
      /\ Cardinality(PendingIncoming(records')) \in Nat
      /\ Cardinality(PendingIncoming(records)) \in Nat
  BY <1>1, FS_Subset, FS_CardinalityType DEF NobodyAdded
<1>4. RecordLimit \in Nat /\ PendingLimit \in Nat
  BY LimitsAssumption
<1> QED
  BY <1>2, <1>3, <1>4 DEF WithinLimits

LEMMA SetAddsNobody ==
  ASSUME RegistryInv, NEW s \in DOMAIN records, NEW r, Set(s, r),
         r.request.role = records[s].request.role,
         r.auth \in Pending => records[s].auth \in Pending
  PROVE  NobodyAdded
<1>1. DOMAIN records' = DOMAIN records
  BY DEF RegistryInv, RecordsOK, Set
<1>2. records'[s] = r /\ \A t \in DOMAIN records : t # s => records'[t] = records[t]
  BY DEF RegistryInv, RecordsOK, Set
<1> QED
  BY <1>1, <1>2 DEF NobodyAdded, PendingIncoming

LEMMA FailAllAddsNobody ==
  ASSUME RegistryInv, NEW S, NEW state \in Terminal, NEW code \in Codes,
         FailAll(S, state, code)
  PROVE  NobodyAdded
<1>1. DOMAIN records' = DOMAIN records
  BY DEF FailAll
<1>2. ASSUME NEW t \in PendingIncoming(records')
      PROVE  t \in PendingIncoming(records)
  <2>1. t \in DOMAIN records /\ records'[t].auth \in Pending /\ records'[t].request.role = "Agent"
    BY <1>1 DEF PendingIncoming
  <2>2. CASE t \in S
    <3>1. Failed(records[t], state, code).auth \notin Pending
      BY <2>1, FailedOK DEF IsTerminal, Terminal, Pending
    <3> QED
      BY <2>1, <2>2, <3>1 DEF FailAll
  <2>3. CASE t \notin S
    BY <2>1, <2>3 DEF FailAll, PendingIncoming
  <2> QED
    BY <2>2, <2>3
<1> QED
  BY <1>1, <1>2 DEF NobodyAdded

\* begin_verified_incoming, begin_outgoing check both limits after pruning.
LEMMA BeginWithinLimits ==
  ASSUME HistoryOK, WithinLimits, NEW s, NEW req, Begin(s, req)
  PROVE  WithinLimits'
<1>1. PICK K \in Kept :
        LET left == [t \in K |-> records[t]]
        IN  IF s \notin K /\ Cardinality(K) < RecordLimit /\ HasRoom(left, req)
            THEN records' = [t \in K \cup {s} |->
                                IF t = s THEN NewRecord(req) ELSE records[t]]
            ELSE Prune(K)
  BY DEF Begin
<1>2. K \subseteq DOMAIN records
  BY KeptIncluded
<1>3. CASE Prune(K)
  <2>1. NobodyAdded
    BY <1>2, <1>3 DEF Prune, NobodyAdded, PendingIncoming
  <2> QED
    BY <2>1, FewerWithinLimits
<1>4. CASE /\ s \notin K /\ Cardinality(K) < RecordLimit
           /\ HasRoom([t \in K |-> records[t]], req)
           /\ records' = [t \in K \cup {s} |-> IF t = s THEN NewRecord(req) ELSE records[t]]
  <2> DEFINE P == {t \in K : records[t].request.role = "Agent" /\ records[t].auth \in Pending}
  <2>1. IsFiniteSet(DOMAIN records) /\ IsFiniteSet(K) /\ IsFiniteSet(P)
    BY <1>2, FS_Subset DEF HistoryOK
  <2>2. RecordLimit \in Nat /\ PendingLimit \in Nat
    BY LimitsAssumption
  <2>3. DOMAIN records' = K \cup {s} /\ records'[s] = NewRecord(req)
        /\ \A t \in K : records'[t] = records[t]
    BY <1>4
  <2>4. Cardinality(DOMAIN records') <= RecordLimit
    <3>1. Cardinality(K \cup {s}) = Cardinality(K) + 1 /\ Cardinality(K) \in Nat
      BY <1>4, <2>1, FS_AddElement, FS_CardinalityType
    <3> QED
      BY <1>4, <2>2, <2>3, <3>1
  <2>5. PendingIncoming([t \in K |-> records[t]]) = P
    BY DEF PendingIncoming
  <2>6. Cardinality(P) \in Nat /\ s \notin P
    BY <1>4, <2>1, FS_CardinalityType
  <2>7. CASE req.role = "Agent"
    <3>1. Cardinality(P) < PendingLimit
      BY <1>4, <2>5, <2>7 DEF HasRoom
    <3>2. PendingIncoming(records') \subseteq P \cup {s}
      BY <2>3 DEF PendingIncoming
    <3>3. IsFiniteSet(P \cup {s}) /\ Cardinality(P \cup {s}) = Cardinality(P) + 1
      <4> HIDE DEF P
      <4> QED
        BY <2>1, <2>6, FS_AddElement
    <3>4. /\ Cardinality(PendingIncoming(records')) <= Cardinality(P \cup {s})
          /\ Cardinality(PendingIncoming(records')) \in Nat
      <4> HIDE DEF P
      <4> QED
        BY <3>2, <3>3, FS_Subset, FS_CardinalityType
    <3> QED
      BY <2>2, <2>4, <2>6, <3>1, <3>3, <3>4 DEF WithinLimits
  <2>8. CASE req.role # "Agent"
    <3>1. NewRecord(req).request.role # "Agent"
      BY <2>8 DEF NewRecord
    <3>2. PendingIncoming(records') \subseteq PendingIncoming(records)
      BY <1>2, <2>3, <3>1 DEF PendingIncoming
    <3>3. IsFiniteSet(PendingIncoming(records))
      BY <2>1, FS_Subset DEF PendingIncoming
    <3>4. /\ Cardinality(PendingIncoming(records')) <= Cardinality(PendingIncoming(records))
          /\ Cardinality(PendingIncoming(records')) \in Nat
          /\ Cardinality(PendingIncoming(records)) \in Nat
      BY <3>2, <3>3, FS_Subset, FS_CardinalityType
    <3> QED
      BY <2>2, <2>4, <3>4 DEF WithinLimits
  <2> QED
    BY <2>7, <2>8
<1> QED
  BY <1>1, <1>3, <1>4

LEMMA StepWithinLimits ==
  ASSUME HistoryOK, WithinLimits, RegistryInv, NEW s \in Sessions, Step(s)
  PROVE  WithinLimits'
<1>0. s \in DOMAIN records => records[s] \in Record
  BY RecordFacts
<1>1. CASE \E req \in Requests : Begin(s, req)
  BY <1>1, BeginWithinLimits
<1>2. CASE \E key \in Keys : BindKey(s, key)
  <2>1. PICK key \in Keys : BindKey(s, key)
    BY <1>2
  <2>2. s \in DOMAIN records /\ records[s] \in Record
    BY <1>0, <2>1 DEF BindKey
  <2>3. PICK r : r = [records[s] EXCEPT !.boundKey = key, !.updated = now]
    OBVIOUS
  <2>4. r.auth = records[s].auth /\ r.request = records[s].request
    BY <2>2, <2>3 DEF Record
  <2> QED
    BY <2>1, <2>2, <2>3, <2>4, SetAddsNobody, FewerWithinLimits DEF BindKey
<1>3. CASE \E device \in Keys, key \in Keys : BindOutgoing(s, device, key)
  <2>1. PICK device \in Keys, key \in Keys : BindOutgoing(s, device, key)
    BY <1>3
  <2>2. s \in DOMAIN records /\ records[s] \in Record
    BY <1>0, <2>1 DEF BindOutgoing
  <2>3. PICK r : r = [records[s] EXCEPT !.request.key = key, !.boundKey = key, !.updated = now]
    OBVIOUS
  <2>4. r.auth = records[s].auth /\ r.request.role = records[s].request.role
    BY <2>2, <2>3 DEF Record, IncomingRequest, OutgoingRequest
  <2> QED
    BY <2>1, <2>2, <2>3, <2>4, SetAddsNobody, FewerWithinLimits DEF BindOutgoing
<1>4. CASE \E scopes \in SUBSET Scopes : Approve(s, scopes)
  <2>1. PICK scopes \in SUBSET Scopes : Approve(s, scopes)
    BY <1>4
  <2>2. s \in DOMAIN records /\ records[s] \in Record /\ records[s].auth \in Pending
    BY <1>0, <2>1 DEF Approve, Pending
  <2>3. PICK r : r = [records[s] EXCEPT !.auth = "Authorizing", !.updated = now,
                        !.granted = Effective(records[s].request, scopes)]
    OBVIOUS
  <2>4. r.request = records[s].request
    BY <2>2, <2>3 DEF Record
  <2> QED
    BY <2>1, <2>2, <2>3, <2>4, SetAddsNobody, FewerWithinLimits DEF Approve
<1>5. CASE Deny(s)
  <2>1. s \in DOMAIN records /\ records[s] \in Record /\ records[s].auth \in Pending
    BY <1>0, <1>5 DEF Deny, Pending
  <2>2. PICK r : r = [records[s] EXCEPT !.auth = "Denied", !.updated = now,
                                 !.failure = "ConsentDenied"]
    OBVIOUS
  <2>3. r.request = records[s].request
    BY <2>1, <2>2 DEF Record
  <2> QED
    BY <1>5, <2>1, <2>2, <2>3, SetAddsNobody, FewerWithinLimits DEF Deny
<1>6. CASE ConsentTooLate(s)
  <2>1. s \in DOMAIN records /\ records[s] \in Record /\ records[s].auth \in Pending
    BY <1>0, <1>6 DEF ConsentTooLate, Pending
  <2>2. PICK r : r = [records[s] EXCEPT !.auth = "Expired", !.updated = now,
                                 !.failure = "AuthorizationTimeout"]
    OBVIOUS
  <2>3. r.request = records[s].request
    BY <2>1, <2>2 DEF Record
  <2> QED
    BY <1>6, <2>1, <2>2, <2>3, SetAddsNobody, FewerWithinLimits DEF ConsentTooLate
<1>7. CASE ExpirePending(s)
  <2>1. s \in DOMAIN records /\ records[s] \in Record /\ records[s].auth \in Pending
    BY <1>0, <1>7 DEF ExpirePending, Pending
  <2>2. PICK r : r = [records[s] EXCEPT !.auth = "Expired", !.updated = now,
                    !.failure = "AuthorizationTimeout", !.granted = {}]
    OBVIOUS
  <2>3. r.request = records[s].request
    BY <2>1, <2>2 DEF Record
  <2> QED
    BY <1>7, <2>1, <2>2, <2>3, SetAddsNobody, FewerWithinLimits DEF ExpirePending
<1>8. CASE \E g \in NextGrant, rev \in {None} \cup 1..MaxRevision : InstallGrant(s, g, rev)
  <2>1. PICK g \in NextGrant, rev \in {None} \cup 1..MaxRevision : InstallGrant(s, g, rev)
    BY <1>8
  <2>2. s \in DOMAIN records /\ records[s] \in Record /\ records[s].auth \in Pending
    BY <1>0, <2>1 DEF InstallGrant, Pending
  <2>3. PICK r : r = [records[s] EXCEPT !.auth = "Granted", !.grant = g,
                    !.granted = g.scopes, !.revision = g.revision,
                    !.route = "Connecting", !.updated = now]
    OBVIOUS
  <2>4. r.request = records[s].request
    BY <2>2, <2>3 DEF Record
  <2> QED
    BY <2>1, <2>2, <2>3, <2>4, SetAddsNobody, FewerWithinLimits DEF InstallGrant
<1>9. CASE MarkStreaming(s)
  <2>1. s \in DOMAIN records /\ records[s] \in Record
    BY <1>0, <1>9 DEF MarkStreaming
  <2>2. PICK r : r = [records[s] EXCEPT !.route = "Connected", !.media = "Streaming",
                                 !.updated = now]
    OBVIOUS
  <2>3. r.request = records[s].request /\ r.auth = records[s].auth
    BY <2>1, <2>2 DEF Record
  <2> QED
    BY <1>9, <2>1, <2>2, <2>3, SetAddsNobody, FewerWithinLimits DEF MarkStreaming
<1>10. ASSUME NEW state \in Terminal, NEW code \in Codes, TransitionFailure(s, state, code)
       PROVE  WithinLimits'
  <2>1. s \in DOMAIN records /\ Set(s, Failed(records[s], state, code))
    BY <1>10 DEF TransitionFailure
  <2>2. /\ Failed(records[s], state, code).request = records[s].request
        /\ Failed(records[s], state, code).auth \notin Pending
    BY <2>1, FailedOK DEF IsTerminal, Terminal, Pending
  <2> QED
    BY <2>1, <2>2, SetAddsNobody, FewerWithinLimits
<1>11. CASE ExpireGrant(s)
  BY <1>10, <1>11 DEF ExpireGrant, Terminal, Codes, CleanCodes
<1>12. CASE \E f \in Failures : TransitionFailure(s, f[1], f[2])
  BY <1>10, <1>12, FailuresAssumption
<1> QED
  BY <1>1, <1>2, <1>3, <1>4, <1>5, <1>6, <1>7, <1>8, <1>9, <1>11, <1>12 DEF Step

LEMMA NextWithinLimits ==
  ASSUME HistoryOK, LimitsInv, RegistryInv, [Next]_vars
  PROVE  LimitsInv'
<1>0. ASSUME UNCHANGED registry PROVE WithinLimits'
  BY <1>0 DEF registry, LimitsInv, WithinLimits, PendingIncoming
<1>1. CASE (\E s \in Sessions : Step(s)) /\ UNCHANGED <<now, unattended, verifying, leases>>
  BY <1>1, StepWithinLimits DEF LimitsInv
<1>2. CASE Revoke /\ UNCHANGED <<now, unattended, verifying, leases>>
  <2>1. "Revoked" \in Terminal /\ "PolicyChanged" \in Terminal /\ "GrantRevoked" \in Codes
    BY DEF Terminal, Codes, CleanCodes
  <2>2. \E S : FailAll(S, "Revoked", "GrantRevoked") \/ FailAll(S, "PolicyChanged", "GrantRevoked")
    BY <1>2 DEF Revoke, RevokePeer, RevokeUnattended
  <2>3. NobodyAdded
    BY <2>1, <2>2, FailAllAddsNobody
  <2> QED
    BY <1>2, <2>3, FewerWithinLimits DEF LimitsInv
<1>3. CASE Verification /\ UNCHANGED <<now, leases>>
  <2>1. ASSUME NEW s \in Sessions, NEW epoch \in 1..MaxRevision, VerifyStart(s, epoch)
        PROVE  LimitsInv'
    BY <1>0, <1>3, <2>1 DEF VerifyStart, LimitsInv
  <2>2. ASSUME NEW s \in Sessions, NEW ceiling \in SUBSET Scopes, VerifyCommit(s, ceiling)
        PROVE  LimitsInv'
    <3>1. s \in DOMAIN records /\ records[s] \in Record /\ records[s].auth \in Pending
      BY <2>2, RecordFacts DEF VerifyCommit, Verifiable, Pending
    <3>2. PICK r : r = [records[s] EXCEPT !.auth = "Authorizing", !.updated = now,
                    !.granted = Effective(records[s].request, ceiling),
                    !.revision = unattended.revision]
      OBVIOUS
    <3>3. r.request = records[s].request
      BY <3>1, <3>2 DEF Record
    <3>4. NobodyAdded
      BY <2>2, <3>1, <3>2, <3>3, SetAddsNobody DEF VerifyCommit
    <3>5. verifying' = None
      BY <2>2 DEF VerifyCommit
    <3> QED
      BY <1>3, <3>4, <3>5, FewerWithinLimits DEF LimitsInv
  <2>3. ASSUME NEW s \in Sessions, VerifyRefused(s)
        PROVE  LimitsInv'
    BY <1>0, <1>3, <2>3 DEF VerifyRefused, LimitsInv
  <2> QED
    BY <1>3, <2>1, <2>2, <2>3 DEF Verification
<1>4. CASE Material /\ UNCHANGED <<now, leases>>
  BY <1>0, <1>4 DEF Material, LimitsInv
<1>5. CASE Leasing /\ UNCHANGED <<now, unattended, verifying>>
  BY <1>0, <1>5 DEF Leasing, AcquireLease, ReleaseLease, LimitsInv
<1>6. CASE Tick
  <2>1. now' \in Time
    BY <1>6, LimitsAssumption DEF Tick, LimitsInv, Time
  <2> QED
    BY <1>0, <1>6, <2>1 DEF Tick, LimitsInv
<1>7. CASE UNCHANGED vars
  BY <1>0, <1>7 DEF vars, LimitsInv
<1> QED
  BY <1>1, <1>2, <1>3, <1>4, <1>5, <1>6, <1>7 DEF Next

\* prune_authorization_records, push_event: however long the registry runs,
\* its records, the requests that wait and its history stay within their
\* limits, and the events are numbered without a gap.
THEOREM RegistryTypes == FeedSpec => []TypeOK
<1>1. FeedInit => LimitsInv
  <2> SUFFICES ASSUME FeedInit PROVE LimitsInv
    OBVIOUS
  <2>1. DOMAIN records = {} /\ PendingIncoming(records) = {} /\ now = 0 /\ verifying = None
    BY DEF FeedInit, Init, PendingIncoming
  <2>2. Cardinality({}) = 0
    BY FS_EmptySet
  <2> QED
    BY <2>1, <2>2, LimitsAssumption DEF LimitsInv, WithinLimits, Time
<1>2. (AuthorizationInv /\ FeedInv) /\ LimitsInv /\ [FeedNext]_feedVars => LimitsInv'
  <2> SUFFICES ASSUME AuthorizationInv, FeedInv, LimitsInv, [FeedNext]_feedVars
               PROVE  LimitsInv'
    OBVIOUS
  <2>1. [Next]_vars
    BY DEF FeedNext, feedVars, Poll, ClientRestart
  <2> QED
    BY <2>1, NextWithinLimits DEF AuthorizationInv, FeedInv
<1>3. (AuthorizationInv /\ FeedInv) /\ LimitsInv => TypeOK
  <2> SUFFICES ASSUME AuthorizationInv, FeedInv, LimitsInv PROVE TypeOK
    OBVIOUS
  <2>1. \A s \in DOMAIN records : records[s] \in Record
    BY RecordFacts DEF AuthorizationInv
  <2>2. \A i \in 1..Len(events) : events[i].kind \in EventKinds
    <3> SUFFICES ASSUME NEW i \in 1..Len(events) PROVE events[i].kind \in EventKinds
      OBVIOUS
    <3>1. events[i] \in Event
      BY DEF FeedInv, HistoryOK
    <3> QED
      BY <3>1 DEF Event
  <2> QED
    BY <2>1, <2>2 DEF TypeOK, AuthorizationInv, RegistryInv, Typed, RecordsOK, FeedInv, HistoryOK,
                      LimitsInv, WithinLimits
<1> QED
  BY <1>1, <1>2, <1>3, FeedInvariant, PTL DEF FeedSpec

-----------------------------------------------------------------------------
(* LAN admission. *)

\* Where a handler holds the gate.
Gated == {"admitting", "reserving", "inserting", "binding", "issuing",
          "preparing", "installing", "routing", "sending", "committing"}

\* The gate excludes handlers and administrator from each other.
GateInv ==
    /\ pc = [h \in Handlers |-> pc[h]]
    /\ \A h \in Handlers : pc[h] \in Gated => gate = h
    /\ admin.task # "none" => gate = Admin

\* What a handler checked under the gate still holds when it uses it.
CheckedInv ==
    \A h \in Handlers :
        /\ pc[h] \in {"reserving", "inserting"} => Peer(h) \in trusted
        /\ pc[h] = "inserting" => SessionOf[h] \notin live

\* A record whose key is not trusted has ended, except for those the
\* transition under way is about to end; media runs for a granted or a
\* cancelled record; without material no unattended record is authorized,
\* except for those the change under way is about to end.
RecordsInv ==
    \A s \in DOMAIN records :
        LET r == records[s]
        IN  /\ r.request.key \notin trusted =>
                 \/ IsTerminal(r)
                 \/ admin.task = "distrust" /\ admin.key = r.request.key
            /\ s \in live => r.auth = "Granted" \/ r.cancelled
            /\ r.request.mode = "Unattended" => r.auth # "AwaitingLocalConsent"
            /\ r.request.mode = "Unattended" /\ r.auth \in {"Authorizing", "Granted"} =>
                 unattended.enabled \/ admin.task = "disable"

LanInv == AuthorizationInv /\ GateInv /\ CheckedInv /\ RecordsInv

-----------------------------------------------------------------------------
(* What the operations of a handler do to the records. *)

\* From r to n: the same request; an end is final; a grant is kept or
\* cancelled; only a decision authorizes, without a user only while the
\* material is enabled.
Follows(r, n) ==
    /\ n.request = r.request
    /\ IsTerminal(r) => IsTerminal(n)
    /\ r.auth = "Granted" \/ r.cancelled => n.auth = "Granted" \/ n.cancelled
    /\ n.auth = "AwaitingLocalConsent" => r.auth = "AwaitingLocalConsent"
    /\ n.auth \in {"Authorizing", "Granted"} =>
         \/ r.auth \in {"Authorizing", "Granted", "AwaitingLocalConsent"}
         \/ unattended.enabled

RecordsFollow ==
    \A s \in DOMAIN records' : s \in DOMAIN records /\ Follows(records[s], records'[s])

\* A step on the registry that neither creates records nor touches the clock.
RecordsStep ==
    /\ RegistryStep \/ UNCHANGED registry
    /\ RecordsFollow
    /\ UNCHANGED <<now, unattended, leases>>
    /\ MaterialHeld'

LEMMA RecordsStepInv ==
  ASSUME AuthorizationInv, RecordsStep
  PROVE  AuthorizationInv'
<1>1. CASE RegistryStep
  BY <1>1, RegistryStepInv DEF RecordsStep
<1>2. CASE UNCHANGED registry
  BY <1>2, RegistryKept DEF RecordsStep, AuthorizationInv, RegistryInv, Typed, LeasesOK
<1> QED
  BY <1>1, <1>2 DEF RecordsStep

LEMMA SetFollows ==
  ASSUME RegistryInv, NEW s \in DOMAIN records, NEW r, Set(s, r),
         Follows(records[s], r)
  PROVE  RecordsFollow
<1>1. DOMAIN records' = DOMAIN records /\ records'[s] = r
  BY DEF RegistryInv, RecordsOK, Set
<1>2. \A t \in DOMAIN records : t # s => records'[t] = records[t]
  BY DEF RegistryInv, RecordsOK, Set
<1>3. \A t \in DOMAIN records : Follows(records[t], records[t])
  BY DEF Follows
<1> QED
  BY <1>1, <1>2, <1>3 DEF RecordsFollow

LEMMA KeptFollows ==
  ASSUME UNCHANGED registry
  PROVE  RecordsFollow
BY DEF RecordsFollow, Follows, registry

LEMMA FailedFollows ==
  ASSUME RegistryInv, NEW s \in DOMAIN records, NEW state \in Terminal, NEW code \in Codes
  PROVE  Follows(records[s], Failed(records[s], state, code))
<1> DEFINE n == Failed(records[s], state, code)
<1>1. n.request = records[s].request /\ n.cancelled /\ IsTerminal(n)
  BY FailedOK
<1>2. n.auth \notin {"AwaitingLocalConsent", "Authorizing", "Granted"}
  BY <1>1 DEF IsTerminal, Terminal
<1> QED
  BY <1>1, <1>2 DEF Follows

LEMMA TransitionFailureFollows ==
  ASSUME RegistryInv, NEW s, NEW state \in Terminal, NEW code \in Codes,
         TransitionFailure(s, state, code)
  PROVE  RegistryStep /\ RecordsFollow
BY TransitionFailureStep, FailedFollows, SetFollows DEF TransitionFailure

LEMMA FailAllFollows ==
  ASSUME RegistryInv, NEW S, NEW state \in Terminal, NEW code \in Codes,
         FailAll(S, state, code)
  PROVE  /\ RegistryStep
         /\ RecordsFollow
         /\ \A s \in S \cap DOMAIN records' : IsTerminal(records'[s])
<1>1. DOMAIN records' = DOMAIN records
  BY DEF FailAll
<1>2. ASSUME NEW s \in DOMAIN records
      PROVE  Follows(records[s], records'[s]) /\ (s \in S => IsTerminal(records'[s]))
  <2>1. CASE s \in S
    <3>1. records'[s] = Failed(records[s], state, code)
      BY <2>1 DEF FailAll
    <3> QED
      BY <3>1, FailedFollows, FailedOK
  <2>2. CASE s \notin S
    BY <2>2 DEF FailAll, Follows
  <2> QED
    BY <2>1, <2>2
<1> QED
  BY <1>1, <1>2, FailAllStep DEF RecordsFollow

LEMMA BindKeyFollows ==
  ASSUME RegistryInv, NEW s, NEW key \in Keys, BindKey(s, key)
  PROVE  RegistryStep /\ RecordsFollow
<1> DEFINE n == [records[s] EXCEPT !.boundKey = key, !.updated = now]
<1>1. s \in DOMAIN records /\ Set(s, n)
  BY DEF BindKey
<1>2. /\ n.request = records[s].request /\ n.auth = records[s].auth
      /\ n.cancelled = records[s].cancelled
  BY <1>1, RecordFacts DEF Record
<1>3. Follows(records[s], n)
  BY <1>2 DEF Follows, IsTerminal
<1> QED
  BY <1>1, <1>3, SetFollows, BindKeyStep

LEMMA ApproveFollows ==
  ASSUME RegistryInv, NEW s, NEW scopes \in SUBSET Scopes, Approve(s, scopes)
  PROVE  RegistryStep /\ RecordsFollow
<1> DEFINE n == [records[s] EXCEPT !.auth = "Authorizing", !.updated = now,
                    !.granted = Effective(records[s].request, scopes)]
<1>1. s \in DOMAIN records /\ records[s].auth = "AwaitingLocalConsent" /\ Set(s, n)
  BY DEF Approve
<1>2. /\ n.request = records[s].request /\ n.auth = "Authorizing"
      /\ n.cancelled = records[s].cancelled
  BY <1>1, RecordFacts DEF Record
<1>3. Follows(records[s], n)
  BY <1>1, <1>2 DEF Follows, IsTerminal, Terminal
<1> QED
  BY <1>1, <1>3, SetFollows, ApproveStep

LEMMA EndUndecidedFollows ==
  ASSUME RegistryInv, NEW s, ConsentTooLate(s) \/ Deny(s) \/ ExpirePending(s)
  PROVE  RegistryStep /\ RecordsFollow
<1>1. RegistryStep
  BY ConsentTooLateStep, DenyStep, ExpirePendingStep
<1>2. s \in DOMAIN records /\ records[s].auth = "AwaitingLocalConsent" /\ records[s] \in Record
  BY RecordFacts DEF ConsentTooLate, Deny, ExpirePending
<1>3. PICK n : /\ Set(s, n)
               /\ n.request = records[s].request /\ n.auth \in Terminal
               /\ n.cancelled = records[s].cancelled
  <2>1. CASE ConsentTooLate(s)
    <3> DEFINE m == [records[s] EXCEPT !.auth = "Expired", !.updated = now,
                                           !.failure = "AuthorizationTimeout"]
    <3>1. Set(s, m)
      BY <2>1 DEF ConsentTooLate
    <3>2. /\ m.request = records[s].request /\ m.auth \in Terminal
          /\ m.cancelled = records[s].cancelled
      BY <1>2 DEF Record, Terminal
    <3> QED
      BY <3>1, <3>2
  <2>2. CASE Deny(s)
    <3> DEFINE m == [records[s] EXCEPT !.auth = "Denied", !.updated = now,
                                           !.failure = "ConsentDenied"]
    <3>1. Set(s, m)
      BY <2>2 DEF Deny
    <3>2. /\ m.request = records[s].request /\ m.auth \in Terminal
          /\ m.cancelled = records[s].cancelled
      BY <1>2 DEF Record, Terminal
    <3> QED
      BY <3>1, <3>2
  <2>3. CASE ExpirePending(s)
    <3> DEFINE m == [records[s] EXCEPT !.auth = "Expired", !.updated = now,
                                           !.failure = "AuthorizationTimeout", !.granted = {}]
    <3>1. Set(s, m)
      BY <2>3 DEF ExpirePending
    <3>2. /\ m.request = records[s].request /\ m.auth \in Terminal
          /\ m.cancelled = records[s].cancelled
      BY <1>2 DEF Record, Terminal
    <3> QED
      BY <3>1, <3>2
  <2> QED
    BY <2>1, <2>2, <2>3
<1>4. Follows(records[s], n)
  BY <1>2, <1>3 DEF Follows, IsTerminal, Terminal
<1> QED
  BY <1>1, <1>2, <1>3, <1>4, SetFollows

\* A record is authorized without a user only while the material is held.
LEMMA VerifyCommitFollows ==
  ASSUME AuthorizationInv, NEW s, NEW ceiling \in SUBSET Scopes, VerifyCommit(s, ceiling)
  PROVE  RegistryStep /\ RecordsFollow
<1> DEFINE n == [records[s] EXCEPT !.auth = "Authorizing", !.updated = now,
                    !.granted = Effective(records[s].request, ceiling),
                    !.revision = unattended.revision]
<1>1. /\ s \in DOMAIN records /\ records[s].auth = "VerifyingUnattendedCredential"
      /\ Set(s, n) /\ unattended.enabled
  BY DEF VerifyCommit, Verifiable, AuthorizationInv, MaterialHeld
<1>2. /\ n.request = records[s].request /\ n.auth = "Authorizing"
      /\ n.cancelled = records[s].cancelled
  BY <1>1, RecordFacts DEF Record, AuthorizationInv
<1>3. Follows(records[s], n)
  BY <1>1, <1>2 DEF Follows, IsTerminal, Terminal
<1> QED
  BY <1>1, <1>3, SetFollows, VerifyCommitStep DEF AuthorizationInv

LEMMA InstallGrantFollows ==
  ASSUME RegistryInv, NEW s, NEW g \in Grants, NEW rev, InstallGrant(s, g, rev)
  PROVE  RegistryStep /\ RecordsFollow
<1> DEFINE n == [records[s] EXCEPT !.auth = "Granted", !.grant = g,
                    !.granted = g.scopes, !.revision = g.revision,
                    !.route = "Connecting", !.updated = now]
<1>1. s \in DOMAIN records /\ records[s].auth = "Authorizing" /\ Set(s, n)
  BY DEF InstallGrant
<1>2. /\ n.request = records[s].request /\ n.auth = "Granted"
      /\ n.cancelled = records[s].cancelled
  BY <1>1, RecordFacts DEF Record
<1>3. Follows(records[s], n)
  BY <1>1, <1>2 DEF Follows, IsTerminal, Terminal
<1> QED
  BY <1>1, <1>3, SetFollows, InstallGrantStep

-----------------------------------------------------------------------------
(* The steps of a handler. *)

\* A handler step after which it has nothing checked, that keeps the gate
\* where it needs it and otherwise releases it.
PlainStep(h) ==
    /\ \E there :
          /\ Goto(h, there)
          /\ there \notin {"reserving", "inserting"}
          /\ \/ gate' = gate /\ (there \in Gated => gate = h)
             \/ there \notin Gated /\ Release(h)
    /\ UNCHANGED <<trusted, live, admin>>
    /\ RecordsStep

\* The records follow: nothing that had ended or lost its ground comes back.
LEMMA RecordsInvFollows ==
  ASSUME LanInv, RecordsFollow, UNCHANGED <<trusted, unattended, admin>>,
         \A s \in live' : s \in live \/ s \notin DOMAIN records'
  PROVE  RecordsInv'
<1> SUFFICES ASSUME NEW s \in DOMAIN records'
             PROVE  LET r == records'[s]
                    IN  /\ r.request.key \notin trusted =>
                             \/ IsTerminal(r)
                             \/ admin.task = "distrust" /\ admin.key = r.request.key
                        /\ s \in live' => r.auth = "Granted" \/ r.cancelled
                        /\ r.request.mode = "Unattended" => r.auth # "AwaitingLocalConsent"
                        /\ r.request.mode = "Unattended" /\ r.auth \in {"Authorizing", "Granted"} =>
                             unattended.enabled \/ admin.task = "disable"
  BY DEF RecordsInv, IsTerminal
<1>1. s \in DOMAIN records /\ Follows(records[s], records'[s])
  BY DEF RecordsFollow
<1> QED
  BY <1>1 DEF LanInv, RecordsInv, Follows

LEMMA GateAfterRelease ==
  ASSUME GateInv, NEW h \in Handlers, NEW there, Goto(h, there), admin' = admin,
         \/ gate' = gate /\ (there \in Gated => gate = h)
         \/ there \notin Gated /\ Release(h)
         \/ gate = None /\ gate' = h
  PROVE  GateInv'
<1>1. /\ pc'[h] = there /\ \A g \in Handlers : g # h => pc'[g] = pc[g]
      /\ pc' = [g \in Handlers |-> pc'[g]]
  BY DEF GateInv, Goto
<1>2. None \notin Handlers /\ None # Admin /\ Admin \notin Handlers
  BY HandlersAssumption
<1>3. CASE gate' = gate /\ (there \in Gated => gate = h)
  BY <1>1, <1>3 DEF GateInv
<1>4. CASE there \notin Gated /\ Release(h)
  BY <1>1, <1>2, <1>4 DEF GateInv, Release
<1>5. CASE gate = None /\ gate' = h
  BY <1>1, <1>2, <1>5 DEF GateInv
<1> QED
  BY <1>3, <1>4, <1>5

LEMMA PlainStepInv ==
  ASSUME LanInv, NEW h \in Handlers, PlainStep(h)
  PROVE  LanInv'
<1>1. AuthorizationInv'
  BY RecordsStepInv DEF LanInv, PlainStep
<1>2. PICK there :
        /\ Goto(h, there)
        /\ there \notin {"reserving", "inserting"}
        /\ \/ gate' = gate /\ (there \in Gated => gate = h)
           \/ there \notin Gated /\ Release(h)
  BY DEF PlainStep
<1>3. GateInv'
  BY <1>2, GateAfterRelease DEF PlainStep, LanInv
<1>4. pc'[h] = there /\ \A g \in Handlers : g # h => pc'[g] = pc[g]
  BY <1>2 DEF Goto, LanInv, GateInv
<1>5. CheckedInv'
  BY <1>2, <1>4 DEF LanInv, CheckedInv, PlainStep, Peer
<1>6. RecordsInv'
  BY RecordsInvFollows DEF PlainStep, RecordsStep
<1> QED
  BY <1>1, <1>3, <1>5, <1>6 DEF LanInv

LEMMA AdvancePlain ==
  ASSUME LanInv, NEW h \in Handlers, NEW there,
         there \notin {"reserving", "inserting"}, there \in Gated => gate = h, Advance(h, there)
  PROVE  PlainStep(h)
<1>1. RecordsStep
  BY KeptFollows DEF Advance, RecordsStep, LanInv, AuthorizationInv, MaterialHeld
<1> QED
  BY <1>1 DEF Advance, PlainStep

LEMMA ReturnPlain ==
  ASSUME LanInv, NEW h \in Handlers, Return(h)
  PROVE  PlainStep(h)
<1>1. RecordsStep
  BY KeptFollows DEF Return, RecordsStep, LanInv, AuthorizationInv, MaterialHeld
<1> QED
  BY <1>1 DEF Return, Done, PlainStep, Gated

LEMMA AbortPlain ==
  ASSUME LanInv, NEW h \in Handlers, Abort(h)
  PROVE  PlainStep(h)
<1>1. RecordsStep
  BY KeptFollows DEF Abort, RecordsStep, LanInv, AuthorizationInv, MaterialHeld
<1> QED
  BY <1>1 DEF Abort, PlainStep, Gated

\* record_failure changes an active record or nothing.
LEMMA RecordFailureStep ==
  ASSUME LanInv, NEW h \in Handlers, NEW state \in Terminal, NEW code \in Codes,
         RecordFailure(h, state, code), UNCHANGED <<now, unattended, verifying, leases>>
  PROVE  RecordsStep
<1>1. MaterialHeld'
  BY DEF LanInv, AuthorizationInv, MaterialHeld
<1>2. CASE UNCHANGED registry
  BY <1>1, <1>2, KeptFollows DEF RecordsStep
<1>3. CASE TransitionFailure(SessionOf[h], state, code)
  BY <1>1, <1>3, TransitionFailureFollows DEF RecordsStep, LanInv, AuthorizationInv
<1> QED
  BY <1>2, <1>3 DEF RecordFailure

LEMMA RefusePlain ==
  ASSUME LanInv, NEW h \in Handlers, NEW state \in Terminal, NEW code \in Codes,
         Refuse(h, state, code)
  PROVE  PlainStep(h)
BY RecordFailureStep DEF Refuse, Done, PlainStep, Gated

\* The ends and reasons a handler reports.
LEMMA Reported ==
  /\ {"Revoked", "Expired", "Denied", "PolicyChanged"} \subseteq Terminal
  /\ {"PolicyChanged", "TrustRequired", "AuthorizationTimeout", "CredentialInvalid",
      "EncoderUnavailable", "RouteLost", "GrantExpired", "GrantRevoked"} \subseteq Codes
BY DEF Terminal, Codes, CleanCodes, DenialCodes, RouteCodes, MediaCodes

\* The gate is taken while it is free, so nobody else is inside.
LEMMA EnterInv ==
  ASSUME LanInv, NEW h \in Handlers, EnterAdmission(h) \/ EnterIssuance(h)
  PROVE  LanInv'
<1>1. PICK there \in {"admitting", "issuing"} :
        /\ gate = None /\ gate' = h /\ Goto(h, there)
        /\ UNCHANGED <<now, unattended, verifying, leases, registry, trusted, live, admin>>
  BY DEF EnterAdmission, EnterIssuance, Enter
<1>2. RecordsStep
  BY <1>1, KeptFollows DEF RecordsStep, LanInv, AuthorizationInv, MaterialHeld
<1>3. AuthorizationInv' /\ RecordsInv'
  BY <1>1, <1>2, RecordsStepInv, RecordsInvFollows DEF LanInv, RecordsStep
<1>4. GateInv'
  BY <1>1, GateAfterRelease DEF LanInv
<1>5. pc'[h] = there /\ \A g \in Handlers : g # h => pc'[g] = pc[g]
  BY <1>1 DEF Goto, LanInv, GateInv
<1>6. CheckedInv'
  BY <1>1, <1>5 DEF LanInv, CheckedInv, Peer
<1> QED
  BY <1>3, <1>4, <1>6 DEF LanInv

\* A check under the gate that lets the handler go on.
LEMMA CheckInv ==
  ASSUME LanInv, NEW h \in Handlers, NEW there \in {"reserving", "inserting"},
         gate = h, Goto(h, there), Peer(h) \in trusted, SessionOf[h] \notin live \/ there # "inserting",
         UNCHANGED <<now, unattended, verifying, leases, registry, gate, trusted, live, admin>>
  PROVE  LanInv'
<1>1. RecordsStep
  BY KeptFollows DEF RecordsStep, LanInv, AuthorizationInv, MaterialHeld
<1>2. AuthorizationInv' /\ RecordsInv'
  BY <1>1, RecordsStepInv, RecordsInvFollows DEF LanInv, RecordsStep
<1>3. GateInv'
  BY GateAfterRelease DEF LanInv
<1>4. pc'[h] = there /\ \A g \in Handlers : g # h => pc'[g] = pc[g]
  BY DEF Goto, LanInv, GateInv
<1>5. CheckedInv'
  BY <1>4 DEF LanInv, CheckedInv, Peer
<1> QED
  BY <1>2, <1>3, <1>5 DEF LanInv

LEMMA CheckTrustInv ==
  ASSUME LanInv, NEW h \in Handlers, CheckTrust(h)
  PROVE  LanInv'
<1>1. gate = h
  BY DEF CheckTrust, At, LanInv, GateInv, Gated
<1>2. CASE StillTrusted(h) /\ Advance(h, "reserving")
  BY <1>1, <1>2, CheckInv DEF StillTrusted, Advance
<1>3. CASE Return(h)
  BY <1>3, ReturnPlain, PlainStepInv
<1> QED
  BY <1>2, <1>3 DEF CheckTrust

LEMMA ReserveInv ==
  ASSUME LanInv, NEW h \in Handlers, Reserve(h)
  PROVE  LanInv'
<1>1. gate = h /\ Peer(h) \in trusted
  BY DEF Reserve, At, LanInv, GateInv, CheckedInv, Gated
<1>2. CASE Return(h)
  BY <1>2, ReturnPlain, PlainStepInv
<1>3. CASE SessionOf[h] \notin reserved \cup live
  BY <1>1, <1>3, CheckInv DEF Reserve
<1> QED
  BY <1>2, <1>3 DEF Reserve

\* The record that is inserted has a trusted key and no media yet, and is not
\* authorized.
LEMMA InsertInv ==
  ASSUME LanInv, NEW h \in Handlers, Insert(h)
  PROVE  LanInv'
<1> DEFINE s == SessionOf[h]
           req == RequestOf[h]
<1>1. gate = h /\ Peer(h) \in trusted /\ s \notin live
  BY DEF Insert, At, LanInv, GateInv, CheckedInv, Gated
<1>2. s \in Sessions /\ req \in Requests /\ req \in IncomingRequest
  BY HandlersAssumption
<1>3. CASE Return(h)
  BY <1>3, ReturnPlain, PlainStepInv
<1>4. CASE /\ Begin(s, req)
           /\ IF nextInstance' > nextInstance
              THEN Goto(h, "binding") /\ UNCHANGED <<gate, reserved>>
              ELSE Done(h)
           /\ UNCHANGED <<now, unattended, verifying, leases, trusted, live, admin>>
  <2>1. AuthorizationInv'
    <3>1. RegistryStep
      BY <1>2, <1>4, BeginStep DEF LanInv, AuthorizationInv
    <3>2. MaterialHeld'
      BY <1>4 DEF LanInv, AuthorizationInv, MaterialHeld
    <3> QED
      BY <1>4, <3>1, <3>2, RegistryStepInv DEF LanInv
  <2>2. PICK there \in {"binding", "done"} :
          /\ Goto(h, there)
          /\ \/ gate' = gate /\ there = "binding"
             \/ Release(h) /\ there = "done"
    BY <1>4 DEF Done
  <2>3. GateInv'
    BY <1>1, <1>4, <2>2, GateAfterRelease DEF LanInv, Gated
  <2>4. pc'[h] = there /\ \A g \in Handlers : g # h => pc'[g] = pc[g]
    BY <2>2 DEF Goto, LanInv, GateInv
  <2>5. CheckedInv'
    BY <1>4, <2>4 DEF LanInv, CheckedInv, Peer
  <2>6. RecordsInv'
    <3>1. PICK K \in Kept :
            \/ /\ s \notin K
               /\ records' = [t \in K \cup {s} |->
                                IF t = s THEN NewRecord(req) ELSE records[t]]
            \/ records' = [t \in K |-> records[t]]
      BY <1>4 DEF Begin, Prune
    <3>2. K \subseteq DOMAIN records
      BY KeptIncluded
    <3>3. /\ NewRecord(req).request = req
          /\ NewRecord(req).auth \in {"AwaitingLocalConsent", "VerifyingUnattendedCredential"}
          /\ req.mode = "Unattended" => NewRecord(req).auth # "AwaitingLocalConsent"
      BY <1>2 DEF NewRecord, IncomingRequest
    <3>4. ASSUME NEW t \in DOMAIN records'
          PROVE  \/ t \in DOMAIN records /\ records'[t] = records[t]
                 \/ t = s /\ records'[t] = NewRecord(req)
      BY <3>1, <3>2
    <3> QED
      BY <1>1, <1>4, <3>3, <3>4 DEF LanInv, RecordsInv, Peer, IsTerminal
  <2> QED
    BY <2>1, <2>3, <2>5, <2>6 DEF LanInv
<1> QED
  BY <1>3, <1>4 DEF Insert

LEMMA BindInv ==
  ASSUME LanInv, NEW h \in Handlers, Bind(h)
  PROVE  LanInv'
<1>1. gate = h
  BY DEF Bind, At, LanInv, GateInv, Gated
<1>2. CASE Return(h)
  BY <1>2, ReturnPlain, PlainStepInv
<1>3. CASE /\ BindKey(SessionOf[h], Peer(h))
           /\ Goto(h, "admitted")
           /\ gate' = None
           /\ UNCHANGED <<now, unattended, verifying, leases, reserved, trusted, live, admin>>
  <2>1. Peer(h) \in Keys
    BY HandlersAssumption DEF Peer, IncomingRequest
  <2>2. RecordsStep
    BY <1>3, <2>1, BindKeyFollows DEF RecordsStep, LanInv, AuthorizationInv, MaterialHeld
  <2>3. PlainStep(h)
    BY <1>1, <1>3, <2>2 DEF PlainStep, Release, Gated
  <2> QED
    BY <2>3, PlainStepInv
<1> QED
  BY <1>2, <1>3 DEF Bind

\* The handlers' other steps before the decision.
LEMMA DecisionInv ==
  ASSUME LanInv, NEW h \in Handlers,
         Receive(h) \/ Audit(h) \/ Wait(h) \/ Verify(h) \/ Refused(h) \/ Live(h)
  PROVE  LanInv'
<1>1. CASE Receive(h) \/ Audit(h) \/ Refused(h) \/ Live(h)
  BY <1>1, AdvancePlain, ReturnPlain, AbortPlain, RefusePlain, Reported, PlainStepInv
     DEF Receive, Audit, Refused, Live, Gated
<1>2. CASE Wait(h)
  <2>1. CASE Turn(h, "refused", ExpirePending(SessionOf[h]))
    <3>1. RecordsStep
      BY <2>1, EndUndecidedFollows DEF Turn, RecordsStep, LanInv, AuthorizationInv, MaterialHeld
    <3>2. PlainStep(h)
      BY <2>1, <3>1 DEF Turn, PlainStep, Gated
    <3> QED
      BY <3>2, PlainStepInv
  <2>2. CASE Return(h) \/ Advance(h, "approved") \/ Advance(h, "refused")
    BY <2>2, ReturnPlain, AdvancePlain, PlainStepInv DEF Gated
  <2> QED
    BY <1>2, <2>1, <2>2 DEF Wait
<1>3. CASE Verify(h)
  <2>1. CASE Advance(h, "refused")
    BY <2>1, AdvancePlain, PlainStepInv DEF Gated
  <2>2. CASE /\ \E epoch \in 1..MaxRevision :
                  VerifyStart(SessionOf[h], epoch) /\ Goto(h, "verifying")
             /\ UNCHANGED <<now, leases, gate, reserved, trusted, live, admin>>
    <3>1. RecordsStep
      BY <2>2, KeptFollows DEF VerifyStart, RecordsStep, MaterialHeld
    <3>2. PlainStep(h)
      BY <2>2, <3>1 DEF PlainStep, Gated
    <3> QED
      BY <3>2, PlainStepInv
  <2>3. CASE /\ \/ VerifyCommit(SessionOf[h], Scopes) /\ Goto(h, "approved")
                \/ VerifyRefused(SessionOf[h]) /\ Goto(h, "refused")
             /\ UNCHANGED <<now, leases, gate, reserved, trusted, live, admin>>
    <3>1. MaterialHeld' /\ UNCHANGED unattended
      BY <2>3 DEF VerifyCommit, VerifyRefused, MaterialHeld
    <3>2. (RegistryStep \/ UNCHANGED registry) /\ RecordsFollow
      BY <2>3, VerifyCommitFollows, KeptFollows DEF VerifyRefused, LanInv
    <3>3. PlainStep(h)
      BY <2>3, <3>1, <3>2 DEF PlainStep, RecordsStep, Gated
    <3> QED
      BY <3>3, PlainStepInv
  <2> QED
    BY <1>3, <2>1, <2>2, <2>3 DEF Verify
<1> QED
  BY <1>1, <1>2, <1>3

\* Under the gate the handler installs what the record holds.
LEMMA InstallInv ==
  ASSUME LanInv, NEW h \in Handlers, Install(h)
  PROVE  LanInv'
<1>1. gate = h
  BY DEF Install, At, LanInv, GateInv, Gated
<1>2. CASE HasRecord(h) /\ Turn(h, "routing", InstallGrant(SessionOf[h], SignedGrant(h), None))
  <2>1. SignedGrant(h) \in Grants
    <3>1. Rec(h) \in Record /\ now \in Nat
      BY <1>2, RecordFacts DEF HasRecord, Rec, LanInv, AuthorizationInv
    <3> QED
      BY <3>1, HandlersAssumption DEF SignedGrant, Grants, Record
  <2>2. RecordsStep
    BY <1>2, <2>1, InstallGrantFollows
       DEF Turn, RecordsStep, LanInv, AuthorizationInv, MaterialHeld
  <2>3. PlainStep(h)
    BY <1>1, <1>2, <2>2 DEF Turn, PlainStep
  <2> QED
    BY <2>3, PlainStepInv
<1>3. CASE Refuse(h, "Revoked", "PolicyChanged") \/ Abort(h)
  BY <1>3, RefusePlain, AbortPlain, Reported, PlainStepInv
<1> QED
  BY <1>2, <1>3 DEF Install

\* A failure that leaves the handler to finalize.
LEMMA RouteLostInv ==
  ASSUME LanInv, NEW h \in Handlers, RecordFailure(h, "Revoked", "RouteLost"),
         Goto(h, "finalizing"), Release(h),
         UNCHANGED <<now, unattended, verifying, leases, reserved, trusted, live, admin>>
  PROVE  LanInv'
<1>1. RecordsStep
  BY RecordFailureStep, Reported
<1>2. PlainStep(h)
  BY <1>1 DEF PlainStep, Gated
<1> QED
  BY <1>2, PlainStepInv

\* Media starts for a granted record.
LEMMA CommitInv ==
  ASSUME LanInv, NEW h \in Handlers, Commit(h)
  PROVE  LanInv'
<1>1. gate = h
  BY DEF Commit, At, LanInv, GateInv, Gated
<1>2. CASE /\ Committable(h)
           /\ live' = live \cup {SessionOf[h]}
           /\ Done(h)
           /\ UNCHANGED <<now, unattended, verifying, leases, registry, trusted, admin>>
  <2>1. RecordsStep
    BY <1>2, KeptFollows DEF RecordsStep, LanInv, AuthorizationInv, MaterialHeld
  <2>2. AuthorizationInv'
    BY <2>1, RecordsStepInv DEF LanInv
  <2>3. GateInv'
    BY <1>2, GateAfterRelease DEF LanInv, Done, Gated
  <2>4. pc'[h] = "done" /\ \A g \in Handlers : g # h => pc'[g] = pc[g]
    BY <1>2 DEF Done, Goto, LanInv, GateInv
  <2>5. \A g \in Handlers : g # h => pc[g] \notin Gated
    BY <1>1 DEF LanInv, GateInv
  <2>6. CheckedInv'
    BY <1>2, <2>4, <2>5 DEF CheckedInv, Gated
  <2>7. RecordsInv'
    BY <1>2 DEF LanInv, RecordsInv, Committable, Rec, registry, IsTerminal
  <2> QED
    BY <2>2, <2>3, <2>6, <2>7 DEF LanInv
<1>3. CASE ~(/\ Committable(h) /\ live' = live \cup {SessionOf[h]})
  BY <1>3, RouteLostInv DEF Commit
<1> QED
  BY <1>2, <1>3, RouteLostInv DEF Commit

LEMMA IssuanceInv ==
  ASSUME LanInv, NEW h \in Handlers,
         FinalTrust(h) \/ Prepare(h) \/ Route(h) \/ Send(h) \/ Finalize(h)
  PROVE  LanInv'
<1>1. pc[h] \in Gated => gate = h
  BY DEF LanInv, GateInv
<1>2. CASE FinalTrust(h) \/ Prepare(h) \/ Route(h)
  <2>1. gate = h
    BY <1>1, <1>2 DEF FinalTrust, Prepare, Route, At, Gated
  <2>2. PlainStep(h)
    BY <1>2, <2>1, AdvancePlain, AbortPlain, RefusePlain, Reported
       DEF FinalTrust, Prepare, Route
  <2> QED
    BY <2>2, PlainStepInv
<1>3. CASE Finalize(h)
  BY <1>3, RefusePlain, Reported, PlainStepInv DEF Finalize
<1>4. CASE Send(h)
  <2>1. gate = h
    BY <1>1, <1>4 DEF Send, At, Gated
  <2>2. CASE Advance(h, "committing") \/ Abort(h)
    BY <2>1, <2>2, AdvancePlain, AbortPlain, PlainStepInv
  <2>3. CASE ~(Advance(h, "committing") \/ Abort(h))
    BY <1>4, <2>3, RouteLostInv DEF Send
  <2> QED
    BY <2>2, <2>3
<1> QED
  BY <1>2, <1>3, <1>4

-----------------------------------------------------------------------------
(* The user, the administrator and the media. *)

\* While the gate is free nobody is inside and no change is under way.
LEMMA GateFree ==
  ASSUME LanInv, gate \in {None, Admin}
  PROVE  /\ \A h \in Handlers : pc[h] \notin Gated
         /\ gate = None => admin.task = "none"
<1>1. gate \notin Handlers /\ None # Admin
  BY HandlersAssumption
<1> QED
  BY <1>1 DEF LanInv, GateInv

\* A change under way holds the gate.
LEMMA GateOfAdmin ==
  ASSUME LanInv, admin.task # "none"
  PROVE  gate = Admin
BY DEF LanInv, GateInv

\* The administrator's steps keep every handler where it is.
LEMMA HandlersStay ==
  ASSUME LanInv, gate \in {None, Admin}, pc' = pc, admin'.task # "none" => gate' = Admin
  PROVE  GateInv' /\ CheckedInv'
<1>1. \A h \in Handlers : pc'[h] \notin Gated
  BY GateFree
<1>2. pc' = [h \in Handlers |-> pc'[h]]
  BY DEF LanInv, GateInv
<1> QED
  BY <1>1, <1>2 DEF GateInv, CheckedInv, Gated

\* A step on the records by somebody without the gate.
LEMMA OutsideInv ==
  ASSUME LanInv, RecordsStep, UNCHANGED <<pc, gate, trusted, admin>>, live' \subseteq live
  PROVE  LanInv'
<1>1. AuthorizationInv' /\ RecordsInv'
  BY RecordsStepInv, RecordsInvFollows DEF LanInv, RecordsStep
<1>2. GateInv' /\ CheckedInv'
  BY DEF LanInv, GateInv, CheckedInv, Peer
<1> QED
  BY <1>1, <1>2 DEF LanInv

LEMMA AnswerInv ==
  ASSUME LanInv, Answer
  PROVE  LanInv'
<1>1. PICK s \in Sessions : Approve(s, Scopes) \/ Deny(s) \/ ConsentTooLate(s)
  BY DEF Answer
<1>2. RegistryStep /\ RecordsFollow
  BY <1>1, ApproveFollows, EndUndecidedFollows DEF LanInv, AuthorizationInv
<1>3. RecordsStep
  BY <1>2 DEF Answer, RecordsStep, LanInv, AuthorizationInv, MaterialHeld
<1> QED
  BY <1>3, OutsideInv DEF Answer, lan

\* The registry is untouched.
LEMMA RegistryUntouched ==
  ASSUME LanInv, UNCHANGED <<now, leases, registry>>, MaterialHeld',
         unattended' \in [enabled: BOOLEAN, epoch: Nat, revision: Nat]
  PROVE  AuthorizationInv'
BY RegistryKept DEF LanInv, AuthorizationInv, RegistryInv, Typed, LeasesOK

\* A key that loses its trust: its records are the ones under way.
LEMMA BeginDistrustInv ==
  ASSUME LanInv, NEW key \in Keys, BeginDistrust(key)
  PROVE  LanInv'
<1>1. /\ gate = None /\ gate' = Admin /\ pc' = pc /\ live' = live
      /\ trusted' = trusted \ {key} /\ admin' = [task |-> "distrust", key |-> key, victims |-> {}]
      /\ UNCHANGED <<now, unattended, verifying, leases, registry>>
  BY DEF BeginDistrust, Start
<1>2. AuthorizationInv'
  BY <1>1, RegistryUntouched
     DEF LanInv, AuthorizationInv, RegistryInv, Typed, MaterialHeld
<1>3. GateInv' /\ CheckedInv'
  BY <1>1, HandlersStay
<1>4. admin.task = "none"
  BY <1>1, GateFree
<1>5. RecordsInv'
  BY <1>1, <1>4 DEF LanInv, RecordsInv, registry, IsTerminal
<1> QED
  BY <1>2, <1>3, <1>5 DEF LanInv

\* They end before the gate is released.
LEMMA DistrustInv ==
  ASSUME LanInv, Distrust
  PROVE  LanInv'
<1> DEFINE S == PeerSessions(admin.key)
<1>1. /\ admin.task = "distrust" /\ FailAll(S, "Revoked", "GrantRevoked")
      /\ UNCHANGED <<now, verifying, leases, pc, unattended, gate, trusted, live>>
      /\ admin' = [admin EXCEPT !.task = "terminate", !.victims = S]
  BY DEF Distrust, Busy, RevokePeer
<1>2. gate = Admin
  BY <1>1, GateOfAdmin
<1>3. /\ RegistryStep /\ RecordsFollow
      /\ \A s \in S \cap DOMAIN records' : IsTerminal(records'[s])
  BY <1>1, FailAllFollows, Reported DEF LanInv, AuthorizationInv
<1>4. AuthorizationInv'
  BY <1>1, <1>3, RegistryStepInv DEF LanInv, AuthorizationInv, MaterialHeld
<1>5. GateInv' /\ CheckedInv'
  BY <1>1, <1>2, HandlersStay
<1>6. RecordsInv'
  <2> SUFFICES ASSUME NEW s \in DOMAIN records'
               PROVE  LET r == records'[s]
                      IN  /\ r.request.key \notin trusted => IsTerminal(r)
                          /\ s \in live => r.auth = "Granted" \/ r.cancelled
                          /\ r.request.mode = "Unattended" => r.auth # "AwaitingLocalConsent"
                          /\ r.request.mode = "Unattended" /\ r.auth \in {"Authorizing", "Granted"} =>
                               unattended.enabled
    BY <1>1 DEF RecordsInv, IsTerminal
  <2>1. s \in DOMAIN records /\ Follows(records[s], records'[s])
    BY <1>3 DEF RecordsFollow
  <2>2. records[s].request.key = admin.key => IsTerminal(records[s]) \/ s \in S
    BY <2>1 DEF PeerSessions, Active
  <2> QED
    BY <1>1, <1>3, <2>1, <2>2 DEF LanInv, RecordsInv, Follows
<1> QED
  BY <1>4, <1>5, <1>6 DEF LanInv

\* Material that goes away: the records that rest on it are the ones under
\* way, and nobody is verified meanwhile.
LEMMA BeginDisableInv ==
  ASSUME LanInv, BeginDisable
  PROVE  LanInv'
<1>1. /\ gate = None /\ gate' = Admin /\ pc' = pc /\ live' = live /\ trusted' = trusted
      /\ admin' = [task |-> "disable", key |-> None, victims |-> {}]
      /\ verifying = None /\ Renewed(FALSE)
      /\ UNCHANGED <<now, verifying, leases, registry>>
  BY DEF BeginDisable, Start, DisableUnattended, MaterialFree
<1>2. unattended' \in [enabled: BOOLEAN, epoch: Nat, revision: Nat]
  BY <1>1 DEF Renewed, LanInv, AuthorizationInv, RegistryInv, Typed
<1>3. AuthorizationInv'
  BY <1>1, <1>2, RegistryUntouched DEF MaterialHeld
<1>4. GateInv' /\ CheckedInv'
  BY <1>1, HandlersStay
<1>5. admin.task = "none"
  BY <1>1, GateFree
<1>6. RecordsInv'
  BY <1>1, <1>5 DEF LanInv, RecordsInv, registry, IsTerminal
<1> QED
  BY <1>3, <1>4, <1>6 DEF LanInv

LEMMA DisableInv ==
  ASSUME LanInv, Disable
  PROVE  LanInv'
<1> DEFINE S == UnattendedSessions
<1>1. /\ admin.task = "disable" /\ FailAll(S, "PolicyChanged", "GrantRevoked")
      /\ UNCHANGED <<now, verifying, leases, pc, unattended, gate, trusted, live>>
      /\ admin' = [admin EXCEPT !.task = "terminate", !.victims = S]
  BY DEF Disable, Busy, RevokeUnattended
<1>2. gate = Admin
  BY <1>1, GateOfAdmin
<1>3. /\ RegistryStep /\ RecordsFollow
      /\ \A s \in S \cap DOMAIN records' : IsTerminal(records'[s])
  BY <1>1, FailAllFollows, Reported DEF LanInv, AuthorizationInv
<1>4. AuthorizationInv'
  BY <1>1, <1>3, RegistryStepInv DEF LanInv, AuthorizationInv, MaterialHeld
<1>5. GateInv' /\ CheckedInv'
  BY <1>1, <1>2, HandlersStay
<1>6. RecordsInv'
  <2> SUFFICES ASSUME NEW s \in DOMAIN records'
               PROVE  LET r == records'[s]
                      IN  /\ r.request.key \notin trusted => IsTerminal(r)
                          /\ s \in live => r.auth = "Granted" \/ r.cancelled
                          /\ r.request.mode = "Unattended" => r.auth # "AwaitingLocalConsent"
                          /\ r.request.mode = "Unattended" => r.auth \notin {"Authorizing", "Granted"}
    BY <1>1 DEF RecordsInv, IsTerminal
  <2>1. s \in DOMAIN records /\ Follows(records[s], records'[s])
    BY <1>3 DEF RecordsFollow
  <2>2. records[s].request.mode = "Unattended" => IsTerminal(records[s]) \/ s \in S
    BY <2>1 DEF UnattendedSessions, Active
  <2>3. IsTerminal(records'[s]) => records'[s].auth \notin {"Authorizing", "Granted"}
    BY DEF IsTerminal, Terminal
  <2> QED
    BY <1>1, <1>3, <2>1, <2>2, <2>3 DEF LanInv, RecordsInv, Follows
<1> QED
  BY <1>4, <1>5, <1>6 DEF LanInv

LEMMA TerminateInv ==
  ASSUME LanInv, Terminate
  PROVE  LanInv'
<1>1. /\ admin.task = "terminate" /\ admin' = Idle /\ gate' = None /\ live' \subseteq live
      /\ UNCHANGED <<now, verifying, leases, pc, unattended, trusted, registry>>
  BY DEF Terminate, Busy
<1>2. gate = Admin
  BY <1>1, GateOfAdmin
<1>3. AuthorizationInv'
  BY <1>1, RegistryUntouched DEF LanInv, AuthorizationInv, RegistryInv, Typed, MaterialHeld
<1>4. GateInv' /\ CheckedInv'
  BY <1>1, <1>2, HandlersStay DEF Idle
<1>5. RecordsInv'
  BY <1>1 DEF LanInv, RecordsInv, registry, IsTerminal
<1> QED
  BY <1>3, <1>4, <1>5 DEF LanInv

\* Trust and material that come back allow more.
LEMMA PairInv ==
  ASSUME LanInv, NEW key \in Keys, Pair(key)
  PROVE  LanInv'
<1>1. /\ trusted' = trusted \cup {key} /\ UNCHANGED <<pc, gate, reserved, live, admin>>
      /\ UNCHANGED <<now, unattended, verifying, leases, registry>>
  BY DEF Pair, vars
<1>2. AuthorizationInv'
  BY <1>1, RegistryUntouched DEF LanInv, AuthorizationInv, RegistryInv, Typed, MaterialHeld
<1>3. GateInv' /\ CheckedInv'
  BY <1>1 DEF LanInv, GateInv, CheckedInv, Peer
<1>4. RecordsInv'
  BY <1>1 DEF LanInv, RecordsInv, registry, IsTerminal
<1> QED
  BY <1>2, <1>3, <1>4 DEF LanInv

LEMMA EnableInv ==
  ASSUME LanInv, Enable
  PROVE  LanInv'
<1>1. /\ verifying = None /\ Renewed(TRUE)
      /\ UNCHANGED <<now, verifying, leases, registry>>
      /\ UNCHANGED <<pc, gate, reserved, trusted, live, admin>>
  BY DEF Enable, EnableUnattended, MaterialFree, lan
<1>2. unattended' \in [enabled: BOOLEAN, epoch: Nat, revision: Nat] /\ unattended'.enabled
  BY <1>1 DEF Renewed, LanInv, AuthorizationInv, RegistryInv, Typed
<1>3. AuthorizationInv'
  BY <1>1, <1>2, RegistryUntouched DEF MaterialHeld
<1>4. GateInv' /\ CheckedInv'
  BY <1>1 DEF LanInv, GateInv, CheckedInv, Peer
<1>5. RecordsInv'
  BY <1>1, <1>2 DEF LanInv, RecordsInv, registry, IsTerminal
<1> QED
  BY <1>3, <1>4, <1>5 DEF LanInv

LEMMA MediaInv ==
  ASSUME LanInv, NEW s \in Sessions, MediaEnds(s) \/ Query(s)
  PROVE  LanInv'
<1>1. /\ UNCHANGED <<now, unattended, verifying, leases, pc, gate, trusted, admin>>
      /\ live' \subseteq live
      /\ \/ UNCHANGED registry
         \/ TransitionFailure(s, "Expired", "GrantExpired")
         \/ TransitionFailure(s, "Revoked", "RouteLost")
  BY DEF MediaEnds, Query, ExpireGrant, lan
<1>2. RecordsStep
  BY <1>1, KeptFollows, TransitionFailureFollows, Reported
     DEF RecordsStep, LanInv, AuthorizationInv, MaterialHeld
<1> QED
  BY <1>1, <1>2, OutsideInv

LEMMA TimePasses ==
  ASSUME LanInv, now' \in Nat, UNCHANGED <<unattended, verifying, leases, registry, lan>>
  PROVE  LanInv'
<1>1. AuthorizationInv'
  BY RegistryKept DEF LanInv, AuthorizationInv, RegistryInv, Typed, LeasesOK, MaterialHeld
<1>2. GateInv' /\ CheckedInv' /\ RecordsInv'
  BY DEF LanInv, GateInv, CheckedInv, RecordsInv, Peer, registry, lan, IsTerminal
<1> QED
  BY <1>1, <1>2 DEF LanInv

-----------------------------------------------------------------------------
(* The composition. *)

LEMMA LanInitInv == LanInit => LanInv
<1> SUFFICES ASSUME LanInit PROVE LanInv
  OBVIOUS
<1>1. AuthorizationInv
  BY InitInv DEF LanInit
<1>2. DOMAIN records = {}
  BY DEF LanInit, Init
<1>3. GateInv /\ CheckedInv
  BY DEF LanInit, GateInv, CheckedInv, Gated, Idle
<1> QED
  BY <1>1, <1>2, <1>3 DEF LanInv, RecordsInv

LEMMA LanNextInv ==
  ASSUME LanInv, [LanNext]_lanVars
  PROVE  LanInv'
<1>1. ASSUME NEW h \in Handlers, Handle(h) \/ EnterAdmission(h) \/ EnterIssuance(h)
      PROVE  LanInv'
  BY <1>1, EnterInv, CheckTrustInv, ReserveInv, InsertInv, BindInv, DecisionInv,
     InstallInv, CommitInv, IssuanceInv DEF Handle
<1>2. CASE Answer
  BY <1>2, AnswerInv
<1>3. ASSUME NEW key \in Keys, BeginDistrust(key) \/ Pair(key)
      PROVE  LanInv'
  BY <1>3, BeginDistrustInv, PairInv
<1>4. CASE Distrust \/ BeginDisable \/ Disable \/ Terminate \/ Enable
  BY <1>4, DistrustInv, BeginDisableInv, DisableInv, TerminateInv, EnableInv
<1>5. ASSUME NEW s \in Sessions, MediaEnds(s) \/ Query(s)
      PROVE  LanInv'
  BY <1>5, MediaInv
<1>6. CASE LanTick
  BY <1>6, TimePasses DEF LanTick, Tick, LanInv, AuthorizationInv, RegistryInv, Typed
<1>7. CASE UNCHANGED lanVars
  BY <1>7, TimePasses DEF lanVars, vars, LanInv, AuthorizationInv, RegistryInv, Typed
<1> QED
  BY <1>1, <1>2, <1>3, <1>4, <1>5, <1>6, <1>7 DEF LanNext

\* The inductive invariant of LAN admission: that of the registry, who holds
\* authorization_security_gate, what was checked under it, and the records a
\* change under way has still to end.
THEOREM AdmissionInvariant == LanSpec => []LanInv
<1>1. LanInv /\ [LanNext]_lanVars => LanInv'
  BY LanNextInv
<1> QED
  BY <1>1, LanInitInv, PTL DEF LanSpec

\* transition_trusted_device: once the gate is free again, a key that is not
\* trusted has no request that could still be granted and no media that
\* still holds a lease.
THEOREM DistrustIsComplete == LanSpec => []DistrustedHasNothing
<1>1. LanInv => DistrustedHasNothing
  <2> SUFFICES ASSUME LanInv, gate = None, NEW s \in DOMAIN records,
                      records[s].request.key \notin trusted
               PROVE  IsTerminal(records[s]) /\ (s \in live => records[s].cancelled)
    BY DEF DistrustedHasNothing
  <2>1. admin.task = "none"
    BY GateFree
  <2>2. IsTerminal(records[s])
    BY <2>1 DEF LanInv, RecordsInv
  <2>3. records[s].auth # "Granted"
    BY <2>2 DEF IsTerminal, Terminal
  <2> QED
    BY <2>2, <2>3 DEF LanInv, RecordsInv
<1> QED
  BY <1>1, AdmissionInvariant, PTL

\* disable_unattended_access: once the gate is free again, no request that
\* was authorized by the material outlives it.
THEOREM DisableIsComplete == LanSpec => []DisabledHasNothing
<1>1. LanInv => DisabledHasNothing
  <2> SUFFICES ASSUME LanInv, gate = None, ~unattended.enabled, NEW s \in DOMAIN records,
                      records[s].request.mode = "Unattended"
               PROVE  /\ records[s].auth \notin {"Authorizing", "Granted"}
                      /\ s \in live => records[s].cancelled
    BY DEF DisabledHasNothing
  <2>1. admin.task = "none"
    BY GateFree
  <2>2. records[s].auth \notin {"Authorizing", "Granted"}
    BY <2>1 DEF LanInv, RecordsInv
  <2> QED
    BY <2>2 DEF LanInv, RecordsInv
<1> QED
  BY <1>1, AdmissionInvariant, PTL

\* The registry's promise holds in the composition too: whatever handlers,
\* administrator and media do, a LAN session has only scopes that were
\* requested, lie under every ceiling and were approved for its record.
THEOREM LanGrantsWithinApproval == LanSpec => []GrantWithinApproval
<1>1. LanInv => GrantWithinApproval
  BY WithinApproval DEF LanInv
<1> QED
  BY <1>1, AdmissionInvariant, PTL
=============================================================================
