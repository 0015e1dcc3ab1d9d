----------------------------- MODULE WanService -----------------------------
(* The service around the coordinator                                        *)
(* (apps/mrd-service/src/wan_session/service.rs, webrtc.rs, media.rs and     *)
(* handlers/session.rs): the calls that IPC, the signaling dispatcher and    *)
(* the heartbeat make under the authorization security gate, and the owned   *)
(* task that takes a session from AccessBound to Streaming, with its         *)
(* ownership lease, its cancellation and its rollback.                       *)
EXTENDS WanCoordinator

(* stop_session, fail_wan_session, respond_to_consent and the two sweeps     *)
(* take the gate first; the dispatcher installs a verified grant without it. *)
Invoke(t, op, i) ==
    /\ task[t].pc = "idle"
    /\ op \in Duties[t] \ {"start", "intent"}
    /\ task' = [task EXCEPT ![t] =
         [Idle EXCEPT !.pc = IF op = "grant" THEN "lookup" ELSE "gate",
                      !.op = op, !.id = IF op \in SweepOps THEN None ELSE i]]
    /\ UNCHANGED <<now, registryVars, state, operation, group, cleanup, gate,
                   home, worldVars>>

(* respond_to_consent: the decision is recorded once; for a target session   *)
(* that waits for it, the handler goes on under the gate to approve_target   *)
(* or to fail the session.                                                   *)
Decide(t, decision) ==
    LET i == task[t].id
        e == sessions[i]
    IN  /\ GateFree(t) /\ task[t].op = "consent"
        /\ IF consent[i] # "pending"
           THEN Return(t, FALSE) /\ UNCHANGED consent
           ELSE /\ consent' = [consent EXCEPT ![i] = decision]
                /\ IF /\ e # NoEntry
                      /\ state[e].role = "Target"
                      /\ state[e].phase = "AwaitingConsent"
                   THEN /\ task' = [task EXCEPT
                             ![t].op = IF decision = "approved" THEN "approve"
                                       ELSE "fail",
                             ![t].pc = "lookup"]
                        /\ gate' = t
                        /\ UNCHANGED operation
                   ELSE Return(t, TRUE)
        /\ UNCHANGED <<now, registryVars, state, group, cleanup, home,
                       route, media>>

(* install_target_authorization and install_controller_authorization, on a   *)
(* snapshot taken before the gate: it may show the phase of an earlier or of *)
(* the present moment. The authorization registry may refuse as well.        *)
Authorize(t, ok) ==
    LET e    == sessions[task[t].id]
        late == e # NoEntry /\ now >= EffectiveDeadline(state[e])
        left == ~(e # NoEntry /\ state[e].phase = "AccessBound")
    IN  /\ GateFree(t) /\ task[t].op = "authorize"
        /\ ok => ~late
        /\ ~ok => late \/ left \/ "port" \in Faults
        /\ Return(t, ok)
        /\ UNCHANGED <<now, registryVars, state, group, cleanup, home, worldVars>>

(* A caller's future is dropped where it waits: a select! took another arm,  *)
(* or its task was aborted. Its guards go; a cleanup it began goes on.       *)
DropCaller(t) ==
    /\ "drop" \in Faults
    /\ task[t].pc # "idle"
    /\ operation' = Unlocked(t)
    /\ gate' = Ungated(t)
    /\ task' = [task EXCEPT ![t] = Idle]
    /\ UNCHANGED <<now, registryVars, state, group, cleanup, home, worldVars>>
-----------------------------------------------------------------------------
(* The generation-zero task of spawn_generation_zero, an owned task o.       *)

(* Fault: the lease is gone before the route is installed. *)
HoldsShortLease(o) == task[o].op = "negotiate" /\ ~Finished(o)

(* GenerationZeroOwnershipLease: held until the negotiation has returned. *)
HoldsLease(o) == task[o].op \in {"negotiate", "commit"} /\ ~Finished(o)

(* effective_timeout, revalidate_generation_zero and                         *)
(* claim_generation_zero_ownership, then begin_negotiation.                  *)
Claim(o, ok) ==
    LET e     == sessions[task[o].id]
        late  == now >= EffectiveDeadline(state[home[o]])
        stale == ~(e = home[o] /\ state[e].phase \in {"AccessBound", "Negotiating"})
        owned == \E p \in Owned \ {o} : HoldsLease(p) /\ task[p].id = task[o].id
    IN  /\ task[o].pc = "spawned"
        /\ ok => ~late /\ ~stale /\ ~owned
        /\ ~ok => late \/ stale \/ owned \/ "peer" \in Faults
        /\ task' = [task EXCEPT
             ![o] = IF ok THEN Then(o, "negotiate", "lookup")
                    ELSE Then(o, "claim", "failed")]
        /\ UNCHANGED <<now, registryVars, state, operation, group, cleanup,
                       gate, home, worldVars>>

(* negotiate_controller, negotiate_target: a route proof, or an error. *)
PeerNegotiated(o) ==
    /\ task[o].pc = "peer"
    /\ task' = [task EXCEPT ![o] = Then(o, "commit", "gate")]
    /\ UNCHANGED <<now, registryVars, state, operation, group, cleanup, gate,
                   home, worldVars>>

PeerFailed(o) ==
    /\ task[o].pc = "peer" /\ "peer" \in Faults
    /\ Goto(o, "failed")
    /\ UNCHANGED <<now, registryVars, state, operation, group, cleanup, gate,
                   home, worldVars>>

(* commit_generation_zero, under the gate and the operation lock: the first  *)
(* check. An error here leaves the state alone. The comparison of identity,  *)
(* grant and access with those the task was spawned for is home[o].          *)
CommitCheck(o) ==
    LET h == task[o].ent
    IN  /\ Ready(o) /\ task[o].op = "commit"
        /\ IF /\ h = home[o]
              /\ state[h].phase = "Negotiating"
              /\ now < EffectiveDeadline(state[h])
           THEN /\ task' = [task EXCEPT ![o].pc = "install", ![o].arg = TRUE]
                /\ operation' = Held(o)
                /\ UNCHANGED gate
           ELSE Return(o, FALSE)
        /\ UNCHANGED <<now, registryVars, state, group, cleanup, home, worldVars>>

(* Fault: the time is not looked at again after the installation. *)
InstalledUnchecked(o, proof) ==
    LET s  == state[task[o].ent]
        ev == Event("RelayVerified", proof)
    IN  /\ task[o].pc = "install"
        /\ proof \in RouteProofs
        /\ proof.access = s.bound["AccessBound"]
        /\ proof.route = s.bound["Granted"].route
        /\ route' = [route EXCEPT ![task[o].id] = TRUE]
        /\ Transition(o, task[o].ent, ev,
                      Outcome(s, ev, now) \in {"Applied", "Duplicate"},
                      Apply(s, ev, now).phase = "Failed", "return")
        /\ UNCHANGED <<now, registryVars, group, home, consent, media>>

(* The installer succeeded; the state is validated again. *)
Installed(o, proof) ==
    LET h    == task[o].ent
        s    == state[h]
        late == now >= EffectiveDeadline(s)
        ev   == IF late THEN Event("Failed", "DeadlineExceeded")
                ELSE IF s.phase # "Negotiating" THEN Event("Failed", "RouteMismatch")
                ELSE Event("RelayVerified", proof)
    IN  /\ task[o].pc = "install"
        /\ proof \in RouteProofs
        /\ proof.access = s.bound["AccessBound"]
        /\ proof.route = s.bound["Granted"].route
        /\ route' = [route EXCEPT ![task[o].id] = TRUE]
        /\ Transition(o, h, ev,
                      /\ ev.kind = "RelayVerified"
                      /\ Outcome(s, ev, now) \in {"Applied", "Duplicate"},
                      Apply(s, ev, now).phase = "Failed", "return")
        /\ UNCHANGED <<now, registryVars, group, home, consent, media>>

(* The installer failed: whether the backend session is revoked or merely    *)
(* closed hangs on the result of the transition.                             *)
InstallFailed(o) ==
    LET h  == task[o].ent
        ev == Event("Failed", "Transport")
    IN  /\ task[o].pc = "install" /\ "peer" \in Faults
        /\ Transition(o, h, ev, FALSE,
                      Outcome(state[h], ev, now) \in {"Applied", "Duplicate"},
                      "return")
        /\ UNCHANGED <<now, registryVars, group, home, worldVars>>

(* The cancellation fence after a commit, then on to the media. *)
Committed(o) ==
    /\ task[o].pc = "committed"
    /\ task' = [task EXCEPT ![o] = IF Cancelled(o) THEN Then(o, "commit", "failed")
                                   ELSE Then(o, "stream", "gate")]
    /\ UNCHANGED <<now, registryVars, state, operation, group, cleanup, gate,
                   home, worldVars>>

(* Fault: the gate is released before the media runtime is started. *)
MediaCheckUngated(o) ==
    LET e == sessions[task[o].id]
    IN  /\ GateFree(o) /\ task[o].op = "stream"
        /\ Goto(o, IF e = home[o] /\ state[e].phase = "RelayVerified"
                   THEN "media_start" ELSE "failed")
        /\ UNCHANGED <<now, registryVars, state, operation, group, cleanup,
                       gate, home, worldVars>>

(* start_verified_media_owned, as soon as it has the gate: the second look. *)
MediaCheck(o) ==
    LET e == sessions[task[o].id]
    IN  /\ GateFree(o) /\ task[o].op = "stream"
        /\ IF e = home[o] /\ state[e].phase = "RelayVerified"
           THEN Goto(o, "media_start") /\ gate' = o
           ELSE Goto(o, "failed") /\ UNCHANGED gate
        /\ UNCHANGED <<now, registryVars, state, operation, group, cleanup,
                       home, worldVars>>

(* initialize_media_runtime: not cancellable, and not checked again. It may  *)
(* fail on a route that is gone, unless it has looked the route up before.   *)
MediaStart(o, ok) ==
    /\ task[o].pc = "media_start"
    /\ ok \/ "media" \in Faults \/ ~route[task[o].id]
    /\ media' = IF ok THEN [media EXCEPT ![task[o].id] = TRUE] ELSE media
    /\ gate' = Ungated(o)
    /\ Goto(o, IF ok THEN "media_wait" ELSE "failed")
    /\ UNCHANGED <<now, registryVars, state, operation, group, cleanup, home,
                   consent, route>>

(* complete_registered_media: first-frame evidence, then record_streaming. *)
MediaReady(o, ok) ==
    LET e == sessions[task[o].id]
    IN  /\ task[o].pc = "media_wait"
        /\ ok \/ "media" \in Faults
        /\ Goto(o, IF ok /\ e = home[o] /\ state[e].phase = "RelayVerified"
                   THEN "lookup" ELSE "failed")
        /\ UNCHANGED <<now, registryVars, state, operation, group, cleanup,
                       gate, home, worldVars>>

(* The projection of the new state and the enabling of input. *)
Activated(o, ok) ==
    /\ task[o].pc = "activated"
    /\ ok \/ "media" \in Faults
    /\ IF ok THEN task' = [task EXCEPT ![o] = Ended] ELSE Goto(o, "failed")
    /\ UNCHANGED <<now, registryVars, state, operation, group, cleanup, gate,
                   home, worldVars>>

(* The error path: a route whose installation had begun is rolled back, the  *)
(* lease is dropped, and fail_owned_wan_session ends a session that is       *)
(* neither cancelled nor over.                                               *)
Recover(o) ==
    LET e == sessions[task[o].id]
    IN  /\ task[o].pc = "failed"
        /\ route' = IF task[o].op = "commit" /\ task[o].arg = TRUE
                    THEN [route EXCEPT ![task[o].id] = FALSE] ELSE route
        /\ task' = [task EXCEPT
             ![o] = IF Cancelled(o) \/ e = NoEntry \/ Terminal(state[e])
                    THEN Ended ELSE Then(o, "owned_fail", "gate")]
        /\ UNCHANGED <<now, registryVars, state, operation, group, cleanup,
                       gate, home, consent, media>>

(* The select! of the negotiation, of the media activation and of the gate.  *)
(* Between the media check and the registration nothing is dropped.          *)
Interruptible(o) ==
    \/ /\ task[o].op \in {"negotiate", "commit"}
       /\ task[o].pc \notin {"committed", "failed", "finished"}
    \/ /\ task[o].op = "stream"
       /\ task[o].pc \notin {"media_start", "activated", "failed", "finished"}
    \/ task[o].op = "owned_fail" /\ task[o].pc = "gate"

Interrupt(o) ==
    /\ Interruptible(o)
    /\ operation' = Unlocked(o)
    /\ gate' = Ungated(o)
    /\ task' = [task EXCEPT ![o] = IF task[o].op = "owned_fail" THEN Ended
                                   ELSE Then(o, task[o].op, "failed")]
    /\ UNCHANGED <<now, registryVars, state, group, cleanup, home, worldVars>>

Cancel(o) == home[o] # NoEntry /\ Cancelled(o) /\ Interrupt(o)

(* The timeout around the negotiation, at the latest at the deadline. *)
NegotiationTimeout(o) ==
    /\ task[o].op \in {"negotiate", "commit"}
    /\ "peer" \in Faults \/ now >= EffectiveDeadline(state[home[o]])
    /\ Interrupt(o)
-----------------------------------------------------------------------------
Tick ==
    /\ now < MaxTime
    /\ now' = now + 1
    /\ UNCHANGED <<registryVars, state, operation, group, cleanup, gate, task,
                   home, worldVars>>

(* The steps of an operation of the coordinator, whoever runs it. *)
Operate(t) ==
    \/ Lookup(t)
    \/ ApplyOperation(t)
    \/ Finalized(t)

Workflow(t) ==
    \/ CheckDuplicate(t)
    \/ StartWorkflow(t)
    \/ StartApproval(t)
    \/ \E key \in Keys : BindGrantKey(t, key)
    \/ \E intent \in Intents : \/ CheckGrant(t, intent)
                               \/ IntentSent(t, intent)
                               \/ ConsentPublished(t, intent)
    \/ BackendVerified(t)
    \/ PublishRequest(t)
    \/ PortAnswered(t)
    \/ \E grant \in Grants : GrantObtained(t, grant)
    \/ \E access \in Accesses : BindAccess(t, access)
    \/ PortFailed(t)
    \/ PortTimeout(t)

Handle(t) ==
    \/ \E decision \in {"approved", "denied"} : Decide(t, decision)
    \/ \E ok \in BOOLEAN : Authorize(t, ok)
    \/ StartSweep(t)
    \/ \E p \in task[t].todo : SweepEntry(t, p)
    \/ EndSweep(t)
    \/ SpawnCheck(t)
    \/ \E o \in Owned : Spawn(t, o)
    \/ SpawnRefused(t)

Call(t) ==
    \/ \E op \in {"start", "intent"}, i \in Ids, d \in Deadlines, r \in Requests :
         Begin(t, op, i, d, r)
    \/ \E op \in CallerOps, i \in Ids : Invoke(t, op, i)

RunOwned(o) ==
    \/ \E ok \in BOOLEAN : \/ Claim(o, ok)
                           \/ MediaStart(o, ok)
                           \/ MediaReady(o, ok)
                           \/ Activated(o, ok)
    \/ PeerNegotiated(o)
    \/ PeerFailed(o)
    \/ CommitCheck(o)
    \/ \E proof \in RouteProofs : Installed(o, proof)
    \/ InstallFailed(o)
    \/ Committed(o)
    \/ MediaCheck(o)
    \/ Recover(o)
    \/ Cancel(o)
    \/ NegotiationTimeout(o)

Next ==
    \/ \E t \in Tasks : Operate(t)
    \/ \E t \in Callers : Call(t) \/ Workflow(t) \/ Handle(t) \/ DropCaller(t)
    \/ \E o \in Owned : RunOwned(o)
    \/ \E e \in Entries : Cleanup(e)
    \/ Tick

Spec == Init /\ [][Next]_vars

(* Fairness. tokio mutexes are first in, first out: a task that waits for    *)
(* one gets it if it is free again and again, hence strong fairness (every   *)
(* other step stays enabled until taken). What is guarded by a timeout       *)
(* (ports, the negotiation, each cleanup step, the join of a task, the wait  *)
(* for first media) ends; that a port or a peer answers is not assumed. The  *)
(* heartbeat keeps calling expire_due_wan_sessions.                          *)
CallerSteps(t) ==
    \/ Operate(t)
    \/ CheckDuplicate(t) \/ StartWorkflow(t) \/ StartApproval(t)
    \/ \E key \in Keys : BindGrantKey(t, key)
    \/ \E intent \in Intents : CheckGrant(t, intent)
    \/ \E access \in Accesses : BindAccess(t, access)
    \/ PortTimeout(t)
    \/ Handle(t)

OwnedSteps(o) ==
    \/ Operate(o)
    \/ CommitCheck(o) \/ Committed(o) \/ MediaCheck(o) \/ Recover(o)
    \/ \E ok \in BOOLEAN : \/ Claim(o, ok) \/ MediaStart(o, ok)
                           \/ MediaReady(o, ok) \/ Activated(o, ok)
    \/ Cancel(o)
    \/ NegotiationTimeout(o)

FairSpec ==
    /\ Spec
    /\ WF_vars(Tick)
    /\ \A t \in Callers : SF_vars(CallerSteps(t))
    /\ \A t \in Callers : SF_vars(\E i \in Ids : Invoke(t, "expire", i))
    /\ \A o \in Owned : SF_vars(OwnedSteps(o))
    /\ \A e \in Entries : WF_vars(Cleanup(e))
-----------------------------------------------------------------------------
Allocated == 1 .. used

Pcs == Ports \cup
       {"idle", "gate", "lookup", "lock", "key_bound", "bind_access",
        "finalizing", "sweep", "spawn_check", "spawn", "spawned", "peer",
        "install", "committed", "media_start", "media_wait", "activated",
        "failed", "finished"}

Ops == CallerOps \cup InnerOps \cup {"none"}

Stages == CleanupSteps \cup {"none", "spawned", "join", "done"}

IsTask(k) ==
    /\ k = [pc |-> k.pc, op |-> k.op, id |-> k.id, ent |-> k.ent,
            on |-> k.on, arg |-> k.arg, dup |-> k.dup, ok |-> k.ok, cont |-> k.cont,
            since |-> k.since, todo |-> k.todo]
    /\ k.pc \in Pcs
    /\ k.op \in Ops
    /\ k.id \in Ids \cup {None}
    /\ {k.ent, k.on} \subseteq Entries \cup {NoEntry}
    /\ k.arg \in Requests \cup {None, TRUE}
    /\ k.dup \in BOOLEAN
    /\ k.ok \in BOOLEAN
    /\ k.cont \in {"return", "send_intent", "publish", "bind_access"}
    /\ k.since \in 0 .. MaxTime
    /\ k.todo \subseteq Ids \X Entries

(* Every variable holds what its declaration says, every session is a well-  *)
(* formed WanSessionState and every task is at a known point.                *)
TypeOK ==
    /\ now \in 0 .. MaxTime
    /\ sessions \in [Ids -> Entries \cup {NoEntry}]
    /\ activeSessions \in Nat
    /\ terminalOrder \in Seq(Ids)
    /\ used \in 0 .. MaxEntries
    /\ idOf \in [Entries -> Ids \cup {None}]
    /\ DOMAIN state = Entries /\ \A e \in Entries : IsState(state[e])
    /\ operation \in [Entries -> Tasks \cup {None}]
    /\ group \in [Entries -> [closed: BOOLEAN, handles: SUBSET Owned]]
    /\ cleanup \in [Entries -> [stage: Stages, failed: BOOLEAN,
                                caller: Tasks \cup {None}, by: Ops,
                                err: BOOLEAN, join: SUBSET Owned]]
    /\ gate \in Tasks \cup {None}
    /\ DOMAIN task = Tasks /\ \A t \in Tasks : IsTask(task[t])
    /\ home \in [Owned -> Entries \cup {NoEntry}]
    /\ consent \in [Ids -> {"none", "pending", "approved", "denied"}]
    /\ route \in [Ids -> BOOLEAN]
    /\ media \in [Ids -> BOOLEAN]

(* The registry accounts for every session exactly: the active count is the  *)
(* number of sessions whose cleanup has not ended, neither limit of the      *)
(* configuration is exceeded, a session is never forgotten before its        *)
(* cleanup has ended, and what is retained is what terminal_order lists      *)
(* (begin, run_cleanup).                                                     *)
RegistryExact ==
    /\ activeSessions = Cardinality({e \in Allocated : cleanup[e].stage # "done"})
    /\ activeSessions <= MaxSessions
    /\ Len(terminalOrder) <= MaxTerminal
    /\ \A e \in Allocated : cleanup[e].stage # "done" => sessions[idOf[e]] = e
    /\ \A i \in Ids :
         (\E n \in DOMAIN terminalOrder : terminalOrder[n] = i)
           <=> sessions[i] # NoEntry /\ cleanup[sessions[i]].stage = "done"

(* Whichever of the many ways a session ends, its cleanup has been started,  *)
(* and nothing but the end of a session starts it: a dropped caller, a       *)
(* rejected event or a lost race never leaves a terminal session behind that *)
(* nobody tears down (apply, finalize).                                      *)
TerminalIffCleanup ==
    \A e \in Allocated : Terminal(state[e]) <=> cleanup[e].stage # "none"

(* A target never holds a grant the local user did not approve: through a    *)
(* second handler, a duplicate, or a decision that arrives late.             *)
GrantNeedsConsent ==
    \A e \in Allocated :
        state[e].role = "Target" /\ state[e].bound["Granted"] # None =>
            consent[idOf[e]] = "approved"

(* A session that claims a verified route, or media on it, has the route     *)
(* installed (commit_generation_zero against rollback and cleanup).          *)
VerifiedRouteInstalled ==
    \A e \in Allocated :
        state[e].phase \in {"RelayVerified", "Streaming"} => route[idOf[e]]

(* A cleanup that reported no error has left neither a route nor a running   *)
(* media runtime, whatever its tasks were in the middle of: "the short       *)
(* initialization/registration transaction finishes before service cleanup   *)
(* can run" (media.rs:625). The exception is a session that a contradictory  *)
(* start or intent has ended (CheckDuplicate, coordinator.rs:316): that      *)
(* ending holds the operation lock but not the gate, so stop_media may run   *)
(* while a media runtime is being started, and that runtime stays.           *)
CleanupLeavesNothing ==
    \A e \in Allocated :
        cleanup[e].stage = "done" /\ ~cleanup[e].err /\ sessions[idOf[e]] = e =>
            /\ ~route[idOf[e]]
            /\ media[idOf[e]] => cleanup[e].by \in {"start", "intent"}

(* Every change of a session is made by the task that holds its operation    *)
(* lock: the checks a workflow made before an await still hold after it.     *)
OnlyLockHolderChanges ==
    [][\A e \in Allocated :
         state'[e] # state[e] =>
            \E t \in Tasks : /\ task[t].ent = e /\ operation[e] \in {t, None}
                            /\ task'[t] # task[t]]_vars

(* A route is never verified at or after the moment its authorization ends,  *)
(* however long the installer took (commit_generation_zero).                 *)
VerifiedInTime ==
    [][\A e \in Allocated :
         state[e].phase # "RelayVerified" /\ state'[e].phase = "RelayVerified" =>
            now < EffectiveDeadline(state[e])]_vars
-----------------------------------------------------------------------------
(* The registry of the coordinator implements WanSessionRegistry. *)
Slot(i) ==
    LET e == sessions[i]
    IN  IF e = NoEntry THEN "vacant"
        ELSE IF cleanup[e].stage = "none" THEN "active"
        ELSE IF cleanup[e].stage = "done" THEN "retained"
        ELSE "ending"

Registry == INSTANCE WanSessionRegistry
              WITH slots <- [i \in Ids |-> Slot(i)], order <- terminalOrder

(* The counter, the deque and the map of the code, with the cleanup that     *)
(* runs between them, behave as the abstract registry does.                  *)
ImplementsRegistry == Registry!Spec
-----------------------------------------------------------------------------
(* No call waits for ever: not a stop that holds the gate while an approval  *)
(* holds the operation lock and waits for the user, not a cleanup that joins *)
(* a task which waits for a lock of the one that called it. And every task   *)
(* spawned for a session ends.                                               *)
EveryCallReturns ==
    /\ \A t \in Callers : task[t].pc # "idle" ~> task[t].pc = "idle"
    /\ \A o \in Owned : task[o].pc = "spawned" ~> Finished(o)

(* A session is torn down after its authorization has ended, even when no    *)
(* peer, port or user says anything any more (expire_due_sessions).          *)
DueSessionsEnd ==
    \A e \in Entries :
        e <= used /\ now >= EffectiveDeadline(state[e]) ~> cleanup[e].stage = "done"
=============================================================================
