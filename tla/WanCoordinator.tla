---------------------------- MODULE WanCoordinator ----------------------------
(* WanSessionCoordinator (apps/mrd-service/src/wan_session/coordinator.rs):  *)
(* the registry of WAN sessions, the per-session operation lock, the four    *)
(* authorization workflows with their port calls, and the cleanup that runs  *)
(* once per terminal session in a task of its own.                           *)
(*                                                                           *)
(* Tasks are tokio tasks: Callers are the service's own (IPC handlers, the   *)
(* signaling dispatcher, the expiry heartbeat), Owned are the ones spawned   *)
(* into a session's task group. A step is what a task does between two       *)
(* awaits that another task can get between. A port call is two steps, its   *)
(* start and its return; what follows the return, or the acquisition of a    *)
(* lock, up to the next await is done in the same step. The state lock and   *)
(* the registry lock are never held across an await on anything else, so a   *)
(* critical section of either is inside one step.                            *)
(*                                                                           *)
(* Entries are the Arc<SessionEntry> allocations: a task that looked a       *)
(* session up keeps its entry even when the registry has moved on.           *)
EXTENDS WanSessionState, Sequences, FiniteSets

CONSTANTS Ids,                \* session ids
          MaxEntries,         \* bound on session entries ever allocated
          Callers, Owned,     \* tasks
          Duties,             \* the operations each caller issues
          Faults,             \* what may go wrong: a subset of FaultKinds
          Deadlines,          \* absolute deadlines of identities
          MaxTime,            \* bound on the clock
          LocalKey,           \* the local device's key, when it is the target
          MaxSessions,        \* config.max_sessions
          MaxTerminal,        \* config.max_terminal_sessions
          MaxTasks            \* config.max_tasks_per_session

Entries == 1 .. MaxEntries
NoEntry == 0
Tasks == Callers \cup Owned

(* What the service calls the coordinator for: an IPC start, a signed intent *)
(* or grant from the dispatcher, the local user's decision, ...              *)
CallerOps == {"start", "intent", "grant", "consent", "close", "fail",
              "expire", "shutdown"}
SweepOps  == {"expire", "shutdown"}
(* What such a call is carried on as, and the calls of owned tasks. *)
InnerOps  == {"approve", "authorize", "spawn", "claim", "negotiate", "commit",
              "stream", "owned_fail"}

Ports == {"create", "inspect", "send_intent", "publish", "published",
          "load_approval", "approve", "inspect_grant", "access", "send_grant"}

(* The cleanup calls in pairs: freeze_input and stop_media, close_transport  *)
(* and remove_failover, clear_signaling and close_backend.                   *)
CleanupSteps == {"stop_media", "close_transport", "close_backend"}

(* A port, the peer or the media runtime fails; a cleanup step fails or times *)
(* out; a caller's future is dropped. The join timeout is not one of them:   *)
(* a task that is slow to end may always be aborted.                         *)
FaultKinds == {"port", "peer", "media", "drop"} \cup CleanupSteps

(* WanSessionCoordinatorConfig::validate, and the bounds of the model. *)
ASSUME CoordinatorAssumption ==
    /\ MaxEntries \in Nat /\ MaxTime \in Nat
    /\ MaxSessions \in Nat \ {0}
    /\ MaxTerminal \in Nat \ {0}
    /\ MaxTasks \in Nat \ {0}
    /\ Deadlines \subseteq Nat
    /\ LocalKey \in Keys
    /\ Duties \in [Callers -> SUBSET CallerOps]
    /\ Faults \subseteq FaultKinds
    /\ Callers \cap Owned = {}
    /\ None \notin Ids \cup Callers \cup Owned
    /\ IsFiniteSet(Ids)

VARIABLES
    now,            \* the clock of WanSessionClock
    sessions,       \* registry.sessions: id -> entry
    activeSessions, \* registry.active_sessions
    terminalOrder,  \* registry.terminal_order
    used,           \* how many entries have been allocated
    idOf,           \* the session id of each entry
    state,          \* entry.state
    operation,      \* holder of entry.operation
    group,          \* entry.task_group; closed is also the cancellation flag
    cleanup,        \* entry.cleanup_receipt and the task that fills it
    gate,           \* holder of AppState::authorization_security_gate
    task,           \* what each task is doing
    home,           \* the entry whose group owns an owned task
    consent,        \* per id: the local user's decision
    route,          \* per id: an installed transport and failover route
    media           \* per id: a registered media runtime

registryVars == <<sessions, activeSessions, terminalOrder, used, idOf>>
worldVars    == <<consent, route, media>>
vars == <<now, registryVars, state, operation, group, cleanup, gate, task,
          home, worldVars>>

Idle == [pc |-> "idle", op |-> "none", id |-> None, ent |-> NoEntry,
         on |-> NoEntry, arg |-> None, dup |-> FALSE, ok |-> TRUE, cont |-> "return",
         since |-> 0, todo |-> {}]

Ended == [Idle EXCEPT !.pc = "finished"]

(* by, the operation that ended the session, is a note for the properties. *)
NoCleanup == [stage |-> "none", failed |-> FALSE, caller |-> None,
              by |-> "none", err |-> FALSE, join |-> {}]

Init ==
    /\ now = 0
    /\ sessions = [i \in Ids |-> NoEntry]
    /\ activeSessions = 0
    /\ terminalOrder = <<>>
    /\ used = 0
    /\ idOf = [e \in Entries |-> None]
    /\ state = [e \in Entries |-> NewState("Controller", 0, None)]
    /\ operation = [e \in Entries |-> None]
    /\ group = [e \in Entries |-> [closed |-> FALSE, handles |-> {}]]
    /\ cleanup = [e \in Entries |-> NoCleanup]
    /\ gate = None
    /\ task = [t \in Tasks |-> Idle]
    /\ home = [o \in Owned |-> NoEntry]
    /\ consent = [i \in Ids |-> "none"]
    /\ route = [i \in Ids |-> FALSE]
    /\ media = [i \in Ids |-> FALSE]
-----------------------------------------------------------------------------
(* Locks: a guard is dropped when its operation returns, or with the future  *)
(* that holds it.                                                            *)

Unlocked(t) == [e \in Entries |-> IF operation[e] = t THEN None ELSE operation[e]]
Ungated(t)  == IF gate = t THEN None ELSE gate

(* Fault: a workflow does not wait for the operation lock. *)
ReadyWithoutLock(t) == task[t].pc = "lock"

(* A lock is taken by the step that also does what comes right after it. *)
Ready(t) == task[t].pc = "lock" /\ operation[task[t].ent] = None
Held(t)  == [operation EXCEPT ![task[t].ent] = t]

(* owned_authorization_guard and start_verified_media_owned look at the      *)
(* cancellation before the gate, and it interrupts the wait.                 *)
Cancelled(o) == group[home[o]].closed

GateFree(t) ==
    /\ task[t].pc = "gate"
    /\ gate = None
    /\ t \in Owned /\ task[t].op \in {"stream", "owned_fail"} => ~Cancelled(t)

Goto(t, pc) == task' = [task EXCEPT ![t].pc = pc]

(* What a task goes on with once an operation has returned Ok or Err: the    *)
(* dispatcher takes an accepted intent to approval, authorization and the    *)
(* spawn of the generation-zero task (handle_target_intent,                  *)
(* apply_verified_controller_grant_inner, handle_initial_event); an approval *)
(* made for the consent handler, under the gate, ends there.                 *)
Then(t, op, pc) ==
    [task[t] EXCEPT !.op = op, !.pc = pc, !.ent = NoEntry, !.on = NoEntry,
                    !.ok = TRUE, !.cont = "return"]

Resumed(t, ok) ==
    LET op == task[t].op
    IN  CASE op \in SweepOps                   -> Then(t, op, "sweep")
          [] op = "intent" /\ ok              -> Then(t, "approve", "lookup")
          [] op = "approve" /\ gate # t /\ ok  -> Then(t, "authorize", "gate")
          [] op = "approve" /\ gate # t /\ ~ok -> Then(t, "fail", "gate")
          [] op = "grant" /\ ok               -> Then(t, "authorize", "gate")
          [] op = "authorize" /\ ok           -> Then(t, "spawn", "lookup")
          [] op = "authorize" /\ ~ok          -> Then(t, "fail", "gate")
          [] op = "negotiate" /\ ok           -> Then(t, op, "peer")
          [] op = "commit" /\ ok              -> Then(t, op, "committed")
          [] op = "stream" /\ ok              -> Then(t, op, "activated")
          [] op \in {"negotiate", "commit", "stream"} /\ ~ok ->
                                                 Then(t, op, "failed")
          [] op = "owned_fail"                -> Ended
          [] OTHER                            -> Idle

(* The heartbeat and the shutdown sweep keep the gate between sessions. *)
Return(t, ok) ==
    /\ operation' = Unlocked(t)
    /\ gate' = IF task[t].op \in SweepOps THEN gate ELSE Ungated(t)
    /\ task' = [task EXCEPT ![t] = Resumed(t, ok)]

(* Fault: a task of the session, which would be joined, starts no cleanup. *)
ReceiptOfCaller(e, failed, t) ==
    IF cleanup[e].stage # "none" \/ t \in Owned THEN cleanup
    ELSE [cleanup EXCEPT ![e] = [stage |-> "spawned", failed |-> failed,
                                 caller |-> t, by |-> task[t].op,
                                 err |-> FALSE, join |-> {}]]

(* finalize: the receipt cell is initialised once, by whoever comes first. *)
Receipt(e, failed, t) ==
    IF cleanup[e].stage # "none" THEN cleanup
    ELSE [cleanup EXCEPT ![e] = [stage |-> "spawned", failed |-> failed,
                                 caller |-> t, by |-> task[t].op,
                                 err |-> FALSE, join |-> {}]]

(* state.apply followed by finalize when the entry is, or has become,        *)
(* terminal; otherwise on to cont. An event that is rejected always leaves   *)
(* the entry terminal.                                                       *)
Transition(t, e, ev, ok, failed, cont) ==
    LET s == Apply(state[e], ev, now)
    IN  /\ state' = [state EXCEPT ![e] = s]
        /\ IF Terminal(s)
           THEN /\ cleanup' = Receipt(e, failed, t)
                /\ task' = [task EXCEPT ![t].pc = "finalizing", ![t].on = e,
                                        ![t].ok = ok, ![t].cont = cont]
                /\ operation' = Held(t)
                /\ UNCHANGED gate
           ELSE /\ UNCHANGED cleanup
                /\ IF cont = "return" THEN Return(t, ok)
                   ELSE Goto(t, cont) /\ operation' = Held(t) /\ UNCHANGED gate

(* WanSessionCoordinator::apply looks the session up by id again. *)
ApplyById(t, ev, cont) ==
    LET e == sessions[task[t].id]
    IN  IF e = NoEntry
        THEN Return(t, FALSE) /\ UNCHANGED <<state, cleanup>>
        ELSE Transition(t, e, ev,
                        Outcome(state[e], ev, now) \in {"Applied", "Duplicate"},
                        Apply(state[e], ev, now).phase = "Failed", cont)

(* An apply whose own result is dropped: the caller gets an error anyway. *)
ApplyAndRefuse(t, ev) ==
    LET e == sessions[task[t].id]
    IN  IF e = NoEntry
        THEN Return(t, FALSE) /\ UNCHANGED <<state, cleanup>>
        ELSE Transition(t, e, ev, FALSE,
                        Apply(state[e], ev, now).phase = "Failed", "return")

(* fail_workflow_if_needed: a session the workflow itself has already ended  *)
(* is left as it is, and not waited for again. The workflow's error is what  *)
(* it returns in any case.                                                   *)
FailWorkflow(t, failure) ==
    LET e == sessions[task[t].id]
    IN  IF e # NoEntry /\ Terminal(state[e])
        THEN Return(t, FALSE) /\ UNCHANGED <<state, cleanup>>
        ELSE ApplyAndRefuse(t, Event("Failed", failure))

(* run_port_before_deadline: a port is not called at or after the deadline. *)
CallPort(t, port) ==
    IF now < state[task[t].ent].deadline
    THEN /\ Goto(t, port)
         /\ operation' = Held(t)
         /\ UNCHANGED <<state, cleanup, gate>>
    ELSE FailWorkflow(t, "DeadlineExceeded")
-----------------------------------------------------------------------------
(* begin, called first by start_controller and accept_verified_target_intent *)
(* and before any lock: the entry is public as soon as it is inserted. The   *)
(* early returns (deadline, conflicting identity, capacity) change nothing.  *)

Identity(op, deadline) ==
    IF op = "start" THEN NewState("Controller", deadline, None)
                    ELSE NewState("Target", deadline, LocalKey)

SameIdentity(x, y) ==
    x.role = y.role /\ x.deadline = y.deadline /\ x.key = y.key

Begin(t, op, i, deadline, request) ==
    LET fresh == Identity(op, deadline)
        e     == used + 1
    IN  /\ task[t].pc = "idle" /\ op \in Duties[t]
        /\ now < deadline
        /\ \/ /\ sessions[i] # NoEntry
              /\ SameIdentity(state[sessions[i]], fresh)
              /\ task' = [task EXCEPT ![t] =
                            [Idle EXCEPT !.pc = "lookup", !.op = op, !.id = i,
                                         !.arg = request, !.dup = TRUE]]
              /\ UNCHANGED <<registryVars, state>>
           \/ /\ sessions[i] = NoEntry
              /\ activeSessions < MaxSessions
              /\ e \in Entries
              /\ sessions' = [sessions EXCEPT ![i] = e]
              /\ activeSessions' = activeSessions + 1
              /\ used' = e
              /\ idOf' = [idOf EXCEPT ![e] = i]
              /\ state' = [state EXCEPT ![e] = fresh]
              /\ task' = [task EXCEPT ![t] =
                            [Idle EXCEPT !.pc = "lookup", !.op = op,
                                         !.id = i, !.arg = request]]
              /\ UNCHANGED terminalOrder
        /\ UNCHANGED <<now, operation, group, cleanup, gate, home, worldVars>>

(* entry: the Arc is cloned out of the registry, before the operation lock   *)
(* is waited for. close, fail and commit are called with the gate held; the  *)
(* terminal check of fail_owned_wan_session precedes its call of fail.       *)
GatedOps == {"close", "fail", "commit", "owned_fail"}

Lookup(t) ==
    LET e == sessions[task[t].id]
    IN  /\ \/ task[t].pc = "lookup"
           \/ GateFree(t) /\ task[t].op \in GatedOps
        /\ IF \/ e = NoEntry
              \/ task[t].op = "owned_fail" /\ Terminal(state[e])
           THEN Return(t, FALSE)
           ELSE /\ task' = [task EXCEPT
                     ![t].ent = e,
                     ![t].pc = IF task[t].op = "spawn" THEN "spawn_check"
                               ELSE "lock"]
                /\ gate' = IF task[t].pc = "gate" THEN t ELSE gate
                /\ UNCHANGED operation
        /\ UNCHANGED <<now, registryVars, state, group, cleanup, home, worldVars>>

(* begin_negotiation, record_streaming, close, fail: apply_with_operation.   *)
(* A failure stands for every reason its caller may report.                  *)
OperationEvent(op) ==
    CASE op = "negotiate"  -> Event("Negotiating", TRUE)
      [] op = "stream"     -> Event("Streaming", TRUE)
      [] op = "close"      -> Event("Closed", TRUE)
      [] op = "fail"       -> Event("Failed", "Cancelled")
      [] op = "owned_fail" -> Event("Failed", "Transport")
      [] op = "expire"     -> Event("Failed", "DeadlineExceeded")
      [] op = "shutdown"   -> Event("Failed", "Cancelled")

ApplyOperation(t) ==
    /\ Ready(t)
    /\ task[t].op \in {"negotiate", "stream", "close", "fail", "owned_fail"}
                        \cup SweepOps
    /\ ApplyById(t, OperationEvent(task[t].op), "return")
    /\ UNCHANGED <<now, registryVars, group, home, worldVars>>

(* The duplicate arm of the two initial workflows: an equal request is Ok, a *)
(* different one is applied so that the state machine refuses it, and is an  *)
(* error whatever comes of that.                                             *)
CheckDuplicate(t) ==
    /\ Ready(t) /\ task[t].op \in {"start", "intent"}
    /\ task[t].dup
    /\ IF state[task[t].ent].bound["BackendBound"] = task[t].arg
       THEN Return(t, TRUE) /\ UNCHANGED <<state, cleanup>>
       ELSE ApplyAndRefuse(t, Event("BackendBound", task[t].arg))
    /\ UNCHANGED <<now, registryVars, group, home, worldVars>>

StartWorkflow(t) ==
    /\ Ready(t) /\ task[t].op \in {"start", "intent"}
    /\ ~task[t].dup
    /\ CallPort(t, IF task[t].op = "start" THEN "create" ELSE "inspect")
    /\ UNCHANGED <<now, registryVars, group, home, worldVars>>

(* approve_target: any other phase or role is an early return. *)
StartApproval(t) ==
    LET e == sessions[task[t].id]
    IN  /\ Ready(t) /\ task[t].op = "approve"
        /\ IF /\ e # NoEntry
              /\ state[e].role = "Target"
              /\ state[e].phase = "AwaitingConsent"
           THEN CallPort(t, "load_approval")
           ELSE /\ Return(t, /\ e # NoEntry /\ state[e].role = "Target"
                             /\ state[e].phase = "AccessBound")
                /\ UNCHANGED <<state, cleanup>>
        /\ UNCHANGED <<now, registryVars, group, home, worldVars>>

(* install_controller_grant, for a grant whose signature has been verified:  *)
(* a controller that does not know the target's key yet binds it now, to the *)
(* entry it holds, and keeps it even when the grant is refused below.        *)
BindGrantKey(t, key) ==
    LET e == sessions[task[t].id]
        h == task[t].ent
        binds == e # NoEntry /\ state[e].key = None /\ CanBindKey(state[h], key)
    IN  /\ Ready(t) /\ task[t].op = "grant"
        /\ state' = IF binds THEN [state EXCEPT ![h] = BindKey(@, key)] ELSE state
        /\ IF e # NoEntry /\ state'[e].key = key
           THEN Goto(t, "key_bound") /\ operation' = Held(t) /\ UNCHANGED gate
           ELSE Return(t, FALSE)
        /\ UNCHANGED <<now, registryVars, group, cleanup, home, worldVars>>

CheckGrant(t, intent) ==
    LET e == sessions[task[t].id]
        awaiting == /\ e # NoEntry
                    /\ state[e].role = "Controller"
                    /\ state[e].phase = "AwaitingConsent"
    IN  /\ task[t].pc = "key_bound"
        /\ \/ /\ ~awaiting
              /\ \E same \in BOOLEAN :
                   Return(t, /\ e # NoEntry
                             /\ state[e].role = "Controller"
                             /\ state[e].phase = "AccessBound"
                             /\ state[e].bound["AwaitingConsent"] = intent
                             /\ same)
              /\ UNCHANGED <<state, cleanup>>
           \/ /\ awaiting
              /\ state[e].bound["AwaitingConsent"] # intent
              /\ ApplyAndRefuse(t, Event("AwaitingConsent", intent))
           \/ /\ awaiting
              /\ state[e].bound["AwaitingConsent"] = intent
              /\ CallPort(t, "inspect_grant")
        /\ UNCHANGED <<now, registryVars, group, home, worldVars>>
-----------------------------------------------------------------------------
(* Returns of port calls. What a port answers is up to the backend, the      *)
(* signaling service and the user; whatever of it the code compares with     *)
(* what it knows is covered by the errors.                                   *)

(* backend.create and backend.inspect, verified against the request. *)
BackendVerified(t) ==
    /\ task[t].pc \in {"create", "inspect"}
    /\ ApplyById(t, Event("BackendBound", task[t].arg),
                 IF task[t].pc = "create" THEN "send_intent" ELSE "publish")
    /\ UNCHANGED <<now, registryVars, group, home, consent, route, media>>

IntentSent(t, intent) ==
    /\ task[t].pc = "send_intent"
    /\ ApplyById(t, Event("AwaitingConsent", intent), "return")
    /\ UNCHANGED <<now, registryVars, group, home, worldVars>>

(* publish_attended_request: the authorization registry takes an id once,    *)
(* and the user sees the request before the port call has returned.          *)
PublishRequest(t) ==
    /\ task[t].pc = "publish"
    /\ consent[task[t].id] = "none"
    /\ consent' = [consent EXCEPT ![task[t].id] = "pending"]
    /\ Goto(t, "published")
    /\ UNCHANGED <<now, registryVars, state, operation, group, cleanup, gate,
                   home, route, media>>

ConsentPublished(t, intent) ==
    /\ task[t].pc = "published"
    /\ ApplyById(t, Event("AwaitingConsent", intent), "return")
    /\ UNCHANGED <<now, registryVars, group, home, worldVars>>

(* load_attended_approval, backend.approve, backend.inspect of the grant and *)
(* the relay access of a target: on to the next port.                        *)
NextPort(port) ==
    CASE port = "load_approval" -> "approve"
      [] port = "approve"       -> "access"
      [] port = "inspect_grant" -> "access"
      [] port = "access"        -> "send_grant"

(* Fault: a target goes on without waiting for its user. *)
PortAnsweredUnasked(t) ==
    /\ \/ task[t].pc \in {"load_approval", "approve", "inspect_grant"}
       \/ task[t].pc = "access" /\ task[t].op = "approve"
    /\ CallPort(t, NextPort(task[t].pc))
    /\ UNCHANGED <<now, registryVars, group, home, worldVars>>

PortAnswered(t) ==
    /\ \/ task[t].pc = "load_approval" /\ consent[task[t].id] = "approved"
       \/ task[t].pc \in {"approve", "inspect_grant"}
       \/ task[t].pc = "access" /\ task[t].op = "approve"
    /\ CallPort(t, NextPort(task[t].pc))
    /\ UNCHANGED <<now, registryVars, group, home, worldVars>>

(* The last port: a target has published the signed grant, a controller has  *)
(* its relay access. Only then does the grant become part of the state.      *)
GrantObtained(t, grant) ==
    /\ \/ task[t].pc = "send_grant"
       \/ task[t].pc = "access" /\ task[t].op = "grant"
    /\ ApplyById(t, Event("Granted", grant), "bind_access")
    /\ UNCHANGED <<now, registryVars, group, home, worldVars>>

BindAccess(t, access) ==
    /\ task[t].pc = "bind_access"
    /\ ApplyById(t, Event("AccessBound", access), "return")
    /\ UNCHANGED <<now, registryVars, group, home, worldVars>>

(* A port failed, refused, or answered with something that does not match: *)
(* consent was denied, or this id was published before.                    *)
Denied(t) == task[t].pc = "load_approval" /\ consent[task[t].id] = "denied"

Republished(t) == task[t].pc = "publish" /\ consent[task[t].id] # "none"

PortFailed(t) ==
    /\ task[t].pc \in Ports
    /\ "port" \in Faults \/ Denied(t) \/ Republished(t)
    /\ FailWorkflow(t, IF Denied(t) THEN "Cancelled" ELSE "Internal")
    /\ UNCHANGED <<now, registryVars, group, home, worldVars>>

(* Fault: the wait for the local user has no deadline. *)
PortTimeoutExceptUser(t) ==
    /\ task[t].pc \in Ports \ {"load_approval"}
    /\ now >= state[task[t].ent].deadline
    /\ FailWorkflow(t, "DeadlineExceeded")
    /\ UNCHANGED <<now, registryVars, group, home, worldVars>>

(* run_port_before_deadline gives up on a port that does not answer. *)
PortTimeout(t) ==
    /\ task[t].pc \in Ports
    /\ now >= state[task[t].ent].deadline
    /\ FailWorkflow(t, "DeadlineExceeded")
    /\ UNCHANGED <<now, registryVars, group, home, worldVars>>

(* finalize returns once the receipt is filled in. An Ok transition on a     *)
(* terminal entry (a duplicate) lets a workflow carry on.                    *)
Finalized(t) ==
    LET c  == cleanup[task[t].on]
        ok == task[t].ok /\ ~c.err
    IN  /\ task[t].pc = "finalizing"
        /\ c.stage = "done"
        /\ IF ok /\ task[t].cont # "return"
           THEN /\ task' = [task EXCEPT ![t].pc = task[t].cont, ![t].on = NoEntry]
                /\ UNCHANGED <<operation, gate>>
           ELSE Return(t, ok)
        /\ UNCHANGED <<now, registryVars, state, group, cleanup, home, worldVars>>
-----------------------------------------------------------------------------
(* expire_due_sessions and shutdown_active_sessions, under the gate: the     *)
(* entries are listed once, with the time, and then visited in any order.    *)

StartSweep(t) ==
    /\ GateFree(t) /\ task[t].op \in SweepOps
    /\ gate' = t
    /\ task' = [task EXCEPT
         ![t].pc = "sweep", ![t].since = now,
         ![t].todo = {p \in Ids \X Entries : sessions[p[1]] = p[2]}]
    /\ UNCHANGED <<now, registryVars, state, operation, group, cleanup, home,
                   worldVars>>

(* Fault: the heartbeat spares a session that is streaming. *)
DueUnlessStreaming(t, e) ==
    /\ ~Terminal(state[e])
    /\ task[t].op = "expire" => /\ state[e].phase # "Streaming"
                               /\ task[t].since >= EffectiveDeadline(state[e])

Due(t, e) ==
    /\ ~Terminal(state[e])
    /\ task[t].op = "expire" => task[t].since >= EffectiveDeadline(state[e])

SweepEntry(t, p) ==
    /\ task[t].pc = "sweep"
    /\ p \in task[t].todo
    /\ task' = [task EXCEPT
         ![t].todo = @ \ {p},
         ![t].id = p[1],
         ![t].pc = IF Due(t, p[2]) THEN "lookup" ELSE "sweep"]
    /\ UNCHANGED <<now, registryVars, state, operation, group, cleanup, gate,
                   home, worldVars>>

EndSweep(t) ==
    /\ task[t].pc = "sweep" /\ task[t].todo = {}
    /\ gate' = Ungated(t)
    /\ task' = [task EXCEPT ![t] = Idle]
    /\ UNCHANGED <<now, registryVars, state, operation, group, cleanup, home,
                   worldVars>>
-----------------------------------------------------------------------------
(* spawn_generation_zero: the state is checked first (its context cannot be  *)
(* built for a session that is past AccessBound or whose authorization has   *)
(* ended), the group after it under its own lock (spawn_owned_task).         *)

Finished(o) == task[o].pc = "finished"

SpawnCheck(t) ==
    LET s    == state[task[t].ent]
        late == now >= EffectiveDeadline(s)
    IN  /\ task[t].pc = "spawn_check"
        /\ \/ /\ s.phase = "AccessBound" /\ ~late
              /\ Goto(t, "spawn") /\ UNCHANGED <<operation, gate>>
           \/ /\ s.phase # "AccessBound"
              /\ Return(t, TRUE)
           \/ /\ s.phase = "AccessBound" /\ late
              /\ task' = [task EXCEPT ![t].pc = "gate", ![t].op = "fail"]
              /\ UNCHANGED <<operation, gate>>
        /\ UNCHANGED <<now, registryVars, state, group, cleanup, home, worldVars>>

CanSpawn(e) ==
    /\ ~group[e].closed
    /\ Cardinality({h \in group[e].handles : ~Finished(h)}) < MaxTasks

(* A task of the pool the model draws from: never used, or over and joined. *)
Free(o, e) ==
    /\ task[o].pc = "idle" \/ Finished(o)
    /\ \A x \in Entries : /\ o \notin cleanup[x].join
                          /\ x # e => o \notin group[x].handles

Spawn(t, o) ==
    LET e == task[t].ent
    IN  /\ task[t].pc = "spawn" /\ CanSpawn(e)
        /\ Free(o, e)
        /\ group' = [group EXCEPT ![e].handles =
                       {h \in @ : ~Finished(h)} \cup {o}]
        /\ home' = [home EXCEPT ![o] = e]
        /\ task' = [task EXCEPT
             ![t] = Idle,
             ![o] = [Idle EXCEPT !.pc = "spawned", !.op = "claim",
                                 !.id = task[t].id]]
        /\ UNCHANGED <<now, registryVars, state, operation, cleanup, gate,
                       worldVars>>

(* SessionTerminal or TaskCapacityExceeded: the service fails the session. *)
SpawnRefused(t) ==
    /\ task[t].pc = "spawn" /\ ~CanSpawn(task[t].ent)
    /\ task' = [task EXCEPT ![t].pc = "gate", ![t].op = "fail"]
    /\ UNCHANGED <<now, registryVars, state, operation, group, cleanup, gate,
                   home, worldVars>>
-----------------------------------------------------------------------------
(* run_cleanup, one entry's, in a task of its own. *)

StageAfter(stage) ==
    CASE stage = "stop_media"      -> "close_transport"
      [] stage = "close_transport" -> "close_backend"
      [] stage = "close_backend"   -> "join"

(* The group is closed and cancelled before anything is torn down. The task  *)
(* that reported the failure is not joined: it is waiting for this cleanup.  *)
CloseGroup(e) ==
    /\ cleanup[e].stage = "spawned"
    /\ group' = [group EXCEPT ![e] = [closed |-> TRUE, handles |-> {}]]
    /\ cleanup' = [cleanup EXCEPT ![e].stage = "stop_media",
                                  ![e].join = group[e].handles \ {cleanup[e].caller}]
    /\ UNCHANGED <<now, registryVars, state, operation, gate, task, home, worldVars>>

(* bounded_cleanup: a step that fails or times out is recorded, and the next *)
(* one runs all the same.                                                    *)
CleanupStep(e, ok) ==
    LET stage == cleanup[e].stage
        i     == idOf[e]
    IN  /\ stage \in CleanupSteps
        /\ ok \/ stage \in Faults
        /\ cleanup' = [cleanup EXCEPT ![e].stage = StageAfter(stage),
                                      ![e].err = @ \/ ~ok]
        /\ media' = IF ok /\ stage = "stop_media"
                    THEN [media EXCEPT ![i] = FALSE] ELSE media
        /\ route' = IF ok /\ stage = "close_transport"
                    THEN [route EXCEPT ![i] = FALSE] ELSE route
        /\ UNCHANGED <<now, registryVars, state, operation, group, gate, task,
                       home, consent>>

JoinTask(e, o) ==
    /\ cleanup[e].stage = "join" /\ o \in cleanup[e].join
    /\ Finished(o)
    /\ cleanup' = [cleanup EXCEPT ![e].join = @ \ {o}]
    /\ UNCHANGED <<now, registryVars, state, operation, group, gate, task, home,
                   worldVars>>

(* The join timed out: the task is aborted where it is, dropping its guards. *)
AbortTask(e, o) ==
    /\ cleanup[e].stage = "join" /\ o \in cleanup[e].join
    /\ ~Finished(o)
    /\ cleanup' = [cleanup EXCEPT ![e].join = @ \ {o}, ![e].err = TRUE]
    /\ operation' = Unlocked(o)
    /\ gate' = Ungated(o)
    /\ task' = [task EXCEPT ![o] = Ended]
    /\ UNCHANGED <<now, registryVars, state, group, home, worldVars>>

(* Faults: a forgotten session stays in the map; one too many is forgotten. *)
RetireLeakingEntry(e) ==
    LET order == Append(terminalOrder, idOf[e])
    IN  /\ cleanup[e].stage = "join" /\ cleanup[e].join = {}
        /\ cleanup' = [cleanup EXCEPT ![e].stage = "done"]
        /\ activeSessions' = activeSessions - 1
        /\ terminalOrder' = IF Len(order) > MaxTerminal THEN Tail(order) ELSE order
        /\ UNCHANGED <<now, sessions, used, idOf, state, operation, group, gate,
                       task, home, worldVars>>

RetireEagerly(e) ==
    LET order == Append(terminalOrder, idOf[e])
    IN  /\ cleanup[e].stage = "join" /\ cleanup[e].join = {}
        /\ cleanup' = [cleanup EXCEPT ![e].stage = "done"]
        /\ activeSessions' = activeSessions - 1
        /\ terminalOrder' = IF Len(order) >= MaxTerminal THEN Tail(order) ELSE order
        /\ sessions' = [i \in Ids |->
                          IF Len(order) >= MaxTerminal /\ i = Head(order)
                          THEN NoEntry ELSE sessions[i]]
        /\ UNCHANGED <<now, used, idOf, state, operation, group, gate, task,
                       home, worldVars>>

(* The session leaves the active count and joins the retained terminal ones; *)
(* the oldest of those beyond max_terminal_sessions are forgotten.           *)
Retire(e) ==
    LET order  == Append(terminalOrder, idOf[e])
        excess == IF Len(order) > MaxTerminal THEN Len(order) - MaxTerminal ELSE 0
    IN  /\ cleanup[e].stage = "join" /\ cleanup[e].join = {}
        /\ cleanup' = [cleanup EXCEPT ![e].stage = "done"]
        /\ activeSessions' = IF activeSessions > 0 THEN activeSessions - 1 ELSE 0
        /\ terminalOrder' = SubSeq(order, excess + 1, Len(order))
        /\ sessions' = [i \in Ids |->
                          IF \E n \in 1 .. excess : order[n] = i
                          THEN NoEntry ELSE sessions[i]]
        /\ UNCHANGED <<now, used, idOf, state, operation, group, gate, task,
                       home, worldVars>>

Cleanup(e) ==
    \/ CloseGroup(e)
    \/ \E ok \in BOOLEAN : CleanupStep(e, ok)
    \/ \E o \in Owned : JoinTask(e, o) \/ AbortTask(e, o)
    \/ Retire(e)
=============================================================================
