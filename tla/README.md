# TLA+ verification of mini-remote-desktop

This directory holds TLA+ models of mini-remote-desktop, the TLC configurations
that check them on small instances, and proofs checked by TLAPS. Paths below are
relative to the repository root; paths that start with a file or directory of
`mrd-service` (`wan_session/`, `signaling/`, `relay/`, ...) are relative to
`apps/mrd-service/src/`. `PROJECT.json` is the index: which definition models
which lines, which run checks which property, which fault each property detects,
the hazards of the code and the findings.

The models cover the life of a remote session inside `mrd-service`: how it is
authorized (attended, unattended, by temporary password), how it is admitted on
the LAN and negotiated over the WAN, how its signaling is numbered and delivered,
how its route fails over, how its input is carried and released, and how all of
this ends.

## 1. Inventory

### The system

A controller device views and controls a target device. On each device runs
`mrd-service`, which owns sessions; the user interface (`apps/Rdesk`) talks to it
over IPC. Devices find each other on the LAN, or over the WAN through a backend
(`apps/Rdesk-Server`), a signaling sidecar (`apps/realtime-server`) and relay
nodes (`apps/mrd-relay-agent`). Media and input travel over QUIC or WebRTC.
`junk/`, `labs/`, `prototypes/`, `subprojects/`, `vendor/` and `tools/` are not
part of the product's logic and are left aside.

| Component | State | Operations | What is hard | What makes it correct |
|---|---|---|---|---|
| WAN session state machine (`wan_session/model.rs`) | phase, accepted events, bound request, intent, grant, access, route, target key, deadline | `apply`, `bind_controller_target_key` | events in any order, late, repeated, contradictory | phases in order; nothing rebound; the bound values belong together; only failure past the deadline |
| WAN session coordinator (`wan_session/coordinator.rs`) | registry (map, active count, order of terminal sessions); per session: state, operation lock, task group, cancellation, cleanup receipt | the four workflows, commit, streaming, close, fail, expiry, shutdown, spawn, cleanup | locks held across awaits; look-ups by id repeated after awaits; a cleanup that joins tasks which wait for locks; callers that are dropped | one task at a time changes a session; a terminal session is cleaned up once and completely; the registry is exact; everything that waits is released |
| WAN session service (`wan_session/service.rs`, `handlers/session.rs`) | the authorization security gate, attended requests and decisions | dispatcher of intents and grants, consent, stop, fail, heartbeat, shutdown | a global gate next to the per-session lock; two handlers that drive one approval | no grant without the local user's approval; every call returns; due sessions end |
| WAN negotiation and media activation (`wan_session/webrtc.rs`, `media.rs`) | ownership lease, installed route, media runtime | claim, negotiate, commit, roll back, start media | timeout, cancellation and a second negotiator racing with the installation | a verified session has its route; an ended one has neither route nor media |
| Session authorization registry (`session_authorization.rs`) | records, grants, leases, unattended material, event history | begin, consent, verify unattended, bind key, grant, lease, fail, expire, prune, subscribe | verification without the registry's lock; leases of replaced grants; a trimmed history | scopes within what was approved; no lease outlives its grant; no verification with replaced material; every prompt is seen |
| LAN session admission (`lan_discovery.rs`, `handlers/identity.rs`) | reservations, media senders, trust | admit, wait for the user, issue, start media, distrust, disable | the gate is released while the user is asked and while the grant is sent | a distrusted device, and a disabled password, keep nothing |
| Signaling counter (`signaling/counter.rs`) | counter file, marker, lock, reserved block | open, reserve, next | crash, power loss, torn writes, deletion, two processes, the end of the range | no number twice, no reset |
| Signaling runtime (`signaling/runtime.rs`) | queue, pending table, closed sessions, history, subscriptions; replay windows | send, close, publish, subscribe, connect, shut down; receive | a fair read-write lock over a socket write; history against live events | sent once and in order; silence after the close; no gap; nobody forgotten |
| Relay failover (`relay/migration.rs`, `executor.rs`, `responder.rs`, `runtime.rs`) | generation, phase, reason, input freeze, pending replacement | observe health, accept offer, commit, discard, terminalize, cancel | cancellation guards that finish in tasks of their own | input frozen during the exchange; the loser closed; nothing left behind |
| Control input registry (`control_input.rs`) | inputs held per session, counts, fence, last move | key, button, move, release, freeze, thaw, sweep | the platform refuses any call; two sessions hold one key | down exactly while held; a fenced session gets nothing |
| Control lanes (`lan_discovery/lan_control_input.rs`, `wan_session/control_input.rs`, `crates/mrd-session/src/control_envelope.rs`) | sequence numbers, attempts, replay windows, cached answers | send, retry, acknowledge, observe | loss, repetition, reordering, late acknowledgements | injected in order; nothing after the final release; ok means injected |
| Temporary access (`temporary_access.rs`, `public_connection/temporary.rs`, `apps/Rdesk-Server/app/services/`) | intent epochs, password, publication status, guests; the backend's row and requests | refresh, disable, publish, renew, admit, approve, restart | two awaits per publication, lost and late answers, a guest on its way | shown as ready means served; a replaced password is gone; disabling ends its guests |
| Session agent input (`apps/mrd-session-agent/src/input.rs`) | resources, held inputs, answer cache | start, handle, stop, release | retries after a trimmed cache | executed once; nothing orphaned |
| Agent runtime and shutdown (`agent_runtime/`, `shutdown.rs`) | leases of session agents, admission | attach, detach, drain | shutdown racing with an attach | nothing is admitted after the drain began |
| Realtime server (`apps/realtime-server`) | presence, connections | register, route, disconnect | a reconnect racing with an old disconnect | an envelope goes to the current connection |
| Rdesk-Server relay directory and accounts | sessions and policies in a database | HTTP | seen through the backend port | |
| Relay agent, session agent runtime, mobile gateway | leases, child processes | heartbeat, spawn | platform code mostly | |
| File transfer (`crates/mrd-file-transfer`) | chunks, resume points | send, resume | resume after a loss | no gap, no overlap |
| Session scheduler, media adaptation, transports, capture, encode, decode, render, buffer pool | queues, rates, frames | network and platform I/O, control loops | real time | |
| Identity, storage, IPC and protocol crates; user interfaces | keys, tables, codecs; presentation | sign, verify, encode, show | cryptography and encoding | |

### How the WAN components interact

* The IPC handler of a controller calls `start_controller`; the dispatcher
  (`run_wan_session_service`) receives the signed intent on the target, and the
  signed grant on the controller, and drives the other three workflows. It
  handles one event per id at a time and drops what arrives meanwhile.
* The user's answer comes through `respond_to_consent`, which records it under
  the gate and, for a session that waits for it, calls `approve_target` itself
  while the dispatcher's own `approve_target` may be waiting in
  `load_attended_approval`, holding the session's operation lock.
* After `AccessBound` and the installation of the authorization the service
  spawns the generation-zero task into the session's task group. It claims the
  lease, negotiates, commits the route under gate and operation lock, starts
  the media runtime under the gate and records `Streaming`.
* The heartbeat ends sessions whose grant is over; shutdown ends all of them.
* Whoever makes a session terminal starts `run_cleanup` in a task of its own and
  waits for its receipt, holding the locks it has. The cleanup closes the task
  group (which is also the cancellation), calls six ports, joins the group's
  tasks with a timeout, aborts the ones that do not end, and updates the registry.

There are thus two locks (the global gate before the per-session operation
lock), a cancellation, a lease, and timeouts; a session can be ended from many
places.

### How the other components interact

* `SessionAuthorization` is the registry every path asks: the LAN handler
  (`LanAdmission` extends it), the WAN service (which keeps the decision per id
  only) and the user interface, which pages through its events
  (`SessionEventFeed` extends it).
* The LAN handler and the administrative changes (distrust, disable) exclude each
  other with the same authorization gate the WAN service uses.
* The WAN ports for signaling are `SignalBus`: a queued command is answered when
  it was written, refused, or when its session or the task ends. Every envelope
  is numbered by `SignalCounter`.
* A relay failover freezes and thaws the input of its session in the control
  input registry. `RelayFailover` keeps one flag for it; `ControlInput` models
  what freeze and thaw do there.
* The target end of a control lane injects through the control input registry.
* A guest admitted by a temporary password becomes a WAN session; its WAN
  workflow is one `stage` per session in `TemporaryAccess`.

## 2. Modules

| Module | Models | State and actions |
|---|---|---|
| `WanSessionState` | `wan_session/model.rs` as operators on a record | `Apply`, `BindKey` return the new record, `Outcome` the result of `apply`, in the order of its early returns |
| `WanSessionMachine` | one session driven by arbitrary events | `ApplyEvent`, `BindTargetKey`, `Tick` |
| `WanCoordinator` | `wan_session/coordinator.rs` | registry, entries, operation locks, task groups, cleanups; the steps of every operation |
| `WanService` | `service.rs`, `webrtc.rs`, `media.rs`, `handlers/session.rs`; composes itself with the coordinator | gate, consent, route, media; calls, sweeps and the owned task |
| `WanSessionRegistry` | what the registry promises | `Admit`, `End`, `Retire`; implemented by `WanService` |
| `SessionAuthorization` | `session_authorization.rs` | records, material, leases, history; one action per registry operation, two for the verification of a password |
| `SessionEventFeed` | `subscribe` and a user interface that follows it | cursor and prompts; a page, a reset, a restarted interface |
| `LanAdmission` | `handle_signed_remote_session_request`, trust and password changes, media leases | per handler a program counter; gate, reservations, media senders |
| `SignalCounter` | `signaling/counter.rs` | what a read returns and what a power loss may leave of both files, the lock, each process' place in `open` and `next` |
| `MonotoneCounter` | what the counter promises | a number that only grows; implemented by `SignalCounter` |
| `SignalBus` | the command and event half of `signaling/runtime.rs` | queue, pending table, lifecycle lock, connection task, closes, history, subscriptions, relay requests |
| `RelayFailover` | `relay/` and the replacement calls of `transports/webrtc.rs` | the session entry, calls by stage, guard tasks, thaws, terminal cleanup, the transport host |
| `ControlInput` | `control_input.rs` | held sets, counts, fence, moves, the platform, the release loop |
| `HeldInputs` | what the registry promises | plain held sets with a fence; implemented by `ControlInput` |
| `ControlLane` | both senders and the receiver of control events | numbers, requests in flight, two channels, replay window and cached answers |
| `TemporaryAccess` | device, ticker, backend row and guests of a temporary password | intents and epochs, publications under way, guest table, rows |
| `WanSessionMachineProofs`, `WanServiceProofs`, `AdmissionProofs`, `SignalingProofs`, `RelayFailoverProofs`, `ControlInputProofs`, `ControlLaneProofs`, `TemporaryAccessProofs` | | the proofs of section 5 |
| `MC...` | instances for TLC | |

A definition marked FAULT is a plausible mistake in the definition after it. It
is used by nothing; replacing the correct definition by it must make the
property `PROJECT.json` names fail.

### How code becomes steps (WAN)

The service runs on a multi-threaded tokio runtime. A step of the model is the
code between two points where another task can interfere: an await on a lock, a
port or a timer, or a lock that is released and taken again. Taking a lock is one
step with what the code does right after it under that lock. A port call is one
step that makes the call and one that takes the answer (or the error, or the
timeout); in between anything may happen. A `task[t]` record is the continuation
of a task: `pc` is where it waits, `op` the operation it is in, `id` the session
id, `ent` the entry it looked up (the `Arc<SessionEntry>`), `on` the entry whose
cleanup it waits for. Two things of the code are kept because they matter: a task
holds the lock of the entry it looked up first, but `apply` looks the id up again
(`ApplyById`); and `begin` publishes the entry before its creator holds its lock.

* `Begin`: `begin`, with the duplicate and the fresh arm. `Lookup`: `entry`.
  `ApplyOperation`: `apply_with_operation`.
* `CheckDuplicate`, `StartWorkflow`, `BackendVerified`, `IntentSent`,
  `PublishRequest`, `ConsentPublished`: the two initial workflows.
  `StartApproval`, `PortAnswered`, `GrantObtained`, `BindAccess`: approval.
  `BindGrantKey`, `CheckGrant`: the controller's grant.
* `PortFailed`, `PortTimeout`: `fail_workflow_if_needed` and
  `run_port_before_deadline`.
* `StartSweep`, `SweepEntry`, `EndSweep`: expiry and shutdown.
* `SpawnCheck`, `Spawn`, `SpawnRefused`: `spawn_generation_zero` and
  `spawn_owned_task`.
* `CloseGroup`, `CleanupStep`, `JoinTask`, `AbortTask`, `Retire`: `run_cleanup`.
  Its six port calls are three steps: freezing the input and clearing signaling
  have no effect on modelled state, and removing the failover route goes with
  closing the transport.
* `Claim` to `Recover`, `Cancel`, `NegotiationTimeout`: the generation-zero task.
* `DropCaller`: the future of a caller is dropped where it waits (the `select!`
  in `main.rs`, `abort_all` of the dispatcher); its guards go, its cleanup stays.

Not in the steps: signatures and commitments are verified by operators that only
compare; a message that fails verification changes nothing and has no action. The
exchange of session descriptions and candidates is one step that succeeds, fails
or takes for ever. The comparison of identity, grant and access with those a task
was spawned for is the comparison of the entry (`home[o]`).

### The same for the other modules

* `SessionAuthorization`: every operation of the registry runs under one mutex
  and is one action. `verify_unattended` takes the material's mutex,
  verifies, and then takes the registry's: `VerifyStart` and `VerifyCommit`. Refused operations change nothing and have no action.
* `LanAdmission`: a handler is at the gate, in the admission, waiting for the user,
  at the gate again, issuing, sending, or committing its media. Everything between
  two awaits is a step, with the failure path of each.
* `SessionEventFeed`: an answer of `subscribe` is the first `PageLimit` events after
  the cursor, or a reset; what it does to the prompts depends only on which events
  are on the page, so the page is a set of positions of the history.
* `SignalCounter`: a write is truncate, write and sync; a process may stop and the
  machine lose power at each. A content is a number, `Torn` or `Absent`.
* `SignalBus`: one stretch under one mutex, or up to an await, is a step. The
  `RwLock` is fair: a waiting writer keeps new readers out (`CanRead`). `Retain` is
  `VecDeque::retain`: the queue and the history without what is of a closed session.
* `RelayFailover`: the deadline around the executor drops it at any of its awaits,
  the commit included; the drop of a guard spawns a task that settles phase, route
  and freeze; a thaw is spawned and runs later. Nothing joins those tasks, so they
  may run at any later time. `begun`, `overtaken`, `late` and `cut` are history: they
  name attempts, and the cases the properties make an exception of.
* `ControlInput`: one call is one step under the registry's mutex; the release
  loop keeps the mutex over its three rounds and is one step per session.
* `ControlLane`: a channel keeps what was sent. LAN lanes and the WAN realtime
  lane deliver any of it any number of times, in any order or never; the WAN
  reliable lane delivers in order and once, but possibly after the sender gave up.
  A LAN session ends with one `ReleaseAll` per granted scope, the next one sent
  only after the one before was acknowledged. The target may refuse an event
  before it looks at its number, or drop an expired one without an answer (`Spurned`).
* `TemporaryAccess`: a publication is a request that the backend applies at once,
  later or never, and an answer that is taken or lost. Epochs are begun without
  the state's lock, as in the code. `Enrolled` says whether the server knows the
  device's key already; if not, the first publication has to be an enabled one.

## 3. Runs

Every run is `tlc -workers 2 -config <cfg> <module>`.

| Configuration (module) | Instance | Shows |
|---|---|---|
| `MCWanSessionMachine` | two requests, intents, keys; three accesses; four grants that end before, at and after the deadline, with either route policy | `PhaseChain`, `AuthorityChain` for every sequence of calls of `apply` and of the key binding |
| `WanTarget` (`MCWanService`) | a target; two intents for its id that contradict each other; dispatcher, a handler that answers, stops and expires, one negotiating task; ports fail or stay silent; under fairness | `GrantNeedsConsent`, `CleanupLeavesNothing`, `OnlyLockHolderChanges`, `VerifiedInTime`, `EveryCallReturns`, `DueSessionsEnd` |
| `WanController` (`MCWanService`) | two controller sessions for one place and one retained session; two negotiating tasks; peers fail, the call that closes the backend session fails, callers are dropped | `RegistryExact`, `TerminalIffCleanup`, `VerifiedRouteInstalled`; `ImplementsRegistry`: the specification implements `WanSessionRegistry` |
| `SignalCounter` (`MCSignalCounter`) | two processes, blocks of two, the range ends after the fourth block | `NeverReset`; `StrictlyIncreasing`: the store implements `MonotoneCounter` |
| `SignalBus` (`MCSignalBus`) | one session, one subscriber, two requests, two events, a live channel of one; under fairness | `SentOnceInOrder`, `NoGapNoRepeat`, `SilentAfterClose`, `CallersReturn` |
| `Authorization` (`MCSessionEventFeed`) | one session id used by an attended, an unattended and an outgoing request, two records in turn, two scopes, history of two, pages of one | `GrantWithinApproval`, `LeaseEndsWithGrant`, `NoPromptLost`, `NoStaleMaterial` |
| `Lan` (`MCLanAdmission`) | an attended and an unattended request of two devices that name the same session; under fairness | `DistrustedHasNothing`, `DisabledHasNothing`, `EverythingEnds` |
| `RelayFailover` (`MCRelayFailover`) | the monitor's call and two offers, the offers cancellable, two failure domains, two generations, three attempts; deadlines, guards and thaws at any time; under fairness | `InputFrozenInFlight`, `LoserClosed`, `NothingLeftBehind`, `CallsReturn` |
| `ControlInput` (`MCControlInput`) | two sessions, two buttons, two keys | `DownIffHeld`, `SweepClears`, `FenceHolds`; `ImplementsHeld`: the registry implements `HeldInputs` |
| `ControlLane` (`MCControlLane`) | LAN and WAN senders, both lanes, two scopes, four events (on a LAN two of them closing ones), window of two, refused injections, refused, expired and dropped events | `InjectedInOrder`, `FinalReleaseWins`, `OkMeansInjected` |
| `TemporaryAccess` (`MCTemporaryAccess`) | one call, the ticker, one guest, one lost answer, failed cleanup or restart, publications that arrive late; under fairness | `ReadyIsServed`, `RefreshedNeverShown`, `DisableEndsGuests`, `StatusPublished` |
| `LaneWanWedged` (`MCControlLane`) | the WAN reliable lane alone | section 6 |

What the properties say, and why it is not obvious:

* `PhaseChain`, `AuthorityChain`: the session never holds a later binding without
  every earlier one, and grant, access and route proof fit each other, also after
  the end. `apply` compares each with its predecessor only.
* `TerminalIffCleanup`: any event the code applies may make a session terminal, a
  rejected one included, and `finalize` has to follow each time, whether or not
  its caller is dropped.
* `CleanupLeavesNothing`, `VerifiedRouteInstalled`: the negotiating task, its
  rollback, the media start and the cleanup touch the same route and media
  runtime without a lock in common. The order (group closed first, gate held over
  the start, lease over the installation) is what makes it right. The ending by a
  contradictory request holds no gate and may leave a media runtime (section 6):
  `CleanupLeavesNothing` names that exception (`by` in the cleanup's record), and
  its run contains it.
* `GrantNeedsConsent`: two handlers drive one approval, and an intent may be
  delivered again.
* `OnlyLockHolderChanges`: since `apply` looks the id up again, the lock that is
  held could be another entry's.
* `EveryCallReturns`: a stop holds the gate and waits for the operation lock of an
  approval that waits for the user, whose answer needs the gate. Only the
  deadline of the approval's port resolves this. Similarly a task may wait for
  the gate that the caller of its cleanup holds.
* `NeverReset`, `StrictlyIncreasing`: what counts is not what was written but what
  every power loss leaves.
* `SilentAfterClose`: a command may be queued, taken, or half written when its
  session is closed; the close waits for the writer, and the writer asks once more.
* `CallersReturn`: requesters, closers and subscribers all depend on a task that
  may stop at any point between taking a command and completing it.
* `NoStaleMaterial`, `LeaseEndsWithGrant`: a password is verified, and a lease
  used, while the policy or the grant they belong to is being replaced.
* `NoPromptLost`: an interface that was told it is current shows every session
  that waits for its user.
* `DistrustedHasNothing`, `DisabledHasNothing`: a handler that passed the check
  before the change is let go on to issue or to media; it must meet a second
  check, or be among the victims. A grant whose expiry was noticed before the
  distrust is not a victim: its lease is cancelled already, and its media end by
  noticing that (`EverythingEnds`).
* `InputFrozenInFlight`, `LoserClosed`, `NothingLeftBehind`: an attempt that was
  cancelled is settled by a task nobody waits for, which may meet the next attempt.
  The properties name the cases in which the code does not keep the promise: a
  thaw still to run when an answering end begins (`late`), a generation planned again
  before the guard of its first attempt has run (`overtaken`), a commit cut off
  after its publication (`cut`). The run contains all three (section 6).
* `DownIffHeld`, `SweepClears`: what a refused release leaves has to be found again.
* `FinalReleaseWins`: the event before a closing `ReleaseAll` may be lost, so the
  target lets it skip one number; only one, and the next closing one is sent after
  the acknowledgement, so it is never beyond the gap.
* `OkMeansInjected`: an acknowledgement of an earlier attempt, or of another event
  under the same number, may be the one that arrives.
* `ReadyIsServed`: stated for the first life of the process, see section 6.
* `DisableEndsGuests`: once a disable has ended its sessions, no guest admitted
  before it is granted, neither by an approval in flight nor by a later refresh.

Type invariants (`TypeOK` or its like in each module) are proved for the
components of section 5; the runs spend their time on the properties above.

### Bounds

* Time is only compared, so a few ticks suffice: the grant ends at 1 and the WAN
  session at 2, so before, between and after are visited; a temporary password
  lives one tick; a LAN grant lives one tick and the requests expire at 1.
* One session where sessions share nothing; two where they compete (registry
  places, held keys) or where two packets name the same one.
* Two of each kind of task are the smallest number that compete: owned tasks for
  the lease, handlers for the gate, offers for the relay phase, processes for the
  counter file.
* Queues, histories and windows have one or two places, so that every limit that
  a property is about is reached; four lane events against a window of two: on a
  LAN two events of the caller and two closing ones, on a WAN route three. The
  registry limits of `SessionAuthorization` (records, pending) are not the subject
  of a run.
* Fault kinds are chosen per run: all at once would only multiply states. Of the
  WAN cleanup steps `close_backend` and the join fail in a run; the failure of the
  others, and failing media starts, are actions of the model that the theorems of
  section 5 cover and no run of this size contains.
* `RelayFailover`: three attempts (`MaxAttempts`) over two generations, so that a
  generation is tried twice and another attempt follows.
* `TemporaryAccess` runs with an enrolled device: the first disable of one that is
  not is refused, and each retry takes a new generation (section 7). The theorems
  cover both.
* Symmetry: ids and owned tasks in `WanController`, a run without liveness.

Deadlock is checked in `MCWanSessionMachine`, `WanTarget`, `WanController` and
`ControlInput`. Elsewhere the system may stop: the bounded calls, packets, events
or numbers are used up, the bus has shut down, the session has ended.

## 4. Fairness

* `WanService`: weak fairness of the clock and of the cleanup's steps; strong
  fairness of the steps of every caller and owned task (tokio's mutexes are first
  in, first out, so a task that waits for one gets it although it is taken again
  and again in between), and of the heartbeat's expiry. What is under a timeout
  ends: port calls, the negotiation, each cleanup call, the join, the wait for
  first media. No backend, peer or user has to answer.
* `SignalBus`: weak fairness of the connection task, of a close, a subscriber and
  a relay request that have begun; strong fairness of the task's end once shutdown
  was requested. A write to a dead socket is assumed to fail in the end: the code
  has no timeout of its own there.
* `LanAdmission`: weak fairness of every handler and administrative change under
  way and of the clock; strong fairness of entering the gate (first in, first out)
  and of a media loop noticing that its lease is over. The user has to answer
  nothing: the request expires.
* `RelayFailover`: weak fairness of the stages of a call, of the terminal cleanup,
  of guard tasks and spawned thaws. The exchange ends by answer or deadline.
* `TemporaryAccess`: weak fairness of the clock, of every update under way, of the
  backend serving what was sent and of the freeze at the end of the process;
  strong fairness of acquiring the operation lock. Answers may be lost as often as
  the bound on faults says; the ticker repeats.

## 5. Proofs

All constants are arbitrary within the named assumptions.

| Module | Theorem | Statement |
|---|---|---|
| `WanSessionMachineProofs` | `Invariance`, `TypeCorrect` | `Spec => []Inv`, `Spec => []TypeOK` |
| | `PhasesInOrder`, `AuthorityHolds` | `[]PhaseChain`, `[]AuthorityChain` |
| | `BoundForGood`, `NothingAfterTheEnd`, `OnlyFailurePastDeadline` | `BoundOnce` (what is bound is never replaced), `TerminalIsFinal`, `NoProgressPastDeadline` |
| `SignalingProofs` | `CounterTypeCorrect`, `CounterReservedBeforeUse`, `CounterNeverReset`, `CounterOneOwner` | `[]TypeOK`, `[]ReservedBeforeUse` (what is issued is below a bound every crash leaves), `[]NeverReset`, `[]OneOwner` |
| | `CounterStrictlyIncreasing` | the store implements `MonotoneCounter` |
| | `BusInvariant`, `BusTypes` | `BusSpec => []BusInv`; `[]BusTypeOK`, the capacities of queue, pending table, history and channels included |
| | `CommandsInOrder`, `CloseSilences`, `SubscriptionsComplete` | `[]SentOnceInOrder`, `SilentAfterClose`, `[]NoGapNoRepeat` |
| `WanServiceProofs` | `BaseInvariant`, `WanTypeInvariant` | `[]Base`, `[]TypeOK` |
| | `TerminalIffCleanupInvariant`, `RegistryExactInvariant` | `[]TerminalIffCleanup`, `[]RegistryExact` |
| | `RegistryRefinement` | coordinator and service implement `WanSessionRegistry` |
| | `VerifiedInTimeHolds`, `VerifiedRouteInvariant` | `VerifiedInTime`, `[]VerifiedRouteInstalled` |
| | `OnlyLockHolderHolds` | `[]IdsUsedOnce` implies `OnlyLockHolderChanges` |
| | `GrantNeedsConsentHolds` | `[]OneRole` implies `[]GrantNeedsConsent` |
| `AdmissionProofs` | `RegistryInvariant` | `[]AuthorizationInv` |
| | `GrantsStayWithinApproval`, `LeasesEndWithGrants`, `VerifiedAgainstCurrentMaterial` | `[]GrantWithinApproval`, `[]LeaseEndsWithGrant`, `NoStaleMaterial` |
| | `FeedInvariant`, `NoPromptIsLost`, `RegistryTypes` | of the registry with an interface that follows it: `[](AuthorizationInv /\ FeedInv)`, `[]NoPromptLost`, `[]TypeOK` |
| | `AdmissionInvariant` | `LanSpec => []LanInv` |
| | `DistrustIsComplete`, `DisableIsComplete`, `LanGrantsWithinApproval` | `[]DistrustedHasNothing`, `[]DisabledHasNothing`, `[]GrantWithinApproval` of the composition |
| `RelayFailoverProofs` | `FailoverInvariant` | `[]FailoverInv` |
| | `MigratesFrozen`, `LosersAreClosed`, `AttemptsLeaveNothing` | `[]InputFrozenInFlight`, `[]LoserClosed`, `[]NothingLeftBehind` |
| `ControlLaneProofs` | `LaneInvariant` | `[]LaneInv` |
| | `LanesInjectInOrder`, `ToldMeansInjected`, `ReleaseIsLast` | `[]InjectedInOrder`, `[]OkMeansInjected`, `[]FinalReleaseWins` |
| `ControlInputProofs` | `InputTypeCorrect`, `InputCountsExact`, `InputDownIffHeld`, `InputSweepClears`, `InputFenceHolds` | `[]TypeOK`, `[]CountsExact` (a count is the number of holders), `[]DownIffHeld`, `[]SweepClears`, `FenceHolds` |
| | `RegistryImplementsHeldInputs` | the registry implements `HeldInputs` |
| `TemporaryAccessProofs` | `AccessInvariant`, `AccessTypes` | `[]AccessInv`, `[]TypeOK` |
| | `ReadyServed`, `RefreshIsFinal`, `DisableIsFinal` | `[]ReadyIsServed`, `[]RefreshedNeverShown`, `[]DisableEndsGuests` |

**Phase machine.** Assumptions: `PayloadAssumption` (an absent value differs from
every payload; grants and accesses are what their constructors accept) and
`MachineAssumption` (deadlines are positive and within the clock's bound).
The argument: `ApplyCases` shows that a call of `apply` either leaves the session
alone, ends it, or advances it by exactly one phase with a permitted payload.
`Inv` is the conjunction of the type (as a set of records), the clock's range,
`PhaseChain`, `AuthorityChain` and `EndedOnce`. None of the two chains is
inductive alone: that an advance binds a kind that was not bound before needs
`PhaseChain`, and without that an advance could replace the request or grant
`AuthorityChain` compares with. `EndedOnce` (a terminal event is accepted only by
a session that is over) is needed for `LiveBound`, hence for `BoundOnce` on the
two terminal kinds. `EndsInv`, `AdvancesInv` and `BindKeyInv` preserve `Inv` for
each case, and the action properties are read off `StepCases`.

**Counter.** Assumptions: `CounterAssumption` (positive floor and block, at least
one block fits) and, as a hypothesis of every theorem, `SyncKeepsEntry`: the
file system keeps the directory entry of a file that was synced. The inductive
invariant is the conjunction of `TypeOK`; `LockInv` (a process is past the
lock exactly when it owns it); `BoundInv` (every number a power loss may leave in the
counter file bounds the numbers issued); `HandleInv` (the block of a process that
issues is covered by the file, and what was written is what it wanted to reserve);
`FoundingInv` (one process founds the store, and before any number is issued);
`EntryInv` (the marker is durable before the counter holds a number; once a number
was issued both files stay, or one of them if the other was deleted by hand). None is inductive alone: the bound
needs the lock, and the founding case needs that an absent file means an unused
store, which is `EntryInv`.

**Signaling bus.** `BusAssumption` (the capacities are positive, the bounds
numbers): any number of sessions, subscribers, commands and events. `BusInv` has
four parts. `RequestsInv`: what is written, the command in hand and the queue follow each
other in the order of acceptance, so taking, writing, refusing and filtering cannot
reorder or repeat. `CloseInv`: a close that has got the lock has marked its session, and
the connection holds its read guard only for an open one; this is what makes the
second look before the write sufficient. `EventsInv`: with one event the history has
all later ones of open sessions, whatever was dropped in front or filtered. `SubsInv`:
the channel of a subscription holds exactly the newest events, and what it took
before precedes them and is complete from its first event on (`Following`), unless
it lags or its session is closed. `Following` relates replay, channel and log at
each moment; `NoGapNoRepeat` alone loses the place where replay and channel meet.
`CapacityInv` adds what the types need: every queued command is in the pending table,
and no container exceeds its capacity. `Retain` is a recursive
function over the length. What it returns is shown without an induction
principle: among the lengths at which a claim fails there would be a least one
(`Least`), which the defining equation excludes.

**Input registry.** Assumptions: finitely many sessions, buttons and keys are
different, `NoPoint` is no point. The inductive invariant is `TypeOK`,
`CountsExact`, `DownIffHeld` and `SweepClears`; `DownIffHeld` needs `CountsExact`,
because the platform is called exactly when a count becomes or leaves zero. The
refinement maps the held sets, the fence and the moves and reads the abstract step
off each action, the partial release included.

**WAN coordinator and service.** Assumptions: `CoordinatorAssumption` (the limits
are positive, as `validate` demands; the bounds are numbers) and
`PayloadAssumption`. Callers and owned tasks may be any sets, and any faults may
happen, failing media starts and each failing cleanup step included.

* `Base` is the types with the places: what a task, a cleanup or the registry names
  is an allocated entry, under the id the task works for, and the place of an owned
  task fits its operation. It is inductive alone and every other argument starts
  from it. Each action is first put into one of a few forms by a lemma of its own
  (`Works`: under the lock, an event is applied or not, and the task returns, waits
  for a cleanup or goes on; `Strolls`: outside the lock; `Stays`: under the lock,
  nothing applied; the key, a new session, a new task, the steps of the cleanup,
  the clock), and the form is shown to keep `Base` once.
* `Stirs` sorts the same steps by what they do to sessions, registry and cleanups:
  nothing, `Admits`, an applied event, a key, `Tears`, `Retire`. `TerminalIffCleanup`
  is inductive with `Base` over `Stirs`, because every form that applies an event
  has the `finalize` after it in the same step.
* `RegistryExact` needs `RegistryInv`: the active count is the number of live
  entries, a live entry is the one its id names, no id is twice in `terminalOrder`,
  and what is retained is what is listed. The cardinality of a set that gains or
  loses one entry comes from `FiniteSetTheorems`, and `ListAppend`, `ListTail` say
  what appending one id and dropping the oldest do to the list. The refinement maps
  each form of `Stirs` to `Admit`, `End`, `Retire` or a stutter of
  `WanSessionRegistry`.
* `VerifiedInTime` is read off the one form that verifies a route: `Fit` says that
  it is the end of the task's own installation, before the deadline.
* `VerifiedRouteInstalled` is far from inductive. `Parts` says what a step does to
  the places of owned tasks, the routes and the groups. On top of `RegistryInv` and
  `TerminalIffCleanup`: `GroupInv` (a group is closed only by the cleanup),
  `LeaseInv` (at most one owned task of an id is negotiating or committing) and
  `CommitInv` (while a committing task may still roll its route back, no session of
  its id is verified but the one it has just verified itself). The lease keeps a rollback away from
  another task's route; that two sessions of one id are never both alive keeps the
  cleanup of an old one away from the route of a new one.
* `OnlyLockHolderChanges` uses `Moves` (who moved, whether under the lock, and which
  ports of a grant it reached) and `LockInv` (a task inside an operation holds the
  lock of the entry it looked up). `apply` looks the id up again, so the entry it
  changes is the locked one only if an id names one entry: the hypothesis
  `IdsUsedOnce`. It is satisfied by every execution in which no id is begun again
  after `terminal_order` has dropped it. The controller chooses an id per
  session and the backend keeps it as a primary key
  (`apps/Rdesk-Server/app/services/device_sessions.py:139`); the service itself
  does not enforce it.
* `GrantNeedsConsent` uses `ConsentInv`: the ports of an approval are reached with
  the recorded approval, those of a controller's grant only for a session whose
  role is `Controller`; an approval is never taken back (`Approves`). The weaker
  hypothesis `OneRole` (the sessions of an id all have the same role) suffices and
  is needed: a grant handler of a forgotten controller session would otherwise bind
  the grant to the target session that now has its id.

**Authorization registry.** Assumptions: the limits are numbers, the requests and
failure codes are those of the code, `None` is no grant. `AuthorizationInv` is
`RecordsOK` (a record's scopes are within what was asked and approved; granted
means a grant with exactly these scopes; an undecided record has none), `LeasesOK`
(a lease stems from an earlier record and, while that is there and not cancelled,
from its grant) and `MaterialHeld` (no renewal during a verification).
`GrantWithinApproval` needs the part on undecided records, since `grant` takes
what the decision left; `LeaseEndsWithGrant` needs instance numbers never used
twice, so that a replaced record is not taken for the lease's own.

**Event feed.** `PageAssumption`: a page has at least one event and the history
keeps at least one (`subscribe` refuses a limit of zero,
`session_authorization.rs:1476`; `EVENT_HISTORY_LIMIT` is 1024). `FeedInv` on top of
`AuthorizationInv`: the history is gapless and ends with the last number given out; what
decides or ends a request that still waits is followed in it by a new request of the
same session (`Reasked`), so that a page cannot take down a prompt for good; the cursor is no later than the
last number (`CursorOK`); and a waiting session is shown, or its request lies after the
cursor, or the trimmed history forces the interface to start over. The reset test of
`subscribe` recognises exactly the last case (`ResetMeans`), because the history has
no gaps.

**LAN admission.** `HandlersAssumption` (handlers have incoming requests; the
administrator is none of them). `LanInv` adds to the registry's invariant `GateInv`
(who is in the gated part holds the gate), `CheckedInv` (trust checked by a handler
holds until it has inserted its record) and `RecordsInv` (a record of a distrusted
device is over, or about to be ended by the distrust that runs; media run only for
a granted or cancelled record; without material no unattended record is
authorized). Outside the gate this leaves a distrusted device, or a disabled
password, no request that could still be granted, and media only without a lease.

**Relay failover.** Assumption: `RelayAssumption`; nothing is assumed of the timing of
guards, thaws and deadlines. `FailoverInv` says who owes what: a generation names
one call, and a guard beside it means that the generation was overtaken
(`AttemptInv`); an answering end takes a generation once (`OfferInv`); the monitor makes
one call at a time and waits for its thaw, so a guard of it has work only when a
generation was overtaken (`MonitorInv`); a held phase has a call or a dropped guard
that gives it back (`HoldInv`, `OwnerInv`); a fence has someone who removes it
(`LiftInv`) and, while an attempt works, nobody who does it too early (`FenceInv`); a
published generation that is not the session's has someone who commits or closes it,
unless its commit was cut off (`RouteInv`). Each is a promise about later steps, so
none is inductive without the others. The exceptions of the three properties are
the code's (section 6) and each is needed: without it TLC refutes the property.

**Control lanes.** Any number of events, attempts and scopes, any window, a network that
loses, repeats, delays and reorders. `LaneInv` is `NumbersOK` (ids name events,
numbers and ids are given out in the same order, a LAN gives out none twice),
`AnswersOK` (what was injected or answered is below the expected number; every "ok"
under way stands for an injection), `SessionOK` (one end, nothing after it),
`ReleasesOK` (the closing events have consecutive ids, and each was begun after the
one before it was acknowledged) and `ReliableOK` (how far the target of a LAN session
may be behind, which makes the closing event in flight one that it can accept).

**Temporary access.** Assumptions: `AccessConstants` (the ticker is no call; lifetime and
renewal margin are numbers, the margin is the smaller one) and `NobodyAssumption`. Any
number of calls, guests, faults and lives, publications that arrive late or never.
`AccessInv` is types, the mutex (`Mutex`), whose secrets there are (`LivesInv`) and
four arguments. `PublicationInv`, for the first life: every document under way is one
the device made for a generation it has reached, an acknowledged one is in the
backend's row or was superseded there, so marking it as published is right even
when an older one arrives afterwards. `EpochInv`: no task is ahead of the intent, and what is
in force for the current epoch is newer than the last refresh; `RefreshedNeverShown`
follows. `TableInv`: a session on its way is in the guest table. `DisableInv`: a guest
admitted before a disable is on the list that the disable still works off, or over.
The last is not inductive without `EpochInv` and `TableInv`: a disable that was
overtaken by a later intent has to leave the guests of that intent alone.

Only model-checked:

* all liveness (fairness and `ENABLED` are outside the prover's reach):
  `EveryCallReturns`, `DueSessionsEnd`, `CallersReturn`, `EverythingEnds`,
  `CallsReturn`, `StatusPublished`;
* `CleanupLeavesNothing`, with the exception it names (`coordinator.rs:316` in section 6).

## 6. Findings

`LaneWanWedged` (TLC refutes `FreshIsNoReplay`; `PROJECT.json` quotes the lines):
the WAN controller advances its number only when an event was acknowledged. When
an event was injected and its acknowledgement does not arrive within the attempts,
the next event is sent under the used number and answered as a replay, and so is
every one after it. The LAN sender ends the session in this case.

Observed while modelling; each was a counterexample of an instance or a property
that is not among the runs:

* `wan_session/coordinator.rs:226`: `begin` inserts the session before the lock is
  taken. A second start of the same identity that gets the lock first binds the
  request before the backend was called. `begin_outgoing` of the service refuses a
  second start of an id.
* `coordinator.rs:701`: an installer that fails at or after the deadline makes
  `apply` return an error, which is read as "not failed": the cleanup closes the
  backend session of a failed session instead of revoking it.
* `coordinator.rs:316`: an intent with the same identity and another request ends
  the session under the operation lock alone; the gate of
  `start_verified_media_owned` does not keep that cleanup out, and a runtime
  registered after `stop_media` stays, against the comment at `media.rs:625`.
  `CleanupLeavesNothing` names this ending as its exception.
* `coordinator.rs:866`: `apply` looks the id up again, under the lock of the entry
  that was found first. When a session was ended and forgotten meanwhile and its id
  begun again, a workflow of the old session changes the new one without its lock,
  and the grant of a controller session may reach a target session. The theorems
  that exclude this name it as a hypothesis (`IdsUsedOnce`, `OneRole`).
* `wan_session/service.rs:1285`: the handler of a repeated intent goes on to
  `approve_target`, is told `RoleOrPhaseMismatch` once the session is past
  `AccessBound`, and fails the live session.
* `wan_session/media.rs:607`: `record_streaming` compares the time with the
  identity's deadline, not with the grant's end; the heartbeat ends such a session.
* `signaling/counter.rs:130`: the directory is synced only by the open that creates
  the counter. Where syncing a file does not keep its entry, an interrupted first
  open and a later power loss reset the sequence (`SyncKeepsEntry` FALSE).
* `signaling/runtime.rs:1509`: a message under a conflicting key enters the replay
  guard before it is ignored, and is not remembered; delivered again it is refused
  by the guard and the shared socket is closed, against the comment at line 1658.
* `session_authorization.rs:1534`: event numbers start again after a restart of the
  service; an interface with an older cursor is told that it is current and does
  not show a pending request (`crates/mrd-ipc/src/lib.rs:2004`).
* `relay/migration.rs:1157`: a thaw that was spawned before the session became
  terminal removes the fence that the terminal cleanup set.
* `relay/migration.rs:1022`: the deadline of `executor.rs:493` spans `commit_replacement`,
  which publishes the new route and then waits for the old one to shut down
  (`crates/mrd-transport-webrtc/src/peer.rs:2238`). A deadline in that wait is taken
  for a retryable failure; the host keeps the new generation, the coordinator the
  old one (the exception `cut` of `LoserClosed`).
* `relay/migration.rs:848`: a thaw names the session, not the generation; the one of
  a failed or cancelled attempt may open the input of the next offer's exchange (the
  exception `late` of `InputFrozenInFlight`).
* `relay/migration.rs:406`: a recovery whose refresh fails has not used its generation
  up, and its guard finishes in a task that nothing joins. The monitor usually
  pauses 250 ms before the next call, but only the scheduler decides whether the
  guard has run by then; a late one takes the new attempt of the same
  generation for its own, gives up its phase and thaws its input (the exception
  `overtaken` of `InputFrozenInFlight` and `NothingLeftBehind`).
* `lan_discovery/lan_control_input.rs:1574`: the closing `ReleaseAll`s are sent scope by
  scope, and one that is not acknowledged keeps the following ones from being sent;
  what these would have released is left to the target's own end of the session.
* `relay/migration.rs:718`: a lost offer raises only the controller's generation;
  the agent takes exactly the next one and suppresses all retries.
* `public_connection/temporary.rs:186`: a request that begins between the two
  checks of a disable makes it return before it collected any guest.
* `public_connection/temporary.rs:84`: what is still to be published is in memory
  only: a disable whose publication was lost is not published after a restart, and
  the backend serves the password until it expires.
* A publication abandoned by an earlier life of the service may arrive after the
  restarted one has published and replace its row; `ReadyIsServed` and
  `StatusPublished` are therefore stated for the first life.

## 7. Not modelled

* WAN coordinator: the retry and buffer budgets, which only tests use; the
  verification of signatures. WAN service: the projection of states to IPC, the
  contents of the authorization registry, the browser authority watcher; the limit
  of 32 dispatcher tasks. Two entries of one id are in the model and in the
  theorems, but in no run.
* Authorization: audit writes and the presentation state.
* LAN: discovery, pairing, the QUIC carrier, frames.
* Signaling: credentials, back-off, and the verification of received envelopes. The
  writes of a relay migration (`signaling/runtime.rs:2151-2175`) do not go through
  the command queue and are not on the bus model's wire: `SilentAfterClose` does not
  speak of them.
* Relay: the choice of a relay by score, the HTTP client.
* Control input: `reset_idle_state` and the path through the session agent. Control
  lanes: the table of replay states over all sessions and its limit
  (`lan_control_input.rs:408`), past which a new session is answered as a replay.
* Temporary access: account sessions, rate limits, the table limit of 128 guests,
  clock skew between device and server. A device that was never enrolled and whose
  first publication is a disable is refused, and each retry of it takes a new
  generation (`apps/Rdesk-Server/app/services/temporary_access.py:184`): in the model
  (`Enrolled` FALSE) and in the theorems, in no run. After a restart no property
  speaks of what an earlier life has published (section 6).
* The other components of section 1: planned below, or platform I/O,
  cryptography, presentation and numeric control loops with nothing to interleave.
  They are most of the repository's lines (codecs, platform APIs, user interfaces,
  generated tables, scripts).

## 8. Plan

Done: the WAN session (machine, coordinator, service, registry), signaling counter
and bus, authorization and event feed, LAN admission, relay failover, input
registry and lanes, temporary access, with proofs for all of them.

Next, proofs: `CleanupLeavesNothing` with its exception.

Next, models: the inbound half of the signaling runtime (verification order, replay
guard, key binding); the session agent's input resources; both ends of a WAN
session with the backend and a lossy signaling channel; the agent runtime's
registry and drain; presence in the realtime server; resumable file transfer.
