--------------------------- MODULE TemporaryAccess ---------------------------
(* The temporary password of a resident device and the guests it admits: the  *)
(* password state and operation epochs of the service, the update procedure   *)
(* its calls and its ticker run, the row the backend keeps for the device,    *)
(* and the guest sessions both sides hold.  Publications travel by HTTP: an   *)
(* abandoned request may still reach the backend later.                       *)
EXTENDS Naturals, FiniteSets

CONSTANTS
    Calls,          \* rotate and disable requests of local clients
    Ticker,         \* the background task
    Sessions,       \* guest session identifiers
    TTL,            \* TEMPORARY_PASSWORD_TTL_MS, in ticks of the clock
    Margin,         \* PUBLICATION_RENEWAL_MARGIN_MS
    Enrolled,       \* whether the backend holds the device's key from its enrollment
    Late,           \* whether an abandoned publication may still arrive
    MaxTime,        \* bound: the clock stops here
    MaxFaults       \* bound: lost answers, failed cleanups and restarts

ASSUME AccessConstants ==
    /\ Ticker \notin Calls
    /\ {TTL, Margin, MaxTime, MaxFaults} \subseteq Nat
    /\ Margin < TTL
    /\ {Late, Enrolled} \subseteq BOOLEAN

VARIABLES
    intent,         \* TemporaryOperationEpoch
    local,          \* TemporaryAccessState without its guest table
    known,          \* temporary_auth_version holds the registered version
    task,           \* where each call and the ticker stand
    operation,      \* the holder of temporary_operation
    guests,         \* guest_sessions: the table of locally admitted guests
    stage,          \* how far the target's WAN workflow took a session
    row,            \* the backend's DeviceTemporaryAccess row
    request,        \* the backend's guest SessionRequest rows
    late,           \* publications whose client gave up, still under way
    now, faults, life,
    floor           \* history: generation when the last explicit intent began

device == <<intent, local, known>>
guestVars == <<guests, stage>>
backend == <<row, request, late>>
world == <<now, faults, life, floor>>
vars == <<intent, local, known, task, operation, guests, stage,
          row, request, late, now, faults, life, floor>>

Tasks == Calls \cup {Ticker}
Nobody == "nobody"

\* The mutex is free or held by a task, and the two can be told apart.
ASSUME NobodyAssumption == Nobody \notin Tasks

NoSecret == <<0, 0>>
NoDocument == [gen |-> 0, enabled |-> FALSE, exp |-> 0, secret |-> NoSecret]

\* `expires_at_ms` and the published fields are Options: zero stands for None,
\* which no expiry and no published generation can be.
Fresh == [enabled |-> TRUE, applied |-> 0, rotate |-> FALSE, gen |-> 0,
          pubGen |-> 0, pubExp |-> 0, exp |-> 0, secret |-> NoSecret]
FirstIntent == [current |-> 0, enabled |-> TRUE, disabledAt |-> 0]
NoGuest == [gen |-> 0, approved |-> FALSE, at |-> 0]
NoRequest == [status |-> "none", gen |-> 0, until |-> 0]
Idle == [pc |-> "idle", kind |-> "tick", epoch |-> 0, at |-> 0,
         doc |-> NoDocument, left |-> {}]

Init ==
    /\ intent = FirstIntent
    /\ local = Fresh
    /\ known = FALSE
    /\ task = [t \in Tasks |-> Idle]
    /\ operation = Nobody
    /\ guests = [s \in Sessions |-> NoGuest]
    /\ stage = [s \in Sessions |-> "none"]
    /\ row = NoDocument
    /\ request = [s \in Sessions |-> NoRequest]
    /\ late = {}
    /\ now = 0 /\ faults = 0 /\ life = 1
    /\ floor = 0

-----------------------------------------------------------------------------
(* The password state.                                                       *)

Current(epoch) == intent.current = epoch
EpochCurrent == Current(local.applied)
Enabled == local.enabled /\ intent.enabled
NeedsRotation == local.enabled /\ (local.rotate \/ local.secret = NoSecret)

\* Comparing generations only, a renewed lease is never sent.
NeedsFirstPublication(state) == state.gen > 0 /\ state.pubGen # state.gen

NeedsPublication(state) ==
    state.gen > 0 /\ (state.pubGen # state.gen \/ state.pubExp # state.exp)

\* status().ready, apart from the signaling connection being up.
Ready ==
    /\ Enabled
    /\ EpochCurrent
    /\ ~local.rotate
    /\ local.secret # NoSecret
    /\ local.gen > 0 /\ local.pubGen = local.gen
    /\ now < local.pubExp

Begins(disable) ==
    [current |-> intent.current + 1,
     enabled |-> ~disable,
     disabledAt |-> IF disable THEN intent.current + 1 ELSE intent.disabledAt]

Frozen(state) ==
    [Fresh EXCEPT !.enabled = FALSE, !.applied = state.applied, !.gen = state.gen]

\* Without the request flag a renewal can acknowledge the old password again.
InvalidatedOnce(state) == [state EXCEPT !.pubGen = 0, !.pubExp = 0]

Invalidated(state) ==
    [state EXCEPT !.rotate = TRUE, !.pubGen = 0, !.pubExp = 0]

Rotated(state, gen, at) ==
    [state EXCEPT !.enabled = TRUE, !.rotate = FALSE, !.gen = gen,
                  !.pubGen = 0, !.pubExp = 0, !.exp = at + TTL,
                  !.secret = <<life, gen>>]

\* A renewal that counts before it is acknowledged.
RenewedInPlace(state, at) ==
    IF state.enabled /\ state.secret # NoSecret /\ state.exp <= at + Margin
    THEN [state EXCEPT !.exp = at + TTL, !.pubExp = at + TTL] ELSE state

\* renew_publication: extend the proposed lease, never the material.
Renewed(state, at) ==
    IF /\ state.enabled /\ intent.enabled
       /\ ~(state.rotate \/ state.secret = NoSecret)
       /\ state.exp <= at + Margin
    THEN [state EXCEPT !.exp = at + TTL]
    ELSE state

Marks(gen, exp) ==
    /\ gen = local.gen
    /\ exp = local.exp
    /\ ~local.rotate
    /\ EpochCurrent

Marked(state, gen, exp) == [state EXCEPT !.pubGen = gen, !.pubExp = exp]

DocumentOf(state) ==
    [gen |-> state.gen, enabled |-> state.enabled,
     exp |-> state.exp, secret |-> state.secret]

-----------------------------------------------------------------------------
(* update(): one procedure, run by the calls and by the ticker, one at a time *)
(* under `temporary_operation`.  Every await is followed by check_epoch.      *)

At(t, pc) == task[t].pc = pc
To(t, pc) == task' = [task EXCEPT ![t].pc = pc]

\* A finished call is remembered by its kind and epoch only.
Over(t) ==
    IF t = Ticker THEN Idle
    ELSE [Idle EXCEPT !.pc = "done", !.kind = task[t].kind, !.epoch = task[t].epoch]

Return(t) ==
    /\ task' = [task EXCEPT ![t] = Over(t)]
    /\ operation' = Nobody

\* The request was superseded while it waited: nothing is changed.
Superseded(t) ==
    /\ operation = t
    /\ ~Current(task[t].epoch)
    /\ ~(task[t].pc \in {"fetching", "posted"})
    /\ Return(t)
    /\ UNCHANGED <<device, guestVars, backend, world>>

Forces(t) == task[t].kind = "rotate"
NeedsDisable(t) == task[t].kind = "disable" \/ (~Forces(t) /\ ~Enabled)
NothingToDo(t) ==
    /\ task[t].kind = "tick"
    /\ ~Enabled
    /\ ~NeedsPublication(local)
    /\ EpochCurrent

\* Take the mutex and decide between a new generation, a renewal and nothing.
Acquire(t) ==
    /\ At(t, "want")
    /\ operation = Nobody
    /\ IF ~Current(task[t].epoch) \/ NothingToDo(t)
       THEN Return(t)
       ELSE /\ operation' = t
            /\ task' = [task EXCEPT ![t].at = now, ![t].pc =
                  IF NeedsDisable(t) \/ Forces(t) \/ NeedsRotation
                     \/ ~EpochCurrent \/ ~known
                  THEN "fetching" ELSE "draft"]
    /\ UNCHANGED <<device, guestVars, backend, world>>

\* GET: the backend's answer, which may be out of date when it is used.
Metadata(t) ==
    /\ At(t, "fetching")
    /\ task' = [task EXCEPT ![t].pc = "fetched", ![t].doc = row]
    /\ UNCHANGED <<device, guestVars, backend, world, operation>>

Larger(a, b) == IF a > b THEN a ELSE b
NextGeneration(remote) == Larger(local.gen, remote.gen) + 1

Adopts(t, remote) ==
    /\ task[t].kind = "tick"
    /\ local.gen = 0
    /\ remote.gen > 0
    /\ ~remote.enabled

Apply(t) ==
    /\ At(t, "fetched")
    /\ Current(task[t].epoch)
    /\ LET remote == task[t].doc
           applied == [local EXCEPT !.applied = task[t].epoch]
           off == [Frozen(applied) EXCEPT !.gen = remote.gen]
       IN  IF Adopts(t, remote)
           THEN /\ local' = Marked(off, remote.gen, 0)
                /\ known' = TRUE
                /\ Return(t)
           ELSE /\ local' = IF NeedsDisable(t)
                            THEN [Frozen(applied) EXCEPT !.gen = NextGeneration(remote)]
                            ELSE Rotated(applied, NextGeneration(remote), task[t].at)
                /\ task' = [task EXCEPT ![t].pc = "draft", ![t].doc = NoDocument]
                /\ UNCHANGED <<known, operation>>
    /\ UNCHANGED <<guestVars, backend, world, intent>>

Draft(t) ==
    /\ At(t, "draft")
    /\ Current(task[t].epoch)
    /\ LET next == Renewed([local EXCEPT !.applied = task[t].epoch], task[t].at)
       IN  /\ local' = next
           /\ IF NeedsPublication(next)
              THEN /\ task' = [task EXCEPT ![t].pc = "signed", ![t].at = 0,
                                           ![t].doc = DocumentOf(next)]
                   /\ UNCHANGED operation
              ELSE Return(t)
    /\ UNCHANGED <<guestVars, backend, world, intent, known>>

\* The last check before the request leaves; nothing recalls it afterwards.
Post(t) ==
    /\ At(t, "signed")
    /\ Current(task[t].epoch)
    /\ To(t, "posted")
    /\ UNCHANGED <<device, guestVars, backend, world, operation>>

Settle(t) ==
    /\ At(t, "acked")
    /\ Current(task[t].epoch)
    /\ LET doc == task[t].doc
       IN  /\ IF Enabled = doc.enabled /\ Marks(doc.gen, doc.exp)
              THEN local' = Marked(local, doc.gen, doc.exp) /\ known' = TRUE
              ELSE UNCHANGED <<local, known>>
           /\ Return(t)
    /\ UNCHANGED <<guestVars, backend, world, intent>>

\* The publications of these tasks that are under way.
Abandoned(ts) == {task[t].doc : t \in {u \in ts : Late /\ At(u, "posted")}}

\* The four-second client timeout, or a broken connection: the request is lost
\* on its way, still under way, or answered into the void.
Timeout(t) ==
    /\ task[t].pc \in {"fetching", "fetched", "posted", "acked"}
    /\ faults < MaxFaults
    /\ faults' = faults + 1
    /\ \/ UNCHANGED late
       \/ late' = late \cup Abandoned({t})
    /\ Return(t)
    /\ UNCHANGED <<device, guestVars, row, request, now, life, floor>>

-----------------------------------------------------------------------------
(* The callers of update().                                                  *)

BeginCall(c, kind) ==
    /\ At(c, "idle")
    /\ intent' = Begins(kind = "disable")
    /\ task' = [task EXCEPT ![c] = [Idle EXCEPT
                   !.pc = kind, !.kind = kind, !.epoch = intent.current + 1]]
    /\ floor' = local.gen
    /\ UNCHANGED <<guestVars, backend, local, known, operation, now, faults, life>>

\* rotate(): reads and admissions of the old password stop before any await.
Suppress(c) ==
    /\ At(c, "rotate")
    /\ IF Current(task[c].epoch)
       THEN /\ local' = Invalidated([local EXCEPT !.applied = task[c].epoch])
            /\ To(c, "want")
       ELSE task' = [task EXCEPT ![c] = Over(c)] /\ UNCHANGED local
    /\ UNCHANGED <<guestVars, backend, world, intent, known, operation>>

\* A cutoff one epoch too early spares the guests of the epoch that is ended.
AdmittedLongBefore(epoch) ==
    {s \in Sessions : guests[s] # NoGuest /\ guests[s].at + 1 < epoch}

AdmittedBefore(epoch) == {s \in Sessions : guests[s] # NoGuest /\ guests[s].at < epoch}

\* disable(): an outdated request still ends the guests admitted before it.
CheckIntent(c) ==
    /\ At(c, "disable")
    /\ IF Current(task[c].epoch) THEN To(c, "freezing")
       ELSE task' = [task EXCEPT ![c].pc = "revoking",
                                 ![c].left = AdmittedBefore(task[c].epoch)]
    /\ UNCHANGED <<device, guestVars, backend, world, operation>>

\* apply_operation_epoch asks again: when another request began in between the
\* call returns its error here, before a single guest is ended.
Freeze(c) ==
    /\ At(c, "freezing")
    /\ IF Current(task[c].epoch)
       THEN /\ local' = Frozen([local EXCEPT !.applied = task[c].epoch])
            /\ task' = [task EXCEPT ![c].pc = "revoking",
                                    ![c].left = AdmittedBefore(task[c].epoch)]
       ELSE To(c, "raced") /\ UNCHANGED local
    /\ UNCHANGED <<guestVars, backend, world, intent, known, operation>>

HasRecord(s) == stage[s] \in {"pending", "approved", "confirmed", "granted"}

\* The registry first, which invalidates leases at once; a session without an
\* authorization record yet is left to the terminalizer.
RevokeRecords(c) ==
    /\ At(c, "revoking")
    /\ stage' = [s \in Sessions |->
                    IF s \in task[c].left /\ HasRecord(s) THEN "revoked" ELSE stage[s]]
    /\ To(c, "ending")
    /\ UNCHANGED <<device, backend, world, operation, guests>>

\* The terminalizer under the security gate; a cleanup that fails ends the
\* call before it has published anything.
EndSessions(c) ==
    /\ At(c, "ending")
    /\ stage' = [s \in Sessions |->
                    IF s \in task[c].left /\ stage[s] # "none" THEN "over" ELSE stage[s]]
    /\ \/ /\ task' = [task EXCEPT ![c].pc = "want", ![c].left = {}]
          /\ UNCHANGED faults
       \/ /\ task[c].left # {}
          /\ faults < MaxFaults
          /\ faults' = faults + 1
          /\ task' = [task EXCEPT ![c] = Over(c)]
    /\ UNCHANGED <<device, backend, operation, guests, now, life, floor>>

Tick ==
    /\ At(Ticker, "idle")
    /\ task' = [task EXCEPT ![Ticker] = [Idle EXCEPT !.pc = "want",
                                                     !.epoch = intent.current]]
    /\ UNCHANGED <<device, guestVars, backend, world, operation>>

\* Shutdown drops the ticker's update wherever it awaits, then freezes.
StopTicker ==
    /\ task[Ticker].pc \notin {"stopping", "stopped"}
    /\ faults < MaxFaults
    /\ intent' = Begins(TRUE)
    /\ task' = [task EXCEPT ![Ticker] = [Idle EXCEPT !.pc = "stopping",
                                             !.epoch = intent.current + 1]]
    /\ operation' = IF operation = Ticker THEN Nobody ELSE operation
    /\ late' = late \cup Abandoned({Ticker})
    /\ floor' = local.gen
    /\ UNCHANGED <<guestVars, local, known, row, request, now, faults, life>>

FreezeOnStop ==
    /\ At(Ticker, "stopping")
    /\ local' = IF Current(task[Ticker].epoch)
                THEN Frozen([local EXCEPT !.applied = task[Ticker].epoch]) ELSE local
    /\ To(Ticker, "stopped")
    /\ UNCHANGED <<guestVars, backend, world, intent, known, operation>>

\* Nothing of this state is on disk: the process comes back with the default.
Restart ==
    /\ faults < MaxFaults
    /\ faults' = faults + 1
    /\ life' = life + 1
    /\ intent' = FirstIntent
    /\ local' = Fresh
    /\ known' = FALSE
    /\ operation' = Nobody
    /\ guests' = [s \in Sessions |-> NoGuest]
    /\ stage' = [s \in Sessions |-> IF stage[s] = "none" THEN "none" ELSE "over"]
    /\ late' = late \cup Abandoned(Tasks)
    /\ task' = [t \in Tasks |->
                  IF t = Ticker \/ At(t, "idle") THEN Idle
                  ELSE [Idle EXCEPT !.pc = "done"]]
    /\ floor' = 0
    /\ UNCHANGED <<row, request, now>>

-----------------------------------------------------------------------------
(* The backend.  Publications, guest requests and approvals lock the device   *)
(* row first, so each is one step from that lock to its commit.               *)

\* A lease lies in the future and is at most one maximum lease long.
Timely(doc) == doc.enabled => (now < doc.exp /\ doc.exp <= now + TTL)

Renews(doc) ==
    /\ doc.gen = row.gen
    /\ doc.enabled /\ row.enabled
    /\ doc.exp > row.exp
    /\ doc.secret = row.secret

\* The first publication of a device that never enrolled pins its key; it has to
\* enable, as a document that disables carries no proof of freshness.
Pinned == Enrolled \/ row.gen > 0

Accepted(doc) ==
    /\ doc.enabled \/ Pinned
    /\ Timely(doc)
    /\ doc.gen > row.gen \/ doc = row \/ Renews(doc)

RevokedStatuses(doc) ==
    IF doc.enabled THEN {"requested"} ELSE {"requested", "approved"}

\* A new generation revokes the requests made under the one before.
Publish(doc) ==
    /\ row' = doc
    /\ request' = [s \in Sessions |->
          IF doc.gen > row.gen /\ request[s].status \in RevokedStatuses(doc)
          THEN [request[s] EXCEPT !.status = "revoked"] ELSE request[s]]

ServePublish(t) ==
    /\ At(t, "posted")
    /\ IF Accepted(task[t].doc)
       THEN Publish(task[t].doc) /\ To(t, "acked") /\ UNCHANGED operation
       ELSE Return(t) /\ UNCHANGED <<row, request>>
    /\ UNCHANGED <<device, guestVars, world, late>>

ServeLate(doc) ==
    /\ doc \in late
    /\ late' = late \ {doc}
    /\ IF Accepted(doc) THEN Publish(doc) ELSE UNCHANGED <<row, request>>
    /\ UNCHANGED <<device, guestVars, world, task, operation>>

\* create(): the password is verified against a row read before the locks.
TryPassword(s) ==
    /\ request[s].status = "none"
    /\ row.secret # NoSecret
    /\ request' = [request EXCEPT ![s] = [status |-> "verified", gen |-> row.gen,
                                          until |-> row.exp]]
    /\ UNCHANGED <<device, guestVars, world, task, operation, row, late>>

\* Under the locks the row must be the one the password was verified against.
SameRow(s) == request[s].gen = row.gen /\ request[s].until = row.exp

CreateRequest(s) ==
    /\ request[s].status = "verified"
    /\ request' = [request EXCEPT ![s].status =
                       IF SameRow(s) /\ row.enabled /\ now < row.exp
                       THEN "requested" ELSE "failed"]
    /\ UNCHANGED <<device, guestVars, world, task, operation, row, late>>

\* browser_authority_valid for a guest request that is not terminal.
AuthorityValid(s) ==
    /\ row.enabled
    /\ now < request[s].until
    /\ \/ request[s].status = "approved"
       \/ /\ request[s].status = "requested"
          /\ request[s].gen = row.gen
          /\ now < row.exp

-----------------------------------------------------------------------------
(* The target's workflow for one guest session.                              *)

Permits(at) ==
    intent.enabled /\ (intent.disabledAt = 0 \/ at > intent.disabledAt)

\* inspect(): the request as the backend answers it, before the local check.
Inspect(s) ==
    /\ stage[s] = "none"
    /\ AuthorityValid(s)
    /\ request[s].status = "requested"
    /\ stage' = [stage EXCEPT ![s] = "inspected"]
    /\ UNCHANGED <<device, backend, world, task, operation, guests>>

\* authorize_guest for a requested session; the connection may be down.
Admits(s) ==
    /\ Enabled
    /\ request[s].gen = local.gen
    /\ Ready
    /\ guests[s] = NoGuest \/ Permits(guests[s].at)

Admit(s) ==
    /\ stage[s] = "inspected"
    /\ \E online \in BOOLEAN :
          IF online /\ Admits(s)
          THEN /\ guests' = [guests EXCEPT ![s] =
                     IF @ # NoGuest THEN @
                     ELSE [gen |-> local.gen, approved |-> FALSE, at |-> local.applied]]
               /\ stage' = [stage EXCEPT ![s] = "admitted"]
          ELSE /\ stage' = [stage EXCEPT ![s] = "over"]
               /\ UNCHANGED guests
    /\ UNCHANGED <<device, backend, world, task, operation>>

OpenRecord(s) ==
    /\ stage[s] = "admitted"
    /\ stage' = [stage EXCEPT ![s] = "pending"]
    /\ UNCHANGED <<device, backend, world, task, operation, guests>>

\* The owner consents and the backend approves, or refuses and the session ends.
Approve(s) ==
    /\ stage[s] = "pending"
    /\ IF AuthorityValid(s)
       THEN /\ request' = [request EXCEPT ![s].status = "approved"]
            /\ stage' = [stage EXCEPT ![s] = "approved"]
       ELSE /\ stage' = [stage EXCEPT ![s] = "over"]
            /\ UNCHANGED request
    /\ UNCHANGED <<device, world, task, operation, guests, row, late>>

\* authorize_guest for an approved session: only one that was admitted here.
Confirms(s) ==
    /\ Enabled
    /\ guests[s] # NoGuest
    /\ Permits(guests[s].at)
    /\ guests[s].approved \/ (guests[s].gen = local.gen /\ Ready)

Confirm(s) ==
    /\ stage[s] = "approved"
    /\ IF Confirms(s)
       THEN /\ guests' = [guests EXCEPT ![s].approved = TRUE]
            /\ stage' = [stage EXCEPT ![s] = "confirmed"]
       ELSE /\ stage' = [stage EXCEPT ![s] = "over"]
            /\ UNCHANGED guests
    /\ UNCHANGED <<device, backend, world, task, operation>>

Install(s) ==
    /\ stage[s] = "confirmed"
    /\ stage' = [stage EXCEPT ![s] = "granted"]
    /\ UNCHANGED <<device, backend, world, task, operation, guests>>

\* close_session: the guest is forgotten once the backend has let go of it.
Close(s) ==
    /\ stage[s] \in {"over", "revoked"}
    /\ guests[s] # NoGuest
    /\ guests' = [guests EXCEPT ![s] = NoGuest]
    /\ request' = [request EXCEPT ![s].status =
                      IF @ \in {"requested", "approved"} THEN "revoked" ELSE @]
    /\ UNCHANGED <<device, world, task, operation, stage, row, late>>

Advance ==
    /\ now < MaxTime
    /\ now' = now + 1
    /\ UNCHANGED <<device, guestVars, backend, task, operation, faults, life, floor>>

Update(t) ==
    \/ Superseded(t) \/ Acquire(t) \/ Apply(t) \/ Draft(t)
    \/ Post(t) \/ Settle(t)

Serve(t) == Metadata(t) \/ ServePublish(t)

Request(c) ==
    Suppress(c) \/ CheckIntent(c) \/ Freeze(c) \/ RevokeRecords(c) \/ EndSessions(c)

Guest(s) ==
    \/ TryPassword(s) \/ CreateRequest(s) \/ Inspect(s) \/ Admit(s)
    \/ OpenRecord(s) \/ Approve(s) \/ Confirm(s) \/ Install(s) \/ Close(s)

Next ==
    \/ \E t \in Tasks : Update(t) \/ Serve(t) \/ Timeout(t)
    \/ \E c \in Calls : Request(c) \/ \E kind \in {"rotate", "disable"} : BeginCall(c, kind)
    \/ \E s \in Sessions : Guest(s)
    \/ \E doc \in late : ServeLate(doc)
    \/ Tick \/ StopTicker \/ FreezeOnStop \/ Restart \/ Advance

Spec == Init /\ [][Next]_vars

-----------------------------------------------------------------------------
(* Properties.                                                               *)

Statuses == {"none", "verified", "requested", "approved", "revoked", "failed"}
Stages == {"none", "inspected", "admitted", "pending", "approved", "confirmed",
           "granted", "revoked", "over"}
Secrets == (0 .. MaxFaults + 1) \X Nat

\* The types of the password state, the backend's rows and the tasks, with the
\* operation mutex held only by a task inside update().
TypeOK ==
    /\ intent \in [current : Nat, enabled : BOOLEAN, disabledAt : Nat]
    /\ local \in [enabled : BOOLEAN, applied : Nat, rotate : BOOLEAN, gen : Nat,
                   pubGen : Nat, pubExp : Nat, exp : Nat, secret : Secrets]
    /\ known \in BOOLEAN
    /\ row \in [gen : Nat, enabled : BOOLEAN, exp : Nat, secret : Secrets]
    /\ guests \in [Sessions -> [gen : Nat, approved : BOOLEAN, at : Nat]]
    /\ stage \in [Sessions -> Stages]
    /\ request \in [Sessions -> [status : Statuses, gen : Nat, until : Nat]]
    /\ operation \in Tasks \cup {Nobody}
    /\ \A t \in Tasks : (operation = t) <=>
          task[t].pc \in {"fetching", "fetched", "draft", "signed", "posted", "acked"}

\* A password the service shows as ready is one the backend verifies, under a
\* lease at least as long as the shown one: no request that was abandoned,
\* renewed or overtaken leaves the two apart.  (A publication that an earlier
\* life of the process left under way is beyond the reach of its epochs.)
ReadyIsServed ==
    Ready /\ life = 1 =>
             /\ row.enabled
             /\ row.gen = local.gen
             /\ row.secret = local.secret
             /\ local.pubExp <= row.exp

\* From the instant a refresh or a disable begins, the password in use before
\* it is never shown or admitted again, whatever updates are still running.
RefreshedNeverShown == Ready => local.gen > floor

PastEnding == {"want", "fetching", "fetched", "draft", "signed", "posted", "acked",
               "done"}

\* Once a disable has ended its sessions, no guest it found or raced with is
\* granted: neither an approval in flight nor a later re-enable brings one back.
DisableEndsGuests ==
    \A c \in Calls :
        task[c].kind = "disable" /\ task[c].pc \in PastEnding =>
            \A s \in Sessions :
                stage[s] = "granted" => guests[s].at > task[c].epoch

\* The ticker keeps running, the calls proceed, and the backend answers every
\* request that is not one of the MaxFaults failures.
Fairness ==
    /\ WF_vars(Tick) /\ WF_vars(FreezeOnStop)
    /\ \A t \in Tasks : /\ WF_vars(Serve(t))
                        /\ SF_vars(Acquire(t))
                        /\ WF_vars(Update(t))
    /\ \A c \in Calls : WF_vars(Request(c))

FairSpec == Spec /\ Fairness

Stopped == task[Ticker].pc \in {"stopping", "stopped"}

\* With the ticker alive what the service reports reaches the backend for good:
\* an enabled device ends up with its password published, a disabled one with
\* its row disabled.  (A refresh that failed on the way leaves a device which
\* was disabled before it disabled, and reports so.)  As above, a process that
\* follows another may find its row overtaken by what that one left under way.
StatusPublished ==
    <>[](\/ Stopped \/ life > 1
         \/ Enabled /\ Ready /\ row.secret = local.secret
         \/ ~Enabled /\ ~row.enabled)
=============================================================================
