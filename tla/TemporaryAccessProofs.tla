----------------------- MODULE TemporaryAccessProofs -----------------------
(***************************************************************************)
(* What the operation epochs of the temporary password achieve, for every  *)
(* number of local requests, guests, lost answers and restarts and every   *)
(* lease: what is shown as ready is what the backend verifies, a refreshed *)
(* password is never shown again, and a disable ends its guests for good.  *)
(***************************************************************************)
EXTENDS TemporaryAccess, TLAPS

Kinds == {"tick", "rotate", "disable"}
Document == [gen : Nat, enabled : BOOLEAN, exp : Nat, secret : Nat \X Nat]
Holding == {"fetching", "fetched", "draft", "signed", "posted", "acked"}
Phases == Holding \cup {"idle", "rotate", "disable", "freezing", "raced", "revoking",
                        "ending", "want", "done", "stopping", "stopped"}
TaskRecord == [pc : Phases, kind : Kinds, epoch : Nat, at : Nat, doc : Document,
               left : SUBSET Sessions]
Intent == [current : Nat, enabled : BOOLEAN, disabledAt : Nat]
Password == [enabled : BOOLEAN, applied : Nat, rotate : BOOLEAN, gen : Nat,
             pubGen : Nat, pubExp : Nat, exp : Nat, secret : Nat \X Nat]

\* The types, with the lives of the process counted by its faults.
Typed ==
    /\ intent \in Intent
    /\ local \in Password
    /\ known \in BOOLEAN
    /\ task \in [Tasks -> TaskRecord]
    /\ operation \in Tasks \cup {Nobody}
    /\ row \in Document
    /\ late \in SUBSET Document
    /\ now \in Nat
    /\ floor \in Nat

Entry == [gen : Nat, approved : BOOLEAN, at : Nat]

GuestsTyped ==
    /\ guests \in [Sessions -> Entry]
    /\ stage \in [Sessions -> Stages]
    /\ request \in [Sessions -> [status : Statuses, gen : Nat, until : Nat]]

\* The mutex is held exactly by the task inside update().
Mutex == \A t \in Tasks : (operation = t) <=> task[t].pc \in Holding

\* Secrets are those of this process and of the ones before it.
LivesInv ==
    /\ faults \in 0 .. MaxFaults
    /\ life \in 1 .. faults + 1
    /\ local.secret \in Secrets
    /\ row.secret \in Secrets
    /\ \A d \in late : d.secret \in Secrets
    /\ \A t \in Tasks : task[t].doc.secret \in Secrets

\* In the first life of the process: the material of a generation is its own,
SecretOf(d) == IF d.enabled /\ d.gen > 0 THEN <<1, d.gen>> ELSE NoSecret

\* every document under way carries a generation the device has reached,
Ours(d) == d.gen <= local.gen /\ d.secret = SecretOf(d)

\* an acknowledged one is in the row, or renewed or superseded there,
Stored(d) ==
    /\ d.gen <= row.gen
    /\ d.gen = row.gen => row.enabled = d.enabled /\ d.exp <= row.exp

\* and what is marked as published is what the row holds.
PublicationInv ==
    life = 1 =>
        /\ local.secret = SecretOf(local)
        /\ Ours(row)
        /\ \A d \in late : Ours(d)
        /\ \A t \in Tasks :
              /\ task[t].pc \in {"fetched", "signed", "posted", "acked"} => Ours(task[t].doc)
              /\ task[t].pc = "acked" => Stored(task[t].doc)
        /\ local.enabled /\ local.gen > 0 /\ local.pubGen = local.gen =>
              row.enabled /\ row.gen = local.gen /\ local.pubExp <= row.exp

\* No epoch is ahead of the intent, a draft that is still current was decided
\* on for the applied epoch, a state applied for the current epoch is enabled
\* only if the intent is, and the password it then has in force is newer than
\* the intent.
EpochInv ==
    /\ local.applied <= intent.current
    /\ floor <= local.gen
    /\ local.secret # NoSecret => local.gen > 0
    /\ \A t \in Tasks :
          /\ task[t].epoch <= intent.current
          /\ task[t].pc = "draft" /\ Current(task[t].epoch) => EpochCurrent
          /\ task[t].pc = "rotate" => task[t].kind = "rotate"
          /\ task[t].kind = "rotate" /\ Current(task[t].epoch) => intent.enabled
    /\ EpochCurrent /\ local.enabled => intent.enabled
    /\ EpochCurrent /\ local.enabled /\ ~local.rotate /\ local.secret # NoSecret =>
          local.gen > floor

\* A session past its admission is in the guest table; the entries stem from
\* epochs that have begun.
TableInv ==
    \A s \in Sessions :
        /\ stage[s] \in {"none", "inspected"} => guests[s] = NoGuest
        /\ stage[s] \in {"admitted", "pending", "approved", "confirmed", "granted"} =>
              guests[s] # NoGuest
        /\ guests[s].at <= intent.current

\* A guest admitted before a disable is on the list of sessions it is about to
\* end, or over once the list is done; none was admitted under its epoch.
EndedBy(c, s) ==
    guests[s] # NoGuest =>
        /\ guests[s].at # task[c].epoch
        /\ guests[s].at < task[c].epoch =>
              /\ task[c].pc \in {"revoking", "ending"} => s \in task[c].left
              /\ task[c].pc \in PastEnding => stage[s] = "over"

DisableInv ==
    \A c \in Calls : task[c].kind = "disable" =>
        /\ task[c].epoch = intent.current => ~intent.enabled
        /\ \A s \in Sessions : EndedBy(c, s)

-----------------------------------------------------------------------------
(* The types.                                                                *)

LEMMA ConstantTypes ==
    /\ NoDocument \in Document
    /\ Idle \in TaskRecord
    /\ Fresh \in Password
    /\ FirstIntent \in Intent
BY DEF NoDocument, Document, NoSecret, Idle, TaskRecord, Phases, Holding, Kinds, Fresh,
       Password, FirstIntent, Intent

LEMMA OverType ==
    ASSUME NEW t \in Tasks, Typed
    PROVE  Over(t) \in TaskRecord
BY ConstantTypes DEF Over, Typed, TaskRecord, Idle, Phases, Holding, Kinds

\* Typed is kept when one task moves to another well-typed record.
LEMMA TaskMoves ==
    ASSUME NEW t \in Tasks, Typed, NEW r \in TaskRecord,
           task' = [task EXCEPT ![t] = r]
    PROVE  task' \in [Tasks -> TaskRecord]
BY DEF Typed

LEMMA ReturnType ==
    ASSUME NEW t \in Tasks, Typed, Return(t)
    PROVE  /\ task' \in [Tasks -> TaskRecord]
           /\ operation' \in Tasks \cup {Nobody}
BY OverType, TaskMoves DEF Return

LEMMA PcType ==
    ASSUME NEW t \in Tasks, Typed, NEW pc \in Phases, To(t, pc)
    PROVE  task' \in [Tasks -> TaskRecord]
BY DEF Typed, To, TaskRecord

LEMMA PasswordTypes ==
    ASSUME NEW state \in Password, NEW gen \in Nat, NEW at \in Nat
    PROVE  /\ Frozen(state) \in Password
           /\ [state EXCEPT !.applied = at] \in Password
           /\ [state EXCEPT !.gen = gen] \in Password
           /\ Invalidated(state) \in Password
           /\ life \in Nat => Rotated(state, gen, at) \in Password
           /\ Renewed(state, at) \in Password
           /\ Marked(state, gen, at) \in Password
           /\ DocumentOf(state) \in Document
<1>1. TTL \in Nat
  BY AccessConstants
<1>2. /\ Frozen(state) \in Password
      /\ [state EXCEPT !.applied = at] \in Password
      /\ [state EXCEPT !.gen = gen] \in Password
  BY DEF Password, Frozen, Fresh, NoSecret
<1>3. Invalidated(state) \in Password
  BY DEF Password, Invalidated
<1>4. ASSUME life \in Nat PROVE Rotated(state, gen, at) \in Password
  <2>1. <<life, gen>> \in Nat \X Nat /\ at + TTL \in Nat
    BY <1>1, <1>4
  <2> QED
    BY <2>1, ZenonT(60) DEF Password, Rotated
<1>5. Renewed(state, at) \in Password
  BY <1>1 DEF Password, Renewed
<1>6. Marked(state, gen, at) \in Password
  BY DEF Password, Marked
<1>7. DocumentOf(state) \in Document
  BY DEF Password, DocumentOf, Document
<1> QED
  BY <1>2, <1>3, <1>4, <1>5, <1>6, <1>7

\* What Typed says of the tasks.
LEMMA TaskTypes ==
    ASSUME NEW t \in Tasks, Typed
    PROVE  /\ task[t] \in TaskRecord
           /\ task[t].epoch \in Nat
           /\ task[t].at \in Nat
           /\ task[t].doc \in Document
           /\ task[t].doc.gen \in Nat
BY DEF Typed, TaskRecord, Document

\* A finished call keeps its kind and its epoch, the ticker forgets its own.
LEMMA OverFields ==
    ASSUME NEW t \in Tasks
    PROVE  /\ Over(t).pc \in {"idle", "done"}
           /\ t = Ticker => Over(t).kind = "tick" /\ Over(t).epoch = 0
           /\ t # Ticker => /\ Over(t).pc = "done"
                            /\ Over(t).kind = task[t].kind
                            /\ Over(t).epoch = task[t].epoch
BY DEF Over, Idle

\* A step that moves one task leaves the others where they are.
LEMMA OneMoves ==
    ASSUME NEW t \in Tasks, Typed, NEW r, task' = [task EXCEPT ![t] = r]
    PROVE  /\ task'[t] = r
           /\ \A u \in Tasks : u # t => task'[u] = task[u]
BY DEF Typed

LEMMA AbandonedType ==
    ASSUME Typed, NEW ts \in SUBSET Tasks
    PROVE  Abandoned(ts) \in SUBSET Document
BY TaskTypes DEF Abandoned

LEMMA BeginsType ==
    ASSUME Typed, NEW disable \in BOOLEAN
    PROVE  Begins(disable) \in Intent
BY DEF Typed, Intent, Begins

\* Every step of update() keeps the types.
LEMMA UpdateTyped ==
    ASSUME Typed, LivesInv, NEW t \in Tasks, Update(t)
    PROVE  Typed'
<1>0. life \in Nat
  BY AccessConstants DEF LivesInv
<1>1. CASE Superseded(t)
  BY <1>1, ReturnType DEF Typed, Superseded, device, guestVars, backend, world
<1>2. CASE Acquire(t)
  <2>1. CASE Return(t)
    BY <1>2, <2>1, ReturnType DEF Typed, Acquire, device, guestVars, backend, world
  <2>2. CASE ~Return(t)
    <3>1. PICK pc \in {"fetching", "draft"} :
             /\ operation' = t
             /\ task' = [task EXCEPT ![t].at = now, ![t].pc = pc]
      BY <1>2, <2>2 DEF Acquire
    <3>2. task' \in [Tasks -> TaskRecord]
      <4>1. [task[t] EXCEPT !.at = now, !.pc = pc] \in TaskRecord
        BY TaskTypes DEF Typed, TaskRecord, Phases, Holding
      <4>2. task' = [task EXCEPT ![t] = [task[t] EXCEPT !.at = now, !.pc = pc]]
        BY <3>1 DEF Typed, TaskRecord
      <4> QED
        BY <4>1, <4>2, TaskMoves
    <3> QED
      BY <1>2, <3>1, <3>2 DEF Typed, Acquire, device, guestVars, backend, world
  <2> QED
    BY <2>1, <2>2
<1>3. CASE Apply(t)
  <2> DEFINE remote == task[t].doc
             applied == [local EXCEPT !.applied = task[t].epoch]
             off == [Frozen(applied) EXCEPT !.gen = remote.gen]
  <2>1. applied \in Password /\ off \in Password
    BY PasswordTypes, TaskTypes DEF Typed
  <2>2. NextGeneration(remote) \in Nat
    BY TaskTypes DEF NextGeneration, Larger, Typed, Password
  <2>3. CASE Adopts(t, remote)
    <3>1. Marked(off, remote.gen, 0) \in Password
      BY <2>1, PasswordTypes, TaskTypes
    <3> QED
      BY <1>3, <2>3, <3>1, ReturnType DEF Typed, Apply, guestVars, backend, world
  <2>4. CASE ~Adopts(t, remote)
    <3>1. local' \in Password
      <4>1. Rotated(applied, NextGeneration(remote), task[t].at) \in Password
        BY <1>0, <2>1, <2>2, PasswordTypes, TaskTypes
      <4>2. [Frozen(applied) EXCEPT !.gen = NextGeneration(remote)] \in Password
        BY <2>1, <2>2, PasswordTypes
      <4> QED
        BY <1>3, <2>4, <4>1, <4>2 DEF Apply
    <3>2. task' \in [Tasks -> TaskRecord]
      <4>1. task' = [task EXCEPT ![t].pc = "draft", ![t].doc = NoDocument]
        BY <1>3, <2>4 DEF Apply
      <4>2. PICK r : r = [task[t] EXCEPT !.pc = "draft", !.doc = NoDocument]
        OBVIOUS
      <4>3. r \in TaskRecord
        <5>1. "draft" \in Phases /\ NoDocument \in Document
          BY ConstantTypes DEF Phases, Holding
        <5> QED
          BY <4>2, <5>1, TaskTypes DEF TaskRecord
      <4>4. task' = [task EXCEPT ![t] = r]
        BY <4>1, <4>2 DEF Typed, TaskRecord
      <4> QED
        BY <4>3, <4>4, TaskMoves
    <3> QED
      BY <1>3, <2>4, <3>1, <3>2 DEF Typed, Apply, guestVars, backend, world
  <2> QED
    BY <2>3, <2>4
<1>4. CASE Draft(t)
  <2> DEFINE next == Renewed([local EXCEPT !.applied = task[t].epoch], task[t].at)
  <2>1. next \in Password
    BY PasswordTypes, TaskTypes DEF Typed
  <2>2. CASE NeedsPublication(next)
    <3>1. DocumentOf(next) \in Document
      BY <2>1, PasswordTypes
    <3>2. task' = [task EXCEPT ![t].pc = "signed", ![t].at = 0, ![t].doc = DocumentOf(next)]
      BY <1>4, <2>2 DEF Draft
    <3> HIDE DEF next
    <3>3. task' \in [Tasks -> TaskRecord]
      <4> DEFINE r == [task[t] EXCEPT !.pc = "signed", !.at = 0, !.doc = DocumentOf(next)]
      <4>1. r \in TaskRecord
        BY <3>1, TaskTypes DEF TaskRecord, Phases, Holding
      <4>2. task' = [task EXCEPT ![t] = r]
        BY <3>2 DEF Typed, TaskRecord
      <4> QED
        BY <4>1, <4>2, TaskMoves
    <3> USE DEF next
    <3> QED
      BY <1>4, <2>1, <2>2, <3>3 DEF Typed, Draft, guestVars, backend, world
  <2>3. CASE ~NeedsPublication(next)
    BY <1>4, <2>1, <2>3, ReturnType DEF Typed, Draft, guestVars, backend, world
  <2> QED
    BY <2>2, <2>3
<1>5. CASE Post(t)
  <2>1. "posted" \in Phases
    BY DEF Phases, Holding
  <2> QED
    BY <1>5, <2>1, PcType DEF Typed, Post, device, guestVars, backend, world
<1>6. CASE Settle(t)
  <2>1. Marked(local, task[t].doc.gen, task[t].doc.exp) \in Password
    BY PasswordTypes, TaskTypes DEF Typed, Document
  <2>2. local' \in Password /\ known' \in BOOLEAN
    BY <1>6, <2>1 DEF Settle, Typed
  <2> QED
    BY <1>6, <2>2, ReturnType DEF Typed, Settle, guestVars, backend, world
<1> QED
  BY <1>1, <1>2, <1>3, <1>4, <1>5, <1>6 DEF Update

LEMMA ServeTyped ==
    ASSUME Typed, NEW t \in Tasks, Serve(t)
    PROVE  Typed'
<1>1. CASE Metadata(t)
  <2>1. task' \in [Tasks -> TaskRecord]
    <3>1. [task[t] EXCEPT !.pc = "fetched", !.doc = row] \in TaskRecord
      BY TaskTypes DEF Typed, TaskRecord, Phases, Holding
    <3>2. task' = [task EXCEPT ![t] = [task[t] EXCEPT !.pc = "fetched", !.doc = row]]
      BY <1>1 DEF Metadata, Typed, TaskRecord
    <3> QED
      BY <3>1, <3>2, TaskMoves
  <2> QED
    BY <1>1, <2>1 DEF Typed, Metadata, device, guestVars, backend, world
<1>2. CASE ServePublish(t)
  <2>1. row' \in Document
    BY <1>2, TaskTypes DEF ServePublish, Publish, Typed
  <2>2. task' \in [Tasks -> TaskRecord] /\ operation' \in Tasks \cup {Nobody}
    <3>1. "acked" \in Phases
      BY DEF Phases, Holding
    <3> QED
      BY <1>2, <3>1, PcType, ReturnType DEF ServePublish, Typed
  <2> QED
    BY <1>2, <2>1, <2>2 DEF Typed, ServePublish, device, guestVars, world
<1> QED
  BY <1>1, <1>2 DEF Serve

LEMMA TimeoutTyped ==
    ASSUME Typed, NEW t \in Tasks, Timeout(t)
    PROVE  Typed'
<1>1. late' \in SUBSET Document
  BY AbandonedType DEF Timeout, Typed
<1> QED
  BY <1>1, ReturnType DEF Typed, Timeout, device, guestVars

\* Every step of rotate() and disable() outside update() keeps the types.
LEMMA RequestTyped ==
    ASSUME Typed, NEW c \in Calls, Request(c)
    PROVE  Typed'
<1>0. c \in Tasks
  BY DEF Tasks
<1>1. CASE Suppress(c)
  <2>1. local' \in Password
    BY <1>0, <1>1, PasswordTypes, TaskTypes DEF Suppress, Typed
  <2>2. task' \in [Tasks -> TaskRecord]
    <3>1. "want" \in Phases
      BY DEF Phases
    <3> QED
      BY <1>0, <1>1, <3>1, PcType, OverType, TaskMoves DEF Suppress
  <2> QED
    BY <1>1, <2>1, <2>2 DEF Typed, Suppress, guestVars, backend, world
<1>2. ASSUME task' = [task EXCEPT ![c].pc = "revoking",
                                  ![c].left = AdmittedBefore(task[c].epoch)]
      PROVE  task' \in [Tasks -> TaskRecord]
  <2> DEFINE r == [task[c] EXCEPT !.pc = "revoking", !.left = AdmittedBefore(task[c].epoch)]
  <2>1. AdmittedBefore(task[c].epoch) \in SUBSET Sessions
    BY DEF AdmittedBefore
  <2>2. r \in TaskRecord
    BY <1>0, <2>1, TaskTypes DEF TaskRecord, Phases
  <2>3. task' = [task EXCEPT ![c] = r]
    BY <1>0, <1>2 DEF Typed, TaskRecord
  <2> QED
    BY <1>0, <2>2, <2>3, TaskMoves
<1>3. {"freezing", "raced", "ending"} \subseteq Phases
  BY DEF Phases
<1>4. CASE CheckIntent(c)
  <2>1. task' \in [Tasks -> TaskRecord]
    BY <1>0, <1>2, <1>3, <1>4, PcType DEF CheckIntent
  <2> QED
    BY <1>4, <2>1 DEF Typed, CheckIntent, device, guestVars, backend, world
<1>5. CASE Freeze(c)
  <2>1. task' \in [Tasks -> TaskRecord]
    BY <1>0, <1>2, <1>3, <1>5, PcType DEF Freeze
  <2>2. local' \in Password
    BY <1>0, <1>5, PasswordTypes, TaskTypes DEF Freeze, Typed
  <2> QED
    BY <1>5, <2>1, <2>2 DEF Typed, Freeze, guestVars, backend, world
<1>6. CASE RevokeRecords(c)
  <2>1. task' \in [Tasks -> TaskRecord]
    BY <1>0, <1>3, <1>6, PcType DEF RevokeRecords
  <2> QED
    BY <1>6, <2>1 DEF Typed, RevokeRecords, device, backend, world
<1>7. CASE EndSessions(c)
  <2>1. task' \in [Tasks -> TaskRecord]
    <3>1. ASSUME task' = [task EXCEPT ![c].pc = "want", ![c].left = {}]
          PROVE  task' \in [Tasks -> TaskRecord]
      <4>1. [task[c] EXCEPT !.pc = "want", !.left = {}] \in TaskRecord
        BY <1>0, TaskTypes DEF TaskRecord, Phases
      <4>2. task' = [task EXCEPT ![c] = [task[c] EXCEPT !.pc = "want", !.left = {}]]
        BY <1>0, <3>1 DEF Typed, TaskRecord
      <4> QED
        BY <1>0, <4>1, <4>2, TaskMoves
    <3> QED
      BY <1>0, <1>7, <3>1, OverType, TaskMoves DEF EndSessions
  <2> QED
    BY <1>7, <2>1 DEF Typed, EndSessions, device, backend
<1> QED
  BY <1>1, <1>4, <1>5, <1>6, <1>7 DEF Request

LEMMA BeginCallTyped ==
    ASSUME Typed, NEW c \in Calls, NEW kind \in {"rotate", "disable"}, BeginCall(c, kind)
    PROVE  Typed'
<1> DEFINE r == [Idle EXCEPT !.pc = kind, !.kind = kind, !.epoch = intent.current + 1]
<1>0. intent.current + 1 \in Nat
  BY DEF Typed, Intent
<1>1. r \in TaskRecord
  BY <1>0, ConstantTypes DEF TaskRecord, Phases, Kinds
<1>2. task' \in [Tasks -> TaskRecord]
  BY <1>1, TaskMoves DEF BeginCall, Tasks
<1>3. intent' \in Intent
  BY BeginsType DEF BeginCall
<1> QED
  BY <1>2, <1>3 DEF Typed, BeginCall, guestVars, backend, Password

LEMMA TickerTyped ==
    ASSUME Typed, Tick \/ StopTicker \/ FreezeOnStop
    PROVE  Typed'
<1>0. Ticker \in Tasks
  BY DEF Tasks
<1>1. CASE Tick
  <2>1. [Idle EXCEPT !.pc = "want", !.epoch = intent.current] \in TaskRecord
    BY ConstantTypes DEF TaskRecord, Phases, Typed, Intent
  <2>2. task' \in [Tasks -> TaskRecord]
    BY <1>0, <1>1, <2>1, TaskMoves DEF Tick
  <2> QED
    BY <1>1, <2>2 DEF Typed, Tick, device, guestVars, backend, world
<1>2. CASE StopTicker
  <2>1. [Idle EXCEPT !.pc = "stopping", !.epoch = intent.current + 1] \in TaskRecord
    <3>1. intent.current + 1 \in Nat
      BY DEF Typed, Intent
    <3> QED
      BY <3>1, ConstantTypes DEF TaskRecord, Phases
  <2>2. task' \in [Tasks -> TaskRecord]
    BY <1>0, <1>2, <2>1, TaskMoves DEF StopTicker
  <2>3. intent' \in Intent /\ late' \in SUBSET Document
    BY <1>0, <1>2, BeginsType, AbandonedType DEF StopTicker, Typed
  <2> QED
    BY <1>2, <2>2, <2>3 DEF Typed, StopTicker, guestVars, Password
<1>3. CASE FreezeOnStop
  <2>1. local' \in Password
    BY <1>0, <1>3, PasswordTypes, TaskTypes DEF FreezeOnStop, Typed
  <2>2. "stopped" \in Phases
    BY DEF Phases
  <2>3. task' \in [Tasks -> TaskRecord]
    BY <1>0, <1>3, <2>2, PcType DEF FreezeOnStop
  <2> QED
    BY <1>3, <2>1, <2>3 DEF Typed, FreezeOnStop, guestVars, backend, world
<1> QED
  BY <1>1, <1>2, <1>3

LEMMA RestartTyped ==
    ASSUME Typed, Restart
    PROVE  Typed'
<1>1. [Idle EXCEPT !.pc = "done"] \in TaskRecord
  BY ConstantTypes DEF TaskRecord, Phases
<1>2. task' \in [Tasks -> TaskRecord]
  BY <1>1, ConstantTypes DEF Restart
<1>3. late' \in SUBSET Document
  BY AbandonedType DEF Restart, Typed
<1> QED
  BY <1>2, <1>3, ConstantTypes DEF Restart, Typed

\* The guests' steps, the backend's answer to an abandoned request and the
\* clock leave the tasks alone.
LEMMA OthersTyped ==
    ASSUME Typed,
           \/ \E s \in Sessions : Guest(s)
           \/ \E doc \in late : ServeLate(doc)
           \/ Advance
    PROVE  Typed'
<1>1. CASE \E s \in Sessions : Guest(s)
  BY <1>1 DEF Typed, Guest, TryPassword, CreateRequest, Inspect, Admit, OpenRecord, Approve,
              Confirm, Install, Close, device, guestVars, backend, world
<1>2. CASE \E doc \in late : ServeLate(doc)
  BY <1>2 DEF Typed, ServeLate, Publish, device, guestVars, world
<1>3. CASE Advance
  BY <1>3 DEF Typed, Advance, device, guestVars, backend
<1> QED
  BY <1>1, <1>2, <1>3

-----------------------------------------------------------------------------
(* What is shown as published is what the backend holds.                     *)

\* Generations never go back within a life, so documents stay ours.
LEMMA OursStays ==
    ASSUME Typed, Typed', NEW d \in Document, Ours(d), local.gen <= local'.gen
    PROVE  d.gen <= local'.gen /\ d.secret = SecretOf(d)
BY DEF Ours, Typed, Password, Document

\* Steps that leave the row alone.  A task's document stays the one it has, or
\* is the row or a fresh copy of the password state.
LEMMA RowStays ==
    ASSUME Typed, Typed', PublicationInv, life = 1, life' = 1, row' = row,
           local.gen <= local'.gen,
           local'.secret = SecretOf(local'),
           late' \subseteq late \cup {task[t].doc : t \in {u \in Tasks : At(u, "posted")}},
           local'.enabled /\ local'.gen > 0 /\ local'.pubGen = local'.gen =>
               row.enabled /\ row.gen = local'.gen /\ local'.pubExp <= row.exp,
           \A t \in Tasks :
               \/ task'[t].pc = task[t].pc /\ task'[t].doc = task[t].doc
               \/ task[t].pc = "signed" /\ task'[t].pc = "posted"
                  /\ task'[t].doc = task[t].doc
               \/ task'[t].pc = "fetched" /\ task'[t].doc = row
               \/ task'[t].pc = "signed" /\ task'[t].doc = DocumentOf(local')
               \/ task'[t].pc \notin {"fetched", "signed", "posted", "acked"}
    PROVE  PublicationInv'
<1>1. Ours(row)'
  BY OursStays DEF PublicationInv, Ours, Typed, SecretOf
<1>2. \A d \in late' : Ours(d)'
  <2>1. ASSUME NEW d \in late' PROVE Ours(d) /\ d \in Document
    BY <2>1, TaskTypes DEF PublicationInv, At, Typed
  <2> QED
    BY <2>1, OursStays DEF Ours, SecretOf
<1>3. ASSUME NEW t \in Tasks
      PROVE  /\ task'[t].pc \in {"fetched", "signed", "posted", "acked"} =>
                   Ours(task[t].doc)'
             /\ task'[t].pc = "acked" => Stored(task[t].doc)'
  <2>1. CASE \/ task'[t].pc = task[t].pc /\ task'[t].doc = task[t].doc
             \/ task[t].pc = "signed" /\ task'[t].pc = "posted" /\ task'[t].doc = task[t].doc
    <3>1. task'[t].pc \in {"fetched", "signed", "posted", "acked"} => Ours(task[t].doc)
      BY <2>1 DEF PublicationInv
    <3>2. task'[t].pc \in {"fetched", "signed", "posted", "acked"} => Ours(task[t].doc)'
      BY <2>1, <3>1, OursStays, TaskTypes DEF Ours, SecretOf
    <3>3. task'[t].pc = "acked" => Stored(task[t].doc)'
      BY <2>1 DEF PublicationInv, Stored
    <3> QED
      BY <3>2, <3>3
  <2>2. CASE task'[t].pc = "fetched" /\ task'[t].doc = row
    BY <1>1, <2>2 DEF Ours, SecretOf
  <2>3. CASE task'[t].pc = "signed" /\ task'[t].doc = DocumentOf(local')
    BY <2>3 DEF Ours, SecretOf, DocumentOf, Typed, Password
  <2>4. CASE task'[t].pc \notin {"fetched", "signed", "posted", "acked"}
    BY <2>4
  <2> QED
    BY <2>1, <2>2, <2>3, <2>4
<1> QED
  BY <1>1, <1>2, <1>3 DEF PublicationInv, SecretOf

\* Steps that leave the password state alone: the backend accepts a document
\* of this life, or refuses it.
LEMMA PublishStays ==
    ASSUME Typed, Typed', PublicationInv, life = 1, life' = 1, local' = local,
           NEW doc \in Document, Ours(doc), Accepted(doc), Publish(doc),
           late' \subseteq late,
           \A t \in Tasks :
               \/ task'[t] = task[t]
               \/ task[t].pc = "posted" /\ task'[t].pc = "acked" /\ task'[t].doc = doc
    PROVE  PublicationInv'
<1>1. row' = doc
  BY DEF Publish
<1>2. Stored(doc)'
  BY <1>1 DEF Stored, Document
<1>3. ASSUME NEW d \in Document, Stored(d)
      PROVE  /\ d.gen <= row'.gen
             /\ d.gen = row'.gen => row'.enabled = d.enabled /\ d.exp <= row'.exp
  BY <1>1, <1>3 DEF Stored, Accepted, Renews, Typed, Document
<1>4. \A d : Ours(d) => Ours(d)'
  BY DEF Ours, SecretOf
<1>5. ASSUME NEW t \in Tasks
      PROVE  /\ task'[t].pc \in {"fetched", "signed", "posted", "acked"} =>
                   Ours(task[t].doc)'
             /\ task'[t].pc = "acked" => Stored(task[t].doc)'
  <2>1. CASE task'[t] = task[t]
    <3>1. task[t].doc \in Document
      BY TaskTypes
    <3>2. task[t].pc = "acked" => Stored(task[t].doc)'
      <4>1. task[t].pc = "acked" => Stored(task[t].doc)
        BY DEF PublicationInv
      <4> QED
        BY <1>3, <2>1, <3>1, <4>1 DEF Stored
    <3>3. task[t].pc \in {"fetched", "signed", "posted", "acked"} => Ours(task[t].doc)'
      BY <1>4, <2>1 DEF PublicationInv, Ours, SecretOf
    <3> QED
      BY <2>1, <3>2, <3>3
  <2>2. CASE task[t].pc = "posted" /\ task'[t].pc = "acked" /\ task'[t].doc = doc
    BY <1>2, <1>4, <2>2 DEF Stored, Ours, SecretOf
  <2> QED
    BY <2>1, <2>2
<1>6. local.enabled /\ local.gen > 0 /\ local.pubGen = local.gen =>
         row'.enabled /\ row'.gen = local.gen /\ local.pubExp <= row'.exp
  BY <1>1 DEF PublicationInv, Ours, Accepted, Renews, Typed, Document, Password
<1> QED
  BY <1>1, <1>4, <1>5, <1>6 DEF PublicationInv, SecretOf, Ours

\* Every step of update().
LEMMA UpdatePublishes ==
    ASSUME Typed, Typed', LivesInv, EpochInv, PublicationInv, NEW t \in Tasks, Update(t)
    PROVE  PublicationInv'
<1> SUFFICES ASSUME life' = 1 PROVE PublicationInv'
  BY DEF PublicationInv
<1>0. life = 1 /\ row' = row /\ late' = late
  BY DEF Update, Superseded, Acquire, Apply, Draft, Post, Settle, device, guestVars,
         backend, world
<1>1. ASSUME Return(t)
      PROVE  \A u \in Tasks : \/ task'[u] = task[u]
                              \/ task'[u].pc \notin {"fetched", "signed", "posted", "acked"}
  BY <1>1 DEF Return, Over, Idle, Typed
<1>2. CASE Superseded(t)
  <2>1. local' = local
    BY <1>2 DEF Superseded, device
  <2> QED
    BY <1>0, <1>1, <1>2, <2>1, RowStays DEF Superseded, PublicationInv, Typed, Password
<1>3. CASE Acquire(t)
  <2>1. local' = local
    BY <1>3 DEF Acquire, device
  <2>2. \A u \in Tasks : \/ task'[u] = task[u]
                         \/ task'[u].pc \notin {"fetched", "signed", "posted", "acked"}
    BY <1>1, <1>3 DEF Acquire, Typed, TaskRecord
  <2> QED
    BY <1>0, <2>1, <2>2, RowStays DEF PublicationInv, Typed, Password
<1>4. CASE Apply(t)
  <2>1. ~Adopts(t, task[t].doc)
    BY <1>0, <1>4, TaskTypes DEF Apply, At, Adopts, PublicationInv, Ours
  <2>2. NextGeneration(task[t].doc) \in Nat /\ NextGeneration(task[t].doc) > local.gen
    BY TaskTypes DEF NextGeneration, Larger, Typed, Password
  <2>0. local.gen \in Nat
    BY DEF Typed, Password
  <2>3. /\ local.gen < local'.gen
        /\ local'.pubGen = 0
        /\ local'.secret = SecretOf(local')
    <3> DEFINE applied == [local EXCEPT !.applied = task[t].epoch]
    <3>1. applied \in Password
      BY PasswordTypes, TaskTypes DEF Typed
    <3>2. CASE NeedsDisable(t)
      <4>1. local' = [Frozen(applied) EXCEPT !.gen = NextGeneration(task[t].doc)]
        BY <1>4, <2>1, <3>2 DEF Apply
      <4> QED
        BY <2>2, <4>1 DEF Frozen, Fresh, SecretOf
    <3>3. CASE ~NeedsDisable(t)
      <4>1. local' = Rotated(applied, NextGeneration(task[t].doc), task[t].at)
        BY <1>4, <2>1, <3>3 DEF Apply
      <4> HIDE DEF applied
      <4> QED
        <5>1. /\ local'.enabled
              /\ local'.gen = NextGeneration(task[t].doc)
              /\ local'.pubGen = 0
              /\ local'.secret = <<life, NextGeneration(task[t].doc)>>
          BY <3>1, <4>1 DEF Rotated, Password
        <5> QED
          BY <1>0, <2>0, <2>2, <5>1 DEF SecretOf
    <3> QED
      BY <3>2, <3>3
  <2>4. \A u \in Tasks : \/ task'[u] = task[u]
                         \/ task'[u].pc \notin {"fetched", "signed", "posted", "acked"}
    BY <1>4, <2>1 DEF Apply, Typed, TaskRecord
  <2> QED
    BY <1>0, <2>3, <2>4, RowStays DEF Typed, Password
<1>5. CASE Draft(t)
  <2>1. /\ local'.enabled = local.enabled
        /\ local'.gen = local.gen
        /\ local'.pubGen = local.pubGen
        /\ local'.pubExp = local.pubExp
        /\ local'.secret = local.secret
    BY <1>5 DEF Draft, Renewed, Typed, Password
  <2>2. \A u \in Tasks :
           \/ task'[u] = task[u]
           \/ task'[u].pc = "signed" /\ task'[u].doc = DocumentOf(local')
           \/ task'[u].pc \notin {"fetched", "signed", "posted", "acked"}
    BY <1>1, <1>5 DEF Draft, Typed, TaskRecord
  <2>3. local'.secret = SecretOf(local')
    BY <1>0, <2>1 DEF PublicationInv, SecretOf
  <2> QED
    BY <1>0, <2>1, <2>2, <2>3, RowStays DEF PublicationInv, Typed, Password
<1>6. CASE Post(t)
  <2>1. local' = local
    BY <1>6 DEF Post, device
  <2>2. \A u \in Tasks :
           \/ task'[u] = task[u]
           \/ task[u].pc = "signed" /\ task'[u].pc = "posted" /\ task'[u].doc = task[u].doc
    BY <1>6 DEF Post, At, To, Typed, TaskRecord
  <2> QED
    BY <1>0, <2>1, <2>2, RowStays DEF PublicationInv, Typed, Password
<1>7. CASE Settle(t)
  <2>1. \A u \in Tasks : \/ task'[u] = task[u]
                         \/ task'[u].pc \notin {"fetched", "signed", "posted", "acked"}
    BY <1>1, <1>7 DEF Settle
  <2>2. CASE local' = local
    BY <1>0, <2>1, <2>2, RowStays DEF PublicationInv, Typed, Password
  <2>3. CASE local' # local
    <3>1. /\ Enabled = task[t].doc.enabled
          /\ Marks(task[t].doc.gen, task[t].doc.exp)
          /\ local' = Marked(local, task[t].doc.gen, task[t].doc.exp)
      BY <1>7, <2>3 DEF Settle
    <3>2. /\ local'.enabled = local.enabled
          /\ local'.gen = local.gen
          /\ local'.pubGen = task[t].doc.gen
          /\ local'.pubExp = task[t].doc.exp
          /\ local'.secret = local.secret
      BY <3>1 DEF Marked, Typed, Password
    <3>3. /\ Stored(task[t].doc)
          /\ row.gen <= local.gen
      BY <1>0, <1>7 DEF Settle, At, PublicationInv, Ours
    <3>4. row.gen = local.gen /\ task[t].doc.gen = row.gen
      <4>1. local.gen \in Nat /\ row.gen \in Nat
        BY DEF Typed, Password, Document
      <4>2. task[t].doc.gen = local.gen
        BY <3>1 DEF Marks
      <4>3. task[t].doc.gen <= row.gen
        BY <3>3 DEF Stored
      <4> QED
        BY <3>3, <4>1, <4>2, <4>3
    <3>5. task[t].doc.exp <= row.exp /\ row.enabled = task[t].doc.enabled
      BY <3>3, <3>4 DEF Stored
    <3>7. local.enabled => row.enabled
      <4>1. local.enabled => Enabled
        BY <3>1 DEF Marks, EpochInv, Enabled
      <4> QED
        BY <3>1, <3>5, <4>1
    <3>6. local'.secret = SecretOf(local')
      BY <1>0, <3>2 DEF PublicationInv, SecretOf
    <3> QED
      BY <1>0, <2>1, <3>2, <3>4, <3>5, <3>6, <3>7, RowStays DEF Typed, Password
  <2> QED
    BY <2>2, <2>3
<1> QED
  BY <1>2, <1>3, <1>4, <1>5, <1>6, <1>7 DEF Update

\* The backend answers a request of the device.
LEMMA ServePublishes ==
    ASSUME Typed, Typed', PublicationInv, NEW t \in Tasks, Serve(t)
    PROVE  PublicationInv'
<1> SUFFICES ASSUME life' = 1 PROVE PublicationInv'
  BY DEF PublicationInv
<1>0. life = 1 /\ local' = local /\ late' = late
  BY DEF Serve, Metadata, ServePublish, device, guestVars, backend, world
<1>1. CASE Metadata(t)
  <2>1. row' = row
    BY <1>1 DEF Metadata, backend
  <2>2. \A u \in Tasks : \/ task'[u] = task[u]
                         \/ task'[u].pc = "fetched" /\ task'[u].doc = row
    BY <1>1 DEF Metadata, Typed, TaskRecord
  <2> QED
    BY <1>0, <2>1, <2>2, RowStays DEF PublicationInv, Typed, Password
<1>2. CASE ServePublish(t) /\ Accepted(task[t].doc)
  <2>1. Publish(task[t].doc) /\ To(t, "acked") /\ At(t, "posted")
    BY <1>2 DEF ServePublish
  <2>2. \A u \in Tasks :
           \/ task'[u] = task[u]
           \/ task[u].pc = "posted" /\ task'[u].pc = "acked" /\ task'[u].doc = task[t].doc
    BY <2>1 DEF To, At, Typed, TaskRecord
  <2>3. Ours(task[t].doc) /\ task[t].doc \in Document
    BY <1>0, <2>1, TaskTypes DEF PublicationInv, At
  <2> QED
    BY <1>0, <1>2, <2>1, <2>2, <2>3, PublishStays
<1>3. CASE ServePublish(t) /\ ~Accepted(task[t].doc)
  <2>1. row' = row /\ Return(t)
    BY <1>3 DEF ServePublish
  <2>2. \A u \in Tasks : \/ task'[u] = task[u]
                         \/ task'[u].pc \notin {"fetched", "signed", "posted", "acked"}
    BY <2>1 DEF Return, Over, Idle, Typed
  <2> QED
    BY <1>0, <2>1, <2>2, RowStays DEF PublicationInv, Typed, Password
<1> QED
  BY <1>1, <1>2, <1>3 DEF Serve

\* A request is abandoned: its document may be under way.
LEMMA TimeoutPublishes ==
    ASSUME Typed, Typed', PublicationInv, NEW t \in Tasks, Timeout(t)
    PROVE  PublicationInv'
<1> SUFFICES ASSUME life' = 1 PROVE PublicationInv'
  BY DEF PublicationInv
<1>0. life = 1 /\ local' = local /\ row' = row
  BY DEF Timeout, device
<1>1. late' \subseteq late \cup {task[u].doc : u \in {v \in Tasks : At(v, "posted")}}
  BY DEF Timeout, Abandoned
<1>2. \A u \in Tasks : \/ task'[u] = task[u]
                       \/ task'[u].pc \notin {"fetched", "signed", "posted", "acked"}
  BY DEF Timeout, Return, Over, Idle, Typed
<1> QED
  BY <1>0, <1>1, <1>2, RowStays DEF PublicationInv, Typed, Password

\* rotate() and disable() before they reach update().
LEMMA RequestPublishes ==
    ASSUME Typed, Typed', PublicationInv, NEW c \in Calls, Request(c)
    PROVE  PublicationInv'
<1> SUFFICES ASSUME life' = 1 PROVE PublicationInv'
  BY DEF PublicationInv
<1>0. life = 1 /\ row' = row /\ late' = late
  BY DEF Request, Suppress, CheckIntent, Freeze, RevokeRecords, EndSessions, device,
         guestVars, backend, world
<1>1. \A u \in Tasks : \/ task'[u] = task[u]
                       \/ task'[u].pc \notin {"fetched", "signed", "posted", "acked"}
  <2>1. c \in Tasks
    BY DEF Tasks
  <2>2. CASE Suppress(c)
    <3>1. CASE task' = [task EXCEPT ![c] = Over(c)]
      BY <2>1, <3>1, OverFields, OneMoves
    <3>2. CASE To(c, "want")
      BY <2>1, <3>2 DEF To, Typed, TaskRecord
    <3> QED
      BY <2>2, <3>1, <3>2 DEF Suppress
  <2>3. CASE CheckIntent(c) \/ Freeze(c)
    BY <2>1, <2>3 DEF CheckIntent, Freeze, To, Typed, TaskRecord
  <2>4. CASE RevokeRecords(c)
    BY <2>1, <2>4 DEF RevokeRecords, To, Typed, TaskRecord
  <2>5. CASE EndSessions(c)
    <3>1. CASE task' = [task EXCEPT ![c] = Over(c)]
      BY <2>1, <3>1, OverFields, OneMoves
    <3>2. CASE task' = [task EXCEPT ![c].pc = "want", ![c].left = {}]
      BY <2>1, <3>2 DEF Typed, TaskRecord
    <3> QED
      BY <2>5, <3>1, <3>2 DEF EndSessions
  <2> QED
    BY <2>2, <2>3, <2>4, <2>5 DEF Request
<1>2. \/ local' = local
      \/ /\ local'.gen = local.gen /\ local'.pubGen = 0
         /\ local'.secret = local.secret /\ local'.enabled = local.enabled
      \/ /\ local'.gen = local.gen /\ local'.pubGen = 0
         /\ local'.secret = NoSecret /\ ~local'.enabled
  <2>1. CASE Suppress(c)
    BY <2>1 DEF Suppress, Invalidated, Typed, Password
  <2>2. CASE Freeze(c)
    BY <2>2 DEF Freeze, Frozen, Fresh, Typed, Password
  <2>3. CASE CheckIntent(c) \/ RevokeRecords(c) \/ EndSessions(c)
    BY <2>3 DEF CheckIntent, RevokeRecords, EndSessions, device
  <2> QED
    BY <2>1, <2>2, <2>3 DEF Request
<1>3. local'.secret = SecretOf(local')
  BY <1>0, <1>2 DEF PublicationInv, SecretOf
<1> QED
  BY <1>0, <1>1, <1>2, <1>3, RowStays DEF PublicationInv, Typed, Password

\* The beginnings of calls and of the ticker's rounds, and its end.
LEMMA BeginningsPublish ==
    ASSUME Typed, Typed', PublicationInv,
           \/ \E c \in Calls : \E kind \in {"rotate", "disable"} : BeginCall(c, kind)
           \/ Tick \/ StopTicker \/ FreezeOnStop
    PROVE  PublicationInv'
<1> SUFFICES ASSUME life' = 1 PROVE PublicationInv'
  BY DEF PublicationInv
<1>0. life = 1 /\ row' = row
  BY DEF BeginCall, Tick, StopTicker, FreezeOnStop, device, guestVars, backend, world
<1>1. late' \subseteq late \cup {task[u].doc : u \in {v \in Tasks : At(v, "posted")}}
  <2>1. late' = late \/ late' = late \cup Abandoned({Ticker})
    BY DEF BeginCall, Tick, StopTicker, FreezeOnStop, backend
  <2> QED
    BY <2>1 DEF Abandoned, Tasks
<1>2. \A u \in Tasks : \/ task'[u] = task[u]
                       \/ task'[u].pc \notin {"fetched", "signed", "posted", "acked"}
  <2>1. CASE \E c \in Calls : \E kind \in {"rotate", "disable"} : BeginCall(c, kind)
    BY <2>1 DEF BeginCall, Idle, Typed
  <2>2. CASE Tick \/ StopTicker
    BY <2>2 DEF Tick, StopTicker, Idle, Typed
  <2>3. CASE FreezeOnStop
    BY <2>3 DEF FreezeOnStop, To, Typed, TaskRecord
  <2> QED
    BY <2>1, <2>2, <2>3
<1>3. \/ local' = local
      \/ /\ local'.gen = local.gen /\ local'.pubGen = 0
         /\ local'.secret = NoSecret /\ ~local'.enabled
  BY DEF BeginCall, Tick, StopTicker, FreezeOnStop, device, Frozen, Fresh, Typed, Password
<1>4. local'.secret = SecretOf(local')
  BY <1>0, <1>3 DEF PublicationInv, SecretOf
<1> QED
  BY <1>0, <1>1, <1>2, <1>3, <1>4, RowStays DEF PublicationInv, Typed, Password

\* A late publication, the guests, the clock and a restart.
LEMMA OthersPublish ==
    ASSUME Typed, Typed', LivesInv, PublicationInv,
           \/ \E s \in Sessions : Guest(s)
           \/ \E doc \in late : ServeLate(doc)
           \/ Restart \/ Advance
    PROVE  PublicationInv'
<1> SUFFICES ASSUME life' = 1 PROVE PublicationInv'
  BY DEF PublicationInv
<1>1. CASE Restart
  BY <1>1, AccessConstants DEF Restart, LivesInv
<1>2. CASE (\E s \in Sessions : Guest(s)) \/ Advance
  <2>1. life = 1 /\ local' = local /\ row' = row /\ late' = late /\ task' = task
    BY <1>2 DEF Guest, TryPassword, CreateRequest, Inspect, Admit, OpenRecord, Approve,
                Confirm, Install, Close, Advance, device, guestVars, backend, world
  <2> QED
    BY <2>1, RowStays DEF PublicationInv, Typed, Password
<1>3. CASE \E doc \in late : ServeLate(doc)
  <2>1. PICK doc \in late : ServeLate(doc)
    BY <1>3
  <2>2. life = 1 /\ local' = local /\ late' \subseteq late /\ task' = task
    BY <2>1 DEF ServeLate, device, guestVars, world
  <2>3. CASE Accepted(doc)
    <3>1. Publish(doc) /\ Ours(doc) /\ doc \in Document
      BY <2>1, <2>2, <2>3 DEF ServeLate, PublicationInv, Typed
    <3> QED
      BY <2>2, <2>3, <3>1, PublishStays
  <2>4. CASE ~Accepted(doc)
    <3>1. row' = row
      BY <2>1, <2>4 DEF ServeLate
    <3> QED
      BY <2>2, <3>1, RowStays DEF PublicationInv, Typed, Password
  <2> QED
    BY <2>3, <2>4
<1> QED
  BY <1>1, <1>2, <1>3

-----------------------------------------------------------------------------
(* The operation epochs.                                                     *)

\* The password state is applied for the current epoch: suppressed, switched
\* off, or rotated to a new generation; or its epoch stays.
Applies ==
    \/ /\ local'.applied = local.applied /\ local'.gen = local.gen
       /\ local'.enabled = local.enabled /\ local'.rotate = local.rotate
       /\ local'.secret = local.secret
    \/ /\ local'.applied = intent.current
       /\ \/ /\ local'.rotate /\ intent.enabled
             /\ local'.gen = local.gen /\ local'.secret = local.secret
          \/ /\ ~local'.enabled /\ local'.secret = NoSecret
             /\ local.gen <= local'.gen
          \/ intent.enabled /\ local.gen < local'.gen

\* A task stays, ends, starts a round, or moves on under its epoch.
Proceeds(u) ==
    \/ task'[u] = task[u]
    \/ /\ task'[u].epoch <= intent.current
       /\ task'[u].pc # "rotate"
       /\ task'[u].pc = "draft" => local'.applied = intent.current
       /\ task'[u].kind = "rotate" => /\ task[u].kind = "rotate"
                                      /\ task'[u].epoch = task[u].epoch

\* Steps under the same intent.
LEMMA SameIntent ==
    ASSUME Typed, Typed', EpochInv, intent' = intent, floor' = floor, Applies,
           \A u \in Tasks : Proceeds(u)
    PROVE  EpochInv'
<1>1. /\ local.gen \in Nat /\ local'.gen \in Nat /\ floor \in Nat /\ intent.current \in Nat
      /\ local.applied \in Nat
  BY DEF Typed, Password, Intent
<1>2. local'.applied <= intent.current /\ floor <= local'.gen
  BY <1>1 DEF Applies, EpochInv
<1>3. local'.secret # NoSecret => local'.gen > 0
  BY <1>1 DEF Applies, EpochInv
<1>4. EpochCurrent => local'.applied = intent.current
  BY DEF Applies, EpochCurrent, Current
<1>5. ASSUME NEW u \in Tasks
      PROVE  /\ task'[u].epoch <= intent.current
             /\ task'[u].pc = "draft" /\ task'[u].epoch = intent.current =>
                   local'.applied = intent.current
             /\ task'[u].pc = "rotate" => task'[u].kind = "rotate"
             /\ task'[u].kind = "rotate" /\ task'[u].epoch = intent.current => intent.enabled
  <2>1. CASE task'[u] = task[u]
    BY <1>4, <2>1 DEF EpochInv, Current
  <2>2. CASE task'[u] # task[u]
    BY <2>2 DEF Proceeds, EpochInv, Current
  <2> QED
    BY <2>1, <2>2
<1>6. local'.applied = intent.current /\ local'.enabled => intent.enabled
  BY DEF Applies, EpochInv, EpochCurrent, Current
<1>7. local'.applied = intent.current /\ local'.enabled /\ ~local'.rotate
      /\ local'.secret # NoSecret => local'.gen > floor
  <2> SUFFICES ASSUME local'.applied = intent.current, local'.enabled, ~local'.rotate,
                      local'.secret # NoSecret
               PROVE  local'.gen > floor
    OBVIOUS
  <2>1. CASE /\ local'.applied = local.applied /\ local'.gen = local.gen
             /\ local'.enabled = local.enabled /\ local'.rotate = local.rotate
             /\ local'.secret = local.secret
    <3>1. local.enabled /\ ~local.rotate /\ EpochCurrent /\ local.secret # NoSecret
      BY <2>1 DEF EpochCurrent, Current
    <3> QED
      BY <2>1, <3>1 DEF EpochInv
  <2>2. CASE local.gen < local'.gen
    BY <1>1, <2>2 DEF EpochInv
  <2> QED
    BY <2>1, <2>2 DEF Applies
<1> QED
  BY <1>2, <1>3, <1>5, <1>6, <1>7 DEF EpochInv, EpochCurrent, Current

LEMMA ReturnProceeds ==
    ASSUME Typed, EpochInv, NEW t \in Tasks, task' = [task EXCEPT ![t] = Over(t)]
    PROVE  \A u \in Tasks : Proceeds(u)
<1>1. ASSUME NEW u \in Tasks, u = t PROVE Proceeds(u)
  <2>1. task'[u] = Over(t)
    BY <1>1, OneMoves
  <2>2. intent.current \in Nat
    BY DEF Typed, Intent
  <2> QED
    BY <1>1, <2>1, <2>2, OverFields DEF Proceeds, EpochInv
<1> QED
  BY <1>1, OneMoves DEF Proceeds

LEMMA UpdateEpochs ==
    ASSUME Typed, Typed', EpochInv, NEW t \in Tasks, Update(t)
    PROVE  EpochInv'
<1>0. intent' = intent /\ floor' = floor
  BY DEF Update, Superseded, Acquire, Apply, Draft, Post, Settle, device, guestVars,
         backend, world
<1>1. Return(t) => \A u \in Tasks : Proceeds(u)
  BY ReturnProceeds DEF Return
<1>2. CASE Superseded(t)
  BY <1>0, <1>1, <1>2, SameIntent DEF Superseded, device, Applies
<1>3. CASE Acquire(t)
  <2>1. local' = local
    BY <1>3 DEF Acquire, device
  <2>2. CASE ~Return(t)
    <3>1. PICK pc \in {"fetching", "draft"} :
             /\ task' = [task EXCEPT ![t].at = now, ![t].pc = pc]
             /\ pc = "draft" => EpochCurrent
      BY <1>3, <2>2 DEF Acquire
    <3>2. \A u \in Tasks : Proceeds(u)
      BY <2>1, <3>1 DEF Proceeds, EpochInv, EpochCurrent, Current, Typed, TaskRecord
    <3> QED
      BY <1>0, <2>1, <3>2, SameIntent DEF Applies
  <2> QED
    BY <1>0, <1>1, <2>1, <2>2, SameIntent DEF Applies
<1>4. CASE Apply(t)
  <2> DEFINE remote == task[t].doc
             applied == [local EXCEPT !.applied = task[t].epoch]
             off == [Frozen(applied) EXCEPT !.gen = remote.gen]
  <2>1. task[t].epoch = intent.current /\ applied \in Password /\ applied.applied = task[t].epoch
    BY <1>4, PasswordTypes, TaskTypes DEF Apply, Current, Typed, Password
  <2>2. NextGeneration(remote) > local.gen /\ local.gen \in Nat /\ NextGeneration(remote) \in Nat
    BY TaskTypes DEF NextGeneration, Larger, Typed, Password
  <2>3. CASE Adopts(t, remote)
    <3>1. local' = Marked(off, remote.gen, 0)
      BY <1>4, <2>3 DEF Apply
    <3>2. local.gen <= remote.gen
      BY <2>3, TaskTypes DEF Adopts
    <3> HIDE DEF applied, remote
    <3>3. Applies
      BY <2>1, <3>1, <3>2 DEF Marked, Frozen, Fresh, Applies
    <3>4. Return(t)
      BY <1>4, <2>3 DEF Apply, remote
    <3> QED
      BY <1>0, <1>1, <3>3, <3>4, SameIntent
  <2>4. CASE ~Adopts(t, remote)
    <3>1. \A u \in Tasks : \/ task'[u] = task[u]
                           \/ /\ task'[u].pc = "draft"
                              /\ task'[u].kind = task[u].kind
                              /\ task'[u].epoch = task[u].epoch
      BY <1>4, <2>4 DEF Apply, Typed, TaskRecord
    <3>2. local'.applied = intent.current /\ Applies
      <4>1. CASE NeedsDisable(t)
        <5>1. local' = [Frozen(applied) EXCEPT !.gen = NextGeneration(remote)]
          BY <1>4, <2>4, <4>1 DEF Apply
        <5> HIDE DEF applied, remote
        <5>2. /\ local'.applied = intent.current
              /\ local'.enabled = FALSE
              /\ local'.secret = NoSecret
              /\ local'.gen = NextGeneration(remote)
          BY <2>1, <5>1 DEF Frozen, Fresh
        <5> QED
          BY <2>2, <5>2 DEF Applies
      <4>2. CASE ~NeedsDisable(t)
        <5>1. local' = Rotated(applied, NextGeneration(remote), task[t].at)
          BY <1>4, <2>4, <4>2 DEF Apply
        <5>2. intent.enabled
          BY <2>1, <4>2 DEF NeedsDisable, Forces, Enabled, EpochInv, Current
        <5> HIDE DEF applied, remote
        <5> QED
          BY <2>1, <2>2, <5>1, <5>2 DEF Rotated, Password, Applies
      <4> QED
        BY <4>1, <4>2
    <3>3. \A u \in Tasks : Proceeds(u)
      BY <3>1, <3>2 DEF Proceeds, EpochInv
    <3> QED
      BY <1>0, <3>2, <3>3, SameIntent
  <2> QED
    BY <2>3, <2>4
<1>5. CASE Draft(t)
  <2>1. local.applied = task[t].epoch
    BY <1>5 DEF Draft, At, Current, EpochCurrent, EpochInv
  <2>2. /\ local'.applied = local.applied
        /\ local'.gen = local.gen
        /\ local'.enabled = local.enabled
        /\ local'.rotate = local.rotate
        /\ local'.secret = local.secret
    BY <1>5, <2>1 DEF Draft, Renewed, Typed, Password
  <2>3. \A u \in Tasks : Proceeds(u)
    <3>1. CASE ~Return(t)
      BY <1>5, <3>1 DEF Draft, Proceeds, EpochInv, Typed, TaskRecord
    <3> QED
      BY <1>1, <3>1
  <2> QED
    BY <1>0, <2>2, <2>3, SameIntent DEF Applies
<1>6. CASE Post(t)
  <2>1. \A u \in Tasks : Proceeds(u)
    BY <1>6 DEF Post, To, Proceeds, EpochInv, Typed, TaskRecord
  <2> QED
    BY <1>0, <1>6, <2>1, SameIntent DEF Post, device, Applies
<1>7. CASE Settle(t)
  <2>1. Applies
    BY <1>7 DEF Settle, Marked, Applies, Typed, Password
  <2> QED
    BY <1>0, <1>1, <1>7, <2>1, SameIntent DEF Settle
<1> QED
  BY <1>2, <1>3, <1>4, <1>5, <1>6, <1>7 DEF Update

LEMMA ServeEpochs ==
    ASSUME Typed, Typed', EpochInv, NEW t \in Tasks, Serve(t) \/ Timeout(t)
    PROVE  EpochInv'
<1>0. intent' = intent /\ floor' = floor /\ local' = local
  BY DEF Serve, Metadata, ServePublish, Timeout, device, guestVars, backend, world
<1>1. Return(t) => \A u \in Tasks : Proceeds(u)
  BY ReturnProceeds DEF Return
<1>2. \A u \in Tasks : Proceeds(u)
  <2>1. CASE Metadata(t)
    BY <2>1 DEF Metadata, Proceeds, EpochInv, Typed, TaskRecord
  <2>2. CASE To(t, "acked")
    BY <2>2 DEF To, Proceeds, EpochInv, Typed, TaskRecord
  <2> QED
    BY <1>1, <2>1, <2>2 DEF Serve, ServePublish, Timeout
<1> QED
  BY <1>0, <1>2, SameIntent DEF Applies

LEMMA RequestEpochs ==
    ASSUME Typed, Typed', EpochInv, NEW c \in Calls, Request(c)
    PROVE  EpochInv'
<1>0. intent' = intent /\ floor' = floor /\ c \in Tasks
  BY DEF Request, Suppress, CheckIntent, Freeze, RevokeRecords, EndSessions, device,
         guestVars, backend, world, Tasks
<1>1. ASSUME NEW pc \in {"want", "freezing", "raced", "ending"}, To(c, pc)
      PROVE  \A u \in Tasks : Proceeds(u)
  BY <1>0, <1>1 DEF To, Proceeds, EpochInv, Typed, TaskRecord
<1>2. ASSUME NEW pc \in {"want", "revoking"}, NEW left,
             task' = [task EXCEPT ![c].pc = pc, ![c].left = left]
      PROVE  \A u \in Tasks : Proceeds(u)
  BY <1>0, <1>2 DEF Proceeds, EpochInv, Typed, TaskRecord
<1>3. task' = [task EXCEPT ![c] = Over(c)] => \A u \in Tasks : Proceeds(u)
  BY <1>0, ReturnProceeds
<1>4. CASE Suppress(c)
  <2>1. \A u \in Tasks : Proceeds(u)
    BY <1>1, <1>3, <1>4 DEF Suppress
  <2>2. CASE local' = local
    BY <1>0, <2>1, <2>2, SameIntent DEF Applies
  <2>3. CASE local' # local
    <3>1. /\ task[c].epoch = intent.current
          /\ local' = Invalidated([local EXCEPT !.applied = task[c].epoch])
      BY <1>4, <2>3 DEF Suppress, Current
    <3>2. intent.enabled
      BY <1>0, <1>4, <3>1 DEF Suppress, At, EpochInv, Current
    <3>3. /\ local'.applied = intent.current
          /\ local'.rotate = TRUE
          /\ local'.gen = local.gen
          /\ local'.secret = local.secret
      BY <3>1 DEF Invalidated, Typed, Password
    <3> QED
      BY <1>0, <2>1, <3>2, <3>3, SameIntent DEF Applies
  <2> QED
    BY <2>2, <2>3
<1>5. CASE Freeze(c)
  <2>1. \A u \in Tasks : Proceeds(u)
    BY <1>1, <1>2, <1>5 DEF Freeze
  <2>2. CASE local' = local
    BY <1>0, <2>1, <2>2, SameIntent DEF Applies
  <2>3. CASE local' # local
    <3>1. /\ task[c].epoch = intent.current
          /\ local' = Frozen([local EXCEPT !.applied = task[c].epoch])
      BY <1>5, <2>3 DEF Freeze, Current
    <3>2. /\ local'.applied = intent.current
          /\ local'.enabled = FALSE
          /\ local'.gen = local.gen
          /\ local'.secret = NoSecret
      BY <3>1 DEF Frozen, Fresh, Typed, Password
    <3> QED
      BY <1>0, <2>1, <3>2, SameIntent DEF Applies, Typed, Password
  <2> QED
    BY <2>2, <2>3
<1>6. CASE CheckIntent(c) \/ RevokeRecords(c) \/ EndSessions(c)
  <2>1. local' = local
    BY <1>6 DEF CheckIntent, RevokeRecords, EndSessions, device
  <2>2. \A u \in Tasks : Proceeds(u)
    BY <1>1, <1>2, <1>3, <1>6 DEF CheckIntent, RevokeRecords, EndSessions
  <2> QED
    BY <1>0, <2>1, <2>2, SameIntent DEF Applies
<1> QED
  BY <1>4, <1>5, <1>6 DEF Request

\* A new intent: nothing is applied for its epoch yet.
LEMMA NewIntent ==
    ASSUME Typed, Typed', EpochInv, NEW disable \in BOOLEAN, NEW t \in Tasks, NEW r,
           intent' = Begins(disable), floor' = local.gen, local' = local,
           task' = [task EXCEPT ![t] = r],
           r.epoch = intent.current + 1,
           r.pc # "draft",
           r.pc = "rotate" => r.kind = "rotate",
           r.kind = "rotate" => ~disable
    PROVE  EpochInv'
<1>1. /\ local.gen \in Nat /\ local.applied \in Nat /\ intent.current \in Nat
      /\ \A u \in Tasks : task[u].epoch \in Nat
  BY TaskTypes DEF Typed, Password, Intent
<1>2. intent'.current = intent.current + 1 /\ intent'.enabled = ~disable
  BY DEF Begins
<1>3. /\ local'.applied < intent'.current
      /\ floor' <= local'.gen
      /\ local'.secret # NoSecret => local'.gen > 0
  BY <1>1, <1>2 DEF EpochInv
<1>4. ASSUME NEW u \in Tasks
      PROVE  /\ task'[u].epoch <= intent'.current
             /\ task'[u].pc = "draft" => task'[u].epoch # intent'.current
             /\ task'[u].pc = "rotate" => task'[u].kind = "rotate"
             /\ task'[u].kind = "rotate" /\ task'[u].epoch = intent'.current =>
                   intent'.enabled
  <2>1. CASE u = t
    <3>1. task'[u] = r
      BY <2>1, OneMoves
    <3>2. r.kind = "rotate" => intent'.enabled
      BY <1>2
    <3>3. r.epoch <= intent'.current
      BY <1>1, <1>2
    <3> QED
      BY <3>1, <3>2, <3>3
  <2>2. CASE u # t
    <3>1. task'[u] = task[u]
      BY <2>2, OneMoves
    <3>2. task'[u].epoch < intent'.current
      BY <1>1, <1>2, <3>1 DEF EpochInv
    <3> QED
      BY <1>1, <1>2, <3>1, <3>2 DEF EpochInv
  <2> QED
    BY <2>1, <2>2
<1> QED
  BY <1>1, <1>2, <1>3, <1>4 DEF EpochInv, EpochCurrent, Current

LEMMA BeginningsEpochs ==
    ASSUME Typed, Typed', EpochInv,
           \/ \E c \in Calls : \E kind \in {"rotate", "disable"} : BeginCall(c, kind)
           \/ Tick \/ StopTicker \/ FreezeOnStop
    PROVE  EpochInv'
<1>0. Ticker \in Tasks
  BY DEF Tasks
<1>1. ASSUME NEW c \in Calls, NEW kind \in {"rotate", "disable"}, BeginCall(c, kind)
      PROVE  EpochInv'
  <2> DEFINE r == [Idle EXCEPT !.pc = kind, !.kind = kind, !.epoch = intent.current + 1]
  <2>1. r.epoch = intent.current + 1 /\ r.pc = kind /\ r.kind = kind
    BY DEF Idle
  <2>2. /\ intent' = Begins(kind = "disable") /\ floor' = local.gen /\ local' = local
        /\ task' = [task EXCEPT ![c] = r] /\ c \in Tasks
    BY <1>1 DEF BeginCall, Tasks
  <2> HIDE DEF r
  <2> QED
    BY <2>1, <2>2, NewIntent
<1>2. CASE Tick
  <2>1. \A u \in Tasks : Proceeds(u)
    BY <1>0, <1>2 DEF Tick, Idle, Proceeds, Typed, Intent
  <2> QED
    BY <1>2, <2>1, SameIntent DEF Tick, device, world, Applies
<1>3. CASE StopTicker
  <2> DEFINE r == [Idle EXCEPT !.pc = "stopping", !.epoch = intent.current + 1]
  <2>1. r.epoch = intent.current + 1 /\ r.pc = "stopping" /\ r.kind = "tick"
    BY DEF Idle
  <2>2. /\ intent' = Begins(TRUE) /\ floor' = local.gen /\ local' = local
        /\ task' = [task EXCEPT ![Ticker] = r]
    BY <1>3 DEF StopTicker
  <2> HIDE DEF r
  <2> QED
    BY <1>0, <2>1, <2>2, NewIntent
<1>4. CASE FreezeOnStop
  <2>1. \A u \in Tasks : Proceeds(u)
    BY <1>0, <1>4 DEF FreezeOnStop, To, Proceeds, EpochInv, Typed, TaskRecord
  <2>2. CASE local' = local
    BY <1>4, <2>1, <2>2, SameIntent DEF FreezeOnStop, world, Applies
  <2>3. CASE local' # local
    <3>1. /\ task[Ticker].epoch = intent.current
          /\ local' = Frozen([local EXCEPT !.applied = task[Ticker].epoch])
      BY <1>4, <2>3 DEF FreezeOnStop, Current
    <3>2. /\ local'.applied = intent.current
          /\ local'.enabled = FALSE
          /\ local'.gen = local.gen
          /\ local'.secret = NoSecret
      BY <3>1 DEF Frozen, Fresh, Typed, Password
    <3> QED
      BY <1>4, <2>1, <3>2, SameIntent DEF FreezeOnStop, world, Applies, Typed, Password
  <2> QED
    BY <2>2, <2>3
<1> QED
  BY <1>1, <1>2, <1>3, <1>4

LEMMA OthersEpochs ==
    ASSUME Typed, Typed', EpochInv,
           \/ \E s \in Sessions : Guest(s)
           \/ \E doc \in late : ServeLate(doc)
           \/ Restart \/ Advance
    PROVE  EpochInv'
<1>1. CASE Restart
  BY <1>1 DEF Restart, EpochInv, EpochCurrent, Current, Fresh, FirstIntent, Idle
<1>2. CASE ~Restart
  <2>1. intent' = intent /\ local' = local /\ floor' = floor /\ task' = task
    BY <1>2 DEF Guest, TryPassword, CreateRequest, Inspect, Admit, OpenRecord, Approve,
                Confirm, Install, Close, ServeLate, Advance, device, guestVars, backend, world
  <2> QED
    BY <2>1, SameIntent DEF Applies, Proceeds
<1> QED
  BY <1>1, <1>2

-----------------------------------------------------------------------------
(* The guest table.                                                          *)

\* A step that moves one session leaves the others where they are.
LEMMA StageMoves ==
    ASSUME NEW s \in Sessions, GuestsTyped, NEW x, stage' = [stage EXCEPT ![s] = x]
    PROVE  /\ stage'[s] = x
           /\ \A u \in Sessions : u # s => stage'[u] = stage[u]
           /\ x \in Stages => stage' \in [Sessions -> Stages]
BY DEF GuestsTyped

LEMMA EntryMoves ==
    ASSUME NEW s \in Sessions, GuestsTyped, NEW x, guests' = [guests EXCEPT ![s] = x]
    PROVE  /\ guests'[s] = x
           /\ \A u \in Sessions : u # s => guests'[u] = guests[u]
           /\ x \in Entry => guests' \in [Sessions -> Entry]
BY DEF GuestsTyped

LEMMA GuestStepTyped ==
    ASSUME Typed, GuestsTyped, NEW s \in Sessions, Guest(s)
    PROVE  GuestsTyped'
<1> USE DEF GuestsTyped
<1>1. CASE TryPassword(s)
  BY <1>1 DEF TryPassword, guestVars, Typed, Document, Statuses
<1>2. CASE CreateRequest(s)
  BY <1>2 DEF CreateRequest, guestVars, Statuses
<1>3. CASE Inspect(s) \/ OpenRecord(s) \/ Install(s)
  BY <1>3 DEF Inspect, OpenRecord, Install, backend, Stages
<1>4. CASE Admit(s)
  <2>1. guests' \in [Sessions -> Entry]
    <3>1. [gen |-> local.gen, approved |-> FALSE, at |-> local.applied] \in Entry
      BY DEF Typed, Password, Entry
    <3> QED
      BY <1>4, <3>1, EntryMoves DEF Admit
  <2>2. stage' \in [Sessions -> Stages]
    BY <1>4 DEF Admit, Stages
  <2> QED
    BY <1>4, <2>1, <2>2 DEF Admit, backend
<1>5. CASE Approve(s)
  <2>1. stage' \in [Sessions -> Stages]
    BY <1>5, StageMoves DEF Approve, Stages
  <2>2. request' \in [Sessions -> [status : Statuses, gen : Nat, until : Nat]]
    BY <1>5 DEF Approve, Statuses
  <2> QED
    BY <1>5, <2>1, <2>2 DEF Approve
<1>6. CASE Confirm(s)
  <2>1. stage' \in [Sessions -> Stages]
    BY <1>6, StageMoves DEF Confirm, Stages
  <2>2. guests' \in [Sessions -> Entry]
    <3>1. [guests[s] EXCEPT !.approved = TRUE] \in Entry
      BY DEF Entry
    <3> QED
      BY <1>6, <3>1, EntryMoves DEF Confirm
  <2> QED
    BY <1>6, <2>1, <2>2 DEF Confirm, backend
<1>7. CASE Close(s)
  BY <1>7 DEF Close, NoGuest, Entry, Statuses
<1> QED
  BY <1>1, <1>2, <1>3, <1>4, <1>5, <1>6, <1>7 DEF Guest

\* A publication changes statuses of requests only.
LEMMA PublishTyped ==
    ASSUME GuestsTyped, NEW doc, Publish(doc)
    PROVE  request' \in [Sessions -> [status : Statuses, gen : Nat, until : Nat]]
BY DEF GuestsTyped, Publish, Statuses

LEMMA StepGuestsTyped ==
    ASSUME Typed, GuestsTyped, Next
    PROVE  GuestsTyped'
<1>1. CASE \E s \in Sessions : Guest(s)
  BY <1>1, GuestStepTyped
<1>2. CASE \E t \in Tasks : Update(t) \/ Timeout(t)
  BY <1>2 DEF GuestsTyped, Update, Superseded, Acquire, Apply, Draft, Post, Settle, Timeout,
              guestVars, backend
<1>3. CASE \E t \in Tasks : Serve(t)
  BY <1>3, PublishTyped DEF GuestsTyped, Serve, Metadata, ServePublish, guestVars, backend
<1>4. CASE \E c \in Calls : Request(c)
  BY <1>4 DEF GuestsTyped, Request, Suppress, CheckIntent, Freeze, RevokeRecords, EndSessions,
              guestVars, backend, Stages
<1>5. CASE \E c \in Calls : \E kind \in {"rotate", "disable"} : BeginCall(c, kind)
  BY <1>5 DEF GuestsTyped, BeginCall, guestVars, backend
<1>6. CASE \E doc \in late : ServeLate(doc)
  BY <1>6, PublishTyped DEF GuestsTyped, ServeLate, guestVars
<1>7. CASE Tick \/ StopTicker \/ FreezeOnStop \/ Advance
  BY <1>7 DEF GuestsTyped, Tick, StopTicker, FreezeOnStop, Advance, guestVars, backend
<1>8. CASE Restart
  BY <1>8 DEF GuestsTyped, Restart, NoGuest, Entry, Stages
<1> QED
  BY <1>1, <1>2, <1>3, <1>4, <1>5, <1>6, <1>7, <1>8 DEF Next

\* A step of the guest s leaves the others alone, keeps what the table says of
\* it, enters it under the current epoch of an enabled intent, or drops it.
GuestMoves(s) ==
    /\ \A u \in Sessions : u # s => guests'[u] = guests[u] /\ stage'[u] = stage[u]
    /\ \/ stage[s] = "none" /\ stage'[s] \in {"none", "inspected"} /\ guests'[s] = guests[s]
       \/ /\ stage[s] = "inspected" /\ stage'[s] = "admitted"
          /\ guests'[s] # NoGuest /\ guests'[s].at = intent.current /\ intent.enabled
       \/ stage'[s] = "over" /\ guests'[s] = guests[s]
       \/ /\ stage[s] \in {"admitted", "pending", "approved", "confirmed"}
          /\ stage'[s] \in {"pending", "approved", "confirmed", "granted"}
          /\ guests'[s] # NoGuest /\ guests'[s].at = guests[s].at
       \/ stage'[s] = stage[s] /\ guests'[s] = guests[s]
       \/ /\ stage[s] \in {"over", "revoked"} /\ stage'[s] = stage[s]
          /\ guests'[s] = NoGuest

LEMMA GuestStep ==
    ASSUME Typed, GuestsTyped, EpochInv, TableInv, NEW s \in Sessions, Guest(s)
    PROVE  GuestMoves(s) /\ intent' = intent /\ task' = task
<1>0. intent' = intent /\ task' = task
  BY DEF Guest, TryPassword, CreateRequest, Inspect, Admit, OpenRecord, Approve,
         Confirm, Install, Close, device
<1> SUFFICES GuestMoves(s)
  BY <1>0
<1>1. CASE TryPassword(s) \/ CreateRequest(s)
  <2>1. guests' = guests /\ stage' = stage
    BY <1>1 DEF TryPassword, CreateRequest, guestVars
  <2> QED
    BY <2>1 DEF GuestMoves
<1>2. CASE Inspect(s) \/ OpenRecord(s) \/ Install(s)
  <2>1. guests' = guests
    BY <1>2 DEF Inspect, OpenRecord, Install
  <2>2. PICK x \in {"inspected", "pending", "granted"} :
           /\ stage' = [stage EXCEPT ![s] = x]
           /\ x = "inspected" => stage[s] = "none"
           /\ x # "inspected" => stage[s] \in {"admitted", "confirmed"}
    BY <1>2 DEF Inspect, OpenRecord, Install
  <2> QED
    BY <2>1, <2>2, StageMoves DEF GuestMoves, TableInv
<1>3. ASSUME stage' = [stage EXCEPT ![s] = "over"], guests' = guests
      PROVE  GuestMoves(s)
  BY <1>3, StageMoves DEF GuestMoves
<1>4. CASE Admit(s)
  <2>1. ASSUME Admits(s),
               stage[s] = "inspected",
               stage' = [stage EXCEPT ![s] = "admitted"],
               guests' = [guests EXCEPT ![s] =
                 IF guests[s] # NoGuest THEN guests[s]
                 ELSE [gen |-> local.gen, approved |-> FALSE, at |-> local.applied]]
        PROVE  GuestMoves(s)
    <3>1. guests[s] = NoGuest
      BY <2>1 DEF TableInv
    <3>2. guests' = [guests EXCEPT ![s] =
                 [gen |-> local.gen, approved |-> FALSE, at |-> local.applied]]
      BY <2>1, <3>1
    <3>3. local.gen > 0 /\ local.applied = intent.current /\ intent.enabled
      BY <2>1 DEF Admits, Ready, Enabled, EpochCurrent, Current
    <3>4. /\ guests'[s] # NoGuest /\ guests'[s].at = intent.current
          /\ \A u \in Sessions : u # s => guests'[u] = guests[u]
      <4>1. /\ guests'[s] = [gen |-> local.gen, approved |-> FALSE, at |-> local.applied]
            /\ \A u \in Sessions : u # s => guests'[u] = guests[u]
        BY <3>2, EntryMoves
      <4>2. guests'[s].gen # NoGuest.gen
        BY <3>3, <4>1 DEF NoGuest, Typed, Password
      <4> QED
        BY <3>3, <4>1, <4>2
    <3> QED
      BY <2>1, <3>3, <3>4, StageMoves DEF GuestMoves
  <2> QED
    BY <1>3, <1>4, <2>1 DEF Admit
<1>5. CASE Approve(s)
  <2>1. ASSUME stage[s] = "pending", stage' = [stage EXCEPT ![s] = "approved"],
               guests' = guests
        PROVE  GuestMoves(s)
    BY <2>1, StageMoves DEF GuestMoves, TableInv
  <2> QED
    BY <1>3, <1>5, <2>1 DEF Approve
<1>6. CASE Confirm(s)
  <2>1. ASSUME stage[s] = "approved", stage' = [stage EXCEPT ![s] = "confirmed"],
               guests' = [guests EXCEPT ![s].approved = TRUE]
        PROVE  GuestMoves(s)
    <3>1. /\ guests'[s].approved = TRUE /\ guests'[s].at = guests[s].at
          /\ \A u \in Sessions : u # s => guests'[u] = guests[u]
      BY <2>1 DEF GuestsTyped, Entry
    <3>2. guests'[s] # NoGuest
      BY <3>1 DEF NoGuest
    <3> QED
      BY <2>1, <3>1, <3>2, StageMoves DEF GuestMoves
  <2> QED
    BY <1>3, <1>6, <2>1 DEF Confirm
<1>7. CASE Close(s)
  <2>1. stage' = stage /\ stage[s] \in {"over", "revoked"}
    BY <1>7 DEF Close
  <2>2. guests' = [guests EXCEPT ![s] = NoGuest]
    BY <1>7 DEF Close
  <2> QED
    BY <2>1, <2>2, EntryMoves DEF GuestMoves
<1> QED
  BY <1>1, <1>2, <1>4, <1>5, <1>6, <1>7 DEF Guest

\* Steps of the tasks end sessions or leave them alone; the table changes with
\* a restart only.
SessionsEnd ==
    /\ guests' = guests
    /\ \A s \in Sessions : \/ stage'[s] = stage[s]
                           \/ stage[s] # "none" /\ stage'[s] = "over"
                           \/ HasRecord(s) /\ stage'[s] = "revoked"

\* What a step may do to a call: it stays, begins with a new epoch, decides on
\* the list of sessions a disable ends, or moves on.
CallMoves(c) ==
    \/ task'[c] = task[c]
    \/ /\ task[c].pc = "idle"
       /\ task'[c].pc \in {"rotate", "disable"}
       /\ task'[c].epoch = intent.current + 1
       /\ task'[c].kind = "disable" => ~intent'.enabled
    \/ /\ task'[c].kind = task[c].kind /\ task'[c].epoch = task[c].epoch
       /\ \/ task'[c].pc \notin {"revoking", "ending"} \cup PastEnding
          \/ task'[c].pc = "revoking" /\ task'[c].left = AdmittedBefore(task[c].epoch)
          \/ task[c].pc = "revoking" /\ task'[c].pc = "ending" /\ task'[c].left = task[c].left
          \/ /\ task[c].pc = "ending" /\ task'[c].pc \in PastEnding
             /\ \A s \in task[c].left : stage'[s] \in {"none", "over"}
          \/ task[c].pc \in PastEnding /\ task'[c].pc \in PastEnding
          \/ task[c].kind # "disable"
    \/ task'[c].kind = "tick"

\* Between two intents, or with a new one.
IntentMoves == intent' = intent \/ intent'.current = intent.current + 1

LEMMA TasksTable ==
    ASSUME Typed, Typed', GuestsTyped, GuestsTyped', TableInv, SessionsEnd, IntentMoves
    PROVE  TableInv'
<1> SUFFICES ASSUME NEW s \in Sessions
             PROVE  /\ stage'[s] \in {"none", "inspected"} => guests'[s] = NoGuest
                    /\ stage'[s] \in {"admitted", "pending", "approved", "confirmed",
                                       "granted"} => guests'[s] # NoGuest
                    /\ guests'[s].at <= intent'.current
  BY DEF TableInv
<1>1. guests[s].at \in Nat /\ intent.current \in Nat /\ intent'.current \in Nat
  BY DEF Typed, GuestsTyped, Entry, Intent
<1>2. guests'[s].at <= intent'.current
  BY <1>1 DEF TableInv, SessionsEnd, IntentMoves
<1> QED
  BY <1>2 DEF TableInv, SessionsEnd

LEMMA TasksDisable ==
    ASSUME Typed, Typed', GuestsTyped, EpochInv, TableInv, DisableInv, SessionsEnd,
           IntentMoves, \A c \in Calls : CallMoves(c)
    PROVE  DisableInv'
<1> SUFFICES ASSUME NEW c \in Calls, task'[c].kind = "disable"
             PROVE  /\ task'[c].epoch = intent'.current => ~intent'.enabled
                    /\ \A s \in Sessions : EndedBy(c, s)'
  BY DEF DisableInv
<1>0. /\ c \in Tasks /\ intent.current \in Nat /\ task[c].epoch \in Nat
      /\ task[c].epoch <= intent.current
      /\ \A s \in Sessions : guests[s].at \in Nat /\ guests[s].at <= intent.current
  BY TaskTypes DEF Typed, GuestsTyped, Entry, Intent, Tasks, EpochInv, TableInv
<1>1. CASE /\ task[c].pc = "idle"
           /\ task'[c].pc \in {"rotate", "disable"}
           /\ task'[c].epoch = intent.current + 1
           /\ ~intent'.enabled
  <2>1. ASSUME NEW s \in Sessions PROVE EndedBy(c, s)'
    <3>1. guests'[s].at # task'[c].epoch
      BY <1>0, <1>1 DEF SessionsEnd
    <3>2. task'[c].pc \notin {"revoking", "ending"} /\ task'[c].pc \notin PastEnding
      BY <1>1 DEF PastEnding
    <3> QED
      BY <3>1, <3>2 DEF EndedBy
  <2> QED
    BY <1>1, <2>1
<1>2. CASE task'[c].kind = task[c].kind /\ task'[c].epoch = task[c].epoch
  <2>1. task[c].epoch = intent'.current => ~intent'.enabled
    <3>1. CASE intent' = intent
      BY <1>2, <3>1 DEF DisableInv
    <3>2. CASE intent'.current = intent.current + 1
      BY <1>0, <3>2
    <3> QED
      BY <3>1, <3>2 DEF IntentMoves
  <2>2. ASSUME NEW s \in Sessions PROVE EndedBy(c, s)'
    <3> SUFFICES ASSUME guests[s] # NoGuest
                 PROVE  /\ guests[s].at # task[c].epoch
                        /\ guests[s].at < task[c].epoch =>
                             /\ task'[c].pc \in {"revoking", "ending"} => s \in task'[c].left
                             /\ task'[c].pc \in PastEnding => stage'[s] = "over"
      BY <1>2 DEF EndedBy, SessionsEnd
    <3>1. EndedBy(c, s) /\ guests[s].at # task[c].epoch
      BY <1>2 DEF DisableInv, EndedBy
    <3> SUFFICES ASSUME guests[s].at < task[c].epoch
                 PROVE  /\ task'[c].pc \in {"revoking", "ending"} => s \in task'[c].left
                        /\ task'[c].pc \in PastEnding => stage'[s] = "over"
      BY <3>1
    <3>2. /\ task[c].pc \in {"revoking", "ending"} => s \in task[c].left
          /\ task[c].pc \in PastEnding => stage[s] = "over"
      BY <3>1 DEF EndedBy
    <3>3. stage[s] = "over" => stage'[s] = "over"
      BY DEF SessionsEnd, HasRecord
    <3>4. stage'[s] # "none"
      BY DEF SessionsEnd, TableInv
    <3>5. CASE task'[c] = task[c]
      BY <3>2, <3>3, <3>5
    <3>6. CASE task'[c].pc \notin {"revoking", "ending"} \cup PastEnding
      BY <3>6
    <3>7. CASE task'[c].pc = "revoking" /\ task'[c].left = AdmittedBefore(task[c].epoch)
      BY <3>7 DEF AdmittedBefore, PastEnding
    <3>8. CASE task[c].pc = "revoking" /\ task'[c].pc = "ending" /\ task'[c].left = task[c].left
      BY <3>2, <3>8 DEF PastEnding
    <3>9. CASE /\ task[c].pc = "ending" /\ task'[c].pc \in PastEnding
               /\ \A u \in task[c].left : stage'[u] \in {"none", "over"}
      BY <3>2, <3>4, <3>9 DEF PastEnding
    <3>10. CASE task[c].pc \in PastEnding /\ task'[c].pc \in PastEnding
      BY <3>2, <3>3, <3>10 DEF PastEnding
    <3> QED
      BY <1>0, <1>2, <3>5, <3>6, <3>7, <3>8, <3>9, <3>10 DEF CallMoves
  <2> QED
    BY <1>2, <2>1, <2>2
<1> QED
  BY <1>1, <1>2 DEF CallMoves

\* Steps of update(), with the answers and timeouts it meets: a task stays
\* between "want" and "done".
LEMMA UpdateCalls ==
    ASSUME Typed, Typed', NEW t \in Tasks, Update(t) \/ Serve(t) \/ Timeout(t), NEW c \in Calls,
           Mutex
    PROVE  CallMoves(c)
<1>0. c \in Tasks /\ c # Ticker
  BY AccessConstants DEF Tasks
<1>1. CASE c # t
  <2>1. task'[c] = task[c]
    BY <1>0, <1>1 DEF Update, Superseded, Acquire, Apply, Draft, Post, Settle, Serve, Metadata,
                 ServePublish, Timeout, Return, To, Typed
  <2> QED
    BY <2>1 DEF CallMoves
<1>2. CASE c = t
  <2>1. task[c].pc \in PastEnding
    BY <1>0, <1>2 DEF Update, Superseded, Acquire, Apply, Draft, Post, Settle, Serve, Metadata,
                 ServePublish, Timeout, At, Mutex, Holding, PastEnding
  <2>2. CASE Return(t)
    <3>1. task'[c] = Over(c)
      BY <1>0, <1>2, <2>2, OneMoves DEF Return
    <3> QED
      BY <1>0, <2>1, <3>1, OverFields DEF CallMoves, PastEnding
  <2>3. CASE ~Return(t)
    <3>1. CASE Acquire(t)
      BY <1>0, <1>2, <2>1, <2>3, <3>1 DEF Acquire, CallMoves, PastEnding, Typed, TaskRecord
    <3>2. CASE Apply(t)
      BY <1>0, <1>2, <2>1, <2>3, <3>2 DEF Apply, CallMoves, PastEnding, Typed, TaskRecord
    <3>3. CASE Draft(t)
      BY <1>0, <1>2, <2>1, <2>3, <3>3 DEF Draft, CallMoves, PastEnding, Typed, TaskRecord
    <3>4. CASE Post(t) \/ ServePublish(t)
      BY <1>0, <1>2, <2>1, <2>3, <3>4
      DEF Post, ServePublish, To, CallMoves, PastEnding, Typed, TaskRecord
    <3>5. CASE Metadata(t)
      BY <1>0, <1>2, <2>1, <3>5 DEF Metadata, CallMoves, PastEnding, Typed, TaskRecord
    <3> QED
      BY <2>3, <3>1, <3>2, <3>3, <3>4, <3>5 DEF Update, Superseded, Settle, Serve, Timeout
  <2> QED
    BY <2>2, <2>3
<1> QED
  BY <1>1, <1>2

\* Steps of rotate() and disable() outside update().
LEMMA RequestCalls ==
    ASSUME Typed, Typed', GuestsTyped, EpochInv, NEW d \in Calls, Request(d)
    PROVE  /\ \A c \in Calls : CallMoves(c)
           /\ SessionsEnd
           /\ intent' = intent
<1>0. d \in Tasks /\ d # Ticker /\ intent' = intent
  BY AccessConstants DEF Tasks, Request, Suppress, CheckIntent, Freeze, RevokeRecords,
                         EndSessions, device
<1>1. SessionsEnd
  <2>1. CASE RevokeRecords(d)
    BY <2>1 DEF RevokeRecords, SessionsEnd, HasRecord, GuestsTyped
  <2>2. CASE EndSessions(d)
    BY <2>2 DEF EndSessions, SessionsEnd, GuestsTyped
  <2>3. CASE Suppress(d) \/ CheckIntent(d) \/ Freeze(d)
    BY <2>3 DEF Suppress, CheckIntent, Freeze, guestVars, SessionsEnd
  <2> QED
    BY <2>1, <2>2, <2>3 DEF Request
<1>2. \A c \in Calls : c # d => task'[c] = task[c]
  BY <1>0 DEF Request, Suppress, CheckIntent, Freeze, RevokeRecords, EndSessions, To, Typed,
              Tasks
<1>3. CallMoves(d)
  <2>1. CASE Suppress(d)
    <3>1. task[d].kind = "rotate"
      BY <1>0, <2>1 DEF Suppress, At, EpochInv
    <3>2. task'[d].kind = task[d].kind /\ task'[d].epoch = task[d].epoch
      <4>1. CASE To(d, "want")
        BY <1>0, <4>1 DEF To, Typed, TaskRecord
      <4>2. CASE task' = [task EXCEPT ![d] = Over(d)]
        BY <1>0, <4>2, OneMoves, OverFields
      <4> QED
        BY <2>1, <4>1, <4>2 DEF Suppress
    <3> QED
      BY <3>1, <3>2 DEF CallMoves
  <2>2. CASE CheckIntent(d) \/ Freeze(d)
    <3>1. CASE To(d, "freezing") \/ To(d, "raced")
      BY <1>0, <3>1 DEF To, CallMoves, PastEnding, Typed, TaskRecord
    <3>2. CASE task' = [task EXCEPT ![d].pc = "revoking",
                                    ![d].left = AdmittedBefore(task[d].epoch)]
      BY <1>0, <3>2 DEF CallMoves, Typed, TaskRecord
    <3> QED
      BY <2>2, <3>1, <3>2 DEF CheckIntent, Freeze
  <2>3. CASE RevokeRecords(d)
    BY <1>0, <2>3 DEF RevokeRecords, At, To, CallMoves, Typed, TaskRecord
  <2>4. CASE EndSessions(d)
    <3>1. /\ task[d].pc = "ending"
          /\ \A s \in task[d].left : stage'[s] \in {"none", "over"}
      BY <1>0, <2>4 DEF EndSessions, At, Typed, TaskRecord
    <3>2. /\ task'[d].kind = task[d].kind /\ task'[d].epoch = task[d].epoch
          /\ task'[d].pc \in {"want", "done"}
      <4>1. CASE task' = [task EXCEPT ![d].pc = "want", ![d].left = {}]
        BY <1>0, <4>1 DEF Typed, TaskRecord
      <4>2. CASE task' = [task EXCEPT ![d] = Over(d)]
        BY <1>0, <4>2, OneMoves, OverFields
      <4> QED
        BY <2>4, <4>1, <4>2 DEF EndSessions
    <3> QED
      BY <3>1, <3>2 DEF CallMoves, PastEnding
  <2> QED
    BY <2>1, <2>2, <2>3, <2>4 DEF Request
<1> QED
  BY <1>0, <1>1, <1>2, <1>3 DEF CallMoves

\* The beginnings of calls, the ticker and the backend's late answers.
LEMMA OtherCalls ==
    ASSUME Typed, Typed',
           \/ \E d \in Calls : \E kind \in {"rotate", "disable"} : BeginCall(d, kind)
           \/ Tick \/ StopTicker \/ FreezeOnStop \/ Advance
           \/ \E doc \in late : ServeLate(doc)
    PROVE  /\ \A c \in Calls : CallMoves(c)
           /\ SessionsEnd
           /\ IntentMoves
<1>1. SessionsEnd
  BY DEF BeginCall, Tick, StopTicker, FreezeOnStop, Advance, ServeLate, guestVars, SessionsEnd
<1>2. IntentMoves
  BY DEF BeginCall, Tick, StopTicker, FreezeOnStop, Advance, ServeLate, device, IntentMoves,
         Begins
<1>3. ASSUME NEW c \in Calls PROVE CallMoves(c)
  <2>0. c \in Tasks /\ c # Ticker /\ Ticker \in Tasks
    BY AccessConstants DEF Tasks
  <2>1. ASSUME NEW d \in Calls, NEW kind \in {"rotate", "disable"}, BeginCall(d, kind)
        PROVE  CallMoves(c)
    <3>1. CASE c # d
      BY <2>0, <2>1, <3>1 DEF BeginCall, Typed, CallMoves
    <3>2. CASE c = d
      <4>1. task'[c] = [Idle EXCEPT !.pc = kind, !.kind = kind, !.epoch = intent.current + 1]
        BY <2>0, <2>1, <3>2 DEF BeginCall, Typed
      <4>2. /\ task'[c].pc = kind /\ task'[c].kind = kind
            /\ task'[c].epoch = intent.current + 1
        BY <4>1 DEF Idle
      <4>3. kind = "disable" => ~intent'.enabled
        BY <2>1 DEF BeginCall, Begins
      <4> QED
        BY <2>1, <3>2, <4>2, <4>3 DEF BeginCall, At, CallMoves
    <3> QED
      BY <3>1, <3>2
  <2>2. CASE Tick \/ StopTicker \/ FreezeOnStop
    BY <2>0, <2>2 DEF Tick, StopTicker, FreezeOnStop, To, Typed, CallMoves
  <2>3. CASE Advance \/ \E doc \in late : ServeLate(doc)
    BY <2>3 DEF Advance, ServeLate, CallMoves
  <2> QED
    BY <2>1, <2>2, <2>3
<1> QED
  BY <1>1, <1>2, <1>3

\* The guests' own steps.
LEMMA GuestsTable ==
    ASSUME Typed, GuestsTyped, GuestsTyped', EpochInv, TableInv, NEW s \in Sessions, Guest(s)
    PROVE  TableInv'
<1>1. GuestMoves(s) /\ intent' = intent
  BY GuestStep
<1>2. intent.current \in Nat
  BY DEF Typed, Intent
<1>3. ASSUME NEW u \in Sessions
      PROVE  /\ stage'[u] \in {"none", "inspected"} => guests'[u] = NoGuest
             /\ stage'[u] \in {"admitted", "pending", "approved", "confirmed", "granted"} =>
                   guests'[u] # NoGuest
             /\ guests'[u].at <= intent.current
  <2>1. CASE u # s
    BY <1>1, <2>1 DEF GuestMoves, TableInv
  <2>2. CASE u = s
    BY <1>1, <1>2, <2>2 DEF GuestMoves, TableInv, NoGuest
  <2> QED
    BY <2>1, <2>2
<1> QED
  BY <1>1, <1>3 DEF TableInv

LEMMA GuestsDisable ==
    ASSUME Typed, GuestsTyped, EpochInv, TableInv, DisableInv, NEW s \in Sessions, Guest(s)
    PROVE  DisableInv'
<1>1. GuestMoves(s) /\ intent' = intent /\ task' = task
  BY GuestStep
<1> SUFFICES ASSUME NEW c \in Calls, task[c].kind = "disable", NEW u \in Sessions
             PROVE  EndedBy(c, u)'
  BY <1>1 DEF DisableInv
<1>2. /\ EndedBy(c, u)
      /\ task[c].epoch = intent.current => ~intent.enabled
      /\ task[c].epoch <= intent.current
      /\ intent.current \in Nat /\ task[c].epoch \in Nat
  BY TaskTypes DEF DisableInv, EpochInv, Typed, Intent, Tasks
<1>3. CASE u # s
  BY <1>1, <1>2, <1>3 DEF GuestMoves, EndedBy
<1>4. CASE u = s
  <2>1. CASE guests'[s] = NoGuest
    BY <1>4, <2>1 DEF EndedBy
  <2>2. CASE guests'[s].at = intent.current /\ intent.enabled
    BY <1>1, <1>2, <1>4, <2>2 DEF EndedBy
  <2>3. CASE guests'[s] = guests[s] /\ stage'[s] \in {"over", stage[s]}
    BY <1>1, <1>2, <1>4, <2>3 DEF EndedBy
  <2>4. CASE stage[s] = "none" /\ guests'[s] = guests[s]
    BY <2>1, <2>4 DEF TableInv
  <2>5. CASE /\ stage[s] \in {"admitted", "pending", "approved", "confirmed"}
             /\ guests'[s] # NoGuest /\ guests'[s].at = guests[s].at
    <3>1. guests[s] # NoGuest /\ stage[s] # "over"
      BY <2>5 DEF TableInv
    <3> QED
      BY <1>1, <1>2, <1>4, <2>5, <3>1 DEF EndedBy
  <2> QED
    BY <1>1, <2>1, <2>2, <2>3, <2>4, <2>5 DEF GuestMoves
<1> QED
  BY <1>3, <1>4

\* A process that starts again knows no guest and no call.
LEMMA RestartGuests ==
    ASSUME Typed, GuestsTyped, Restart
    PROVE  TableInv' /\ DisableInv'
<1>1. \A s \in Sessions : guests'[s] = NoGuest /\ stage'[s] \in {"none", "over"}
  BY DEF Restart
<1>2. intent'.current = 0 /\ \A c \in Calls : task'[c].kind = "tick"
  BY DEF Restart, FirstIntent, Idle, Tasks
<1> QED
  BY <1>1, <1>2 DEF TableInv, DisableInv, NoGuest

-----------------------------------------------------------------------------
(* The mutex.                                                                *)

\* A task that holds the mutex, or takes it when it is free, keeps or drops it.
LEMMA MutexMoves ==
    ASSUME Typed, Mutex, NEW t \in Tasks,
           operation \in {t, Nobody},
           \A u \in Tasks : u # t => task'[u].pc = task[u].pc,
           \/ operation' = t /\ task'[t].pc \in Holding
           \/ operation' = Nobody /\ task'[t].pc \notin Holding
    PROVE  Mutex'
BY NobodyAssumption DEF Mutex

\* A task outside update() stays outside.
LEMMA MutexStays ==
    ASSUME Typed, Mutex, NEW t \in Tasks, operation' = operation,
           \A u \in Tasks : u # t => task'[u].pc = task[u].pc,
           task[t].pc \in Holding <=> task'[t].pc \in Holding
    PROVE  Mutex'
BY DEF Mutex

LEMMA ReturnMutex ==
    ASSUME Typed, Mutex, NEW t \in Tasks, operation \in {t, Nobody}, Return(t)
    PROVE  Mutex'
<1>1. /\ task'[t] = Over(t) /\ operation' = Nobody
      /\ \A u \in Tasks : u # t => task'[u] = task[u]
  BY OneMoves DEF Return
<1>2. task'[t].pc \notin Holding
  BY <1>1, OverFields DEF Holding
<1> QED
  BY <1>1, <1>2, MutexMoves

LEMMA UpdateMutex ==
    ASSUME Typed, Mutex, NEW t \in Tasks, Update(t) \/ Serve(t) \/ Timeout(t)
    PROVE  Mutex'
<1>1. operation \in {t, Nobody}
  BY DEF Update, Superseded, Acquire, Apply, Draft, Post, Settle, Serve, Metadata,
         ServePublish, Timeout, At, Mutex, Holding
<1>2. CASE ~Return(t)
  <2>1. \A u \in Tasks : u # t => task'[u] = task[u]
    BY <1>2 DEF Update, Superseded, Acquire, Apply, Draft, Post, Settle, Serve, Metadata,
                ServePublish, Timeout, To, Typed
  <2>2. CASE Acquire(t)
    <3>1. operation' = t /\ task'[t].pc \in {"fetching", "draft"}
      BY <1>2, <2>2 DEF Acquire, Typed, TaskRecord
    <3> QED
      BY <1>1, <2>1, <3>1, MutexMoves DEF Holding
  <2>3. CASE ~Acquire(t)
    <3>1. /\ operation' = operation
          /\ task'[t].pc \in {"fetched", "draft", "signed", "posted", "acked"}
      <4>1. CASE Apply(t)
        BY <1>2, <4>1 DEF Apply, Typed, TaskRecord
      <4>2. CASE Draft(t)
        BY <1>2, <4>2 DEF Draft, Typed, TaskRecord
      <4>3. CASE Post(t) \/ ServePublish(t) \/ Metadata(t)
        BY <1>2, <4>3 DEF Post, ServePublish, Metadata, To, Typed, TaskRecord
      <4> QED
        BY <1>2, <2>3, <4>1, <4>2, <4>3 DEF Update, Superseded, Settle, Serve, Timeout
    <3>2. task[t].pc \in Holding
      BY <1>2, <2>3 DEF Update, Superseded, Apply, Draft, Post, Settle, Serve, Metadata,
                        ServePublish, Timeout, At, Holding
    <3> QED
      BY <2>1, <3>1, <3>2, MutexStays DEF Holding
  <2> QED
    BY <2>2, <2>3
<1> QED
  BY <1>1, <1>2, ReturnMutex

LEMMA RequestMutex ==
    ASSUME Typed, Mutex, NEW c \in Calls,
           Request(c) \/ \E kind \in {"rotate", "disable"} : BeginCall(c, kind)
    PROVE  Mutex'
<1>0. c \in Tasks /\ operation' = operation
  BY DEF Tasks, Request, Suppress, CheckIntent, Freeze, RevokeRecords, EndSessions, BeginCall
<1>1. \A u \in Tasks : u # c => task'[u] = task[u]
  BY <1>0 DEF Request, Suppress, CheckIntent, Freeze, RevokeRecords, EndSessions, BeginCall,
              To, Typed
<1>2. task[c].pc \notin Holding
  BY DEF Request, Suppress, CheckIntent, Freeze, RevokeRecords, EndSessions, BeginCall, At,
         Holding
<1>3. task'[c].pc \notin Holding
  <2>1. CASE task' = [task EXCEPT ![c] = Over(c)]
    BY <1>0, <2>1, OneMoves, OverFields DEF Holding
  <2>2. ASSUME NEW pc \in {"want", "freezing", "raced", "ending"}, To(c, pc)
        PROVE  task'[c].pc \notin Holding
    BY <1>0, <2>2 DEF To, Holding, Typed, TaskRecord
  <2>3. ASSUME NEW pc \in {"want", "revoking"}, NEW left,
               task' = [task EXCEPT ![c].pc = pc, ![c].left = left]
        PROVE  task'[c].pc \notin Holding
    BY <1>0, <2>3 DEF Holding, Typed, TaskRecord
  <2>4. ASSUME NEW kind \in {"rotate", "disable"}, BeginCall(c, kind)
        PROVE  task'[c].pc \notin Holding
    BY <1>0, <2>4 DEF BeginCall, Idle, Holding, Typed
  <2>5. CASE Suppress(c)
    BY <2>1, <2>2, <2>5 DEF Suppress
  <2>6. CASE CheckIntent(c) \/ Freeze(c) \/ RevokeRecords(c)
    BY <2>2, <2>3, <2>6 DEF CheckIntent, Freeze, RevokeRecords
  <2>7. CASE EndSessions(c)
    BY <2>1, <2>3, <2>7 DEF EndSessions
  <2> QED
    BY <2>4, <2>5, <2>6, <2>7 DEF Request
<1> QED
  BY <1>0, <1>1, <1>2, <1>3, MutexStays

LEMMA OthersMutex ==
    ASSUME Typed, Mutex,
           \/ \E s \in Sessions : Guest(s)
           \/ \E doc \in late : ServeLate(doc)
           \/ Tick \/ StopTicker \/ FreezeOnStop \/ Restart \/ Advance
    PROVE  Mutex'
<1>0. Ticker \in Tasks
  BY DEF Tasks
<1>1. CASE (\E s \in Sessions : Guest(s)) \/ (\E doc \in late : ServeLate(doc)) \/ Advance
  <2>1. task' = task /\ operation' = operation
    BY <1>1 DEF Guest, TryPassword, CreateRequest, Inspect, Admit, OpenRecord, Approve,
                Confirm, Install, Close, ServeLate, Advance
  <2> QED
    BY <2>1 DEF Mutex
<1>2. CASE Tick
  <2>1. /\ operation' = operation /\ task[Ticker].pc \notin Holding
        /\ task'[Ticker].pc \notin Holding
        /\ \A u \in Tasks : u # Ticker => task'[u] = task[u]
    BY <1>0, <1>2 DEF Tick, At, Idle, Holding, Typed
  <2> QED
    BY <1>0, <2>1, MutexStays
<1>3. CASE StopTicker
  <2>1. /\ task'[Ticker].pc \notin Holding
        /\ \A u \in Tasks : u # Ticker => task'[u] = task[u]
    BY <1>0, <1>3 DEF StopTicker, Idle, Holding, Typed
  <2>2. operation' = IF operation = Ticker THEN Nobody ELSE operation
    BY <1>3 DEF StopTicker
  <2> QED
    BY <1>0, <2>1, <2>2, NobodyAssumption DEF Mutex
<1>4. CASE FreezeOnStop
  <2>1. /\ operation' = operation /\ task[Ticker].pc \notin Holding
        /\ task'[Ticker].pc \notin Holding
        /\ \A u \in Tasks : u # Ticker => task'[u] = task[u]
    BY <1>0, <1>4 DEF FreezeOnStop, At, To, Holding, Typed, TaskRecord
  <2> QED
    BY <1>0, <2>1, MutexStays
<1>5. CASE Restart
  BY <1>5, NobodyAssumption DEF Restart, Mutex, Idle, Holding
<1> QED
  BY <1>1, <1>2, <1>3, <1>4, <1>5

-----------------------------------------------------------------------------
(* The lives of the process and their secrets.                               *)

\* Where the secrets of a step come from.
SecretsMove ==
    /\ local'.secret \in {local.secret, NoSecret, <<life, local'.gen>>}
    /\ \/ row' = row
       \/ row' \in late
       \/ \E t \in Tasks : row' = task[t].doc
    /\ late' \subseteq late \cup {task[t].doc : t \in Tasks}
    /\ \A t \in Tasks :
          task'[t].doc.secret \in {task[t].doc.secret, row.secret, NoSecret, local'.secret}

LEMMA LivesMove ==
    ASSUME Typed, Typed', LivesInv, SecretsMove,
           \/ life' = life /\ faults' = faults
           \/ life' = life /\ faults < MaxFaults /\ faults' = faults + 1
           \/ life' = life + 1 /\ faults < MaxFaults /\ faults' = faults + 1
    PROVE  LivesInv'
<1>1. MaxFaults \in Nat /\ faults \in 0 .. MaxFaults /\ life \in 1 .. faults + 1
  BY AccessConstants DEF LivesInv
<1>2. faults' \in 0 .. MaxFaults /\ life' \in 1 .. faults' + 1
  BY <1>1
<1>3. life \in 0 .. MaxFaults + 1 /\ local'.gen \in Nat
  BY <1>1 DEF Typed, Password
<1>4. NoSecret \in Secrets /\ <<life, local'.gen>> \in Secrets
  BY <1>1, <1>3 DEF NoSecret, Secrets
<1>5. local'.secret \in Secrets
  BY <1>4 DEF SecretsMove, LivesInv
<1>6. row'.secret \in Secrets
  BY DEF SecretsMove, LivesInv
<1>7. \A d \in late' : d.secret \in Secrets
  BY DEF SecretsMove, LivesInv
<1>8. \A t \in Tasks : task'[t].doc.secret \in Secrets
  BY <1>4, <1>5 DEF SecretsMove, LivesInv
<1> QED
  BY <1>2, <1>5, <1>6, <1>7, <1>8 DEF LivesInv

LEMMA OverSecret ==
    ASSUME Typed, NEW t \in Tasks, task' = [task EXCEPT ![t] = Over(t)]
    PROVE  \A u \in Tasks : task'[u].doc.secret \in {task[u].doc.secret, NoSecret}
<1>1. Over(t).doc.secret = NoSecret
  BY DEF Over, Idle, NoDocument
<1> QED
  BY <1>1, OneMoves

LEMMA UpdateLives ==
    ASSUME Typed, Typed', LivesInv, NEW t \in Tasks, Update(t) \/ Serve(t) \/ Timeout(t)
    PROVE  LivesInv'
<1>1. /\ late' \subseteq late \cup {task[u].doc : u \in Tasks}
      /\ row' = row \/ row' = task[t].doc
      /\ life' = life
      /\ faults' = faults \/ (faults < MaxFaults /\ faults' = faults + 1)
  <2>1. CASE Update(t)
    BY <2>1 DEF Update, Superseded, Acquire, Apply, Draft, Post, Settle, backend, world
  <2>2. CASE Serve(t)
    BY <2>2 DEF Serve, Metadata, ServePublish, Publish, backend, world
  <2>3. CASE Timeout(t)
    BY <2>3 DEF Timeout, Abandoned
  <2> QED
    BY <2>1, <2>2, <2>3
<1>2. local'.secret \in {local.secret, NoSecret, <<life, local'.gen>>}
  <2>1. CASE Apply(t)
    <3> DEFINE applied == [local EXCEPT !.applied = task[t].epoch]
    <3>1. applied \in Password
      BY PasswordTypes, TaskTypes DEF Typed
    <3>2. PICK gen \in Nat :
             \/ local' = Marked([Frozen(applied) EXCEPT !.gen = gen], gen, 0)
             \/ local' = [Frozen(applied) EXCEPT !.gen = gen]
             \/ local' = Rotated(applied, gen, task[t].at)
      <4>1. NextGeneration(task[t].doc) \in Nat /\ task[t].doc.gen \in Nat
        BY TaskTypes DEF NextGeneration, Larger, Typed, Password
      <4> QED
        BY <2>1, <4>1 DEF Apply
    <3> HIDE DEF applied
    <3>3. CASE local' = Marked([Frozen(applied) EXCEPT !.gen = gen], gen, 0)
      BY <3>3 DEF Marked, Frozen, Fresh
    <3>4. CASE local' = [Frozen(applied) EXCEPT !.gen = gen]
      BY <3>4 DEF Frozen, Fresh
    <3>5. CASE local' = Rotated(applied, gen, task[t].at)
      BY <3>1, <3>5 DEF Rotated, Password
    <3> QED
      BY <3>2, <3>3, <3>4, <3>5
  <2>2. CASE Draft(t)
    BY <2>2 DEF Draft, Renewed, Typed, Password
  <2>3. CASE Settle(t)
    BY <2>3 DEF Settle, Marked, Typed, Password
  <2> QED
    BY <2>1, <2>2, <2>3 DEF Update, Superseded, Acquire, Post, Serve, Metadata, ServePublish,
                            Timeout, device
<1>3. \A u \in Tasks :
         task'[u].doc.secret \in {task[u].doc.secret, row.secret, NoSecret, local'.secret}
  <2>1. CASE Return(t)
    BY <2>1, OverSecret DEF Return
  <2>2. CASE ~Return(t)
    <3>1. CASE Acquire(t) \/ Post(t) \/ ServePublish(t)
      BY <2>2, <3>1 DEF Acquire, Post, ServePublish, To, Typed, TaskRecord
    <3>2. CASE Apply(t)
      <4>1. task' = [task EXCEPT ![t].pc = "draft", ![t].doc = NoDocument]
        BY <2>2, <3>2 DEF Apply
      <4> QED
        BY <4>1 DEF NoDocument, Typed, TaskRecord
    <3>3. CASE Draft(t)
      <4>1. task' = [task EXCEPT ![t].pc = "signed", ![t].at = 0, ![t].doc = DocumentOf(local')]
        BY <2>2, <3>3 DEF Draft
      <4> QED
        BY <4>1 DEF DocumentOf, Typed, TaskRecord
    <3>4. CASE Metadata(t)
      BY <3>4 DEF Metadata, Typed, TaskRecord
    <3> QED
      BY <2>2, <3>1, <3>2, <3>3, <3>4 DEF Update, Superseded, Settle, Serve, Timeout
  <2> QED
    BY <2>1, <2>2
<1>4. SecretsMove
  BY <1>1, <1>2, <1>3 DEF SecretsMove
<1> QED
  BY <1>1, <1>4, LivesMove

LEMMA RequestLives ==
    ASSUME Typed, Typed', LivesInv, NEW c \in Calls,
           Request(c) \/ \E kind \in {"rotate", "disable"} : BeginCall(c, kind)
    PROVE  LivesInv'
<1>0. c \in Tasks
  BY DEF Tasks
<1>1. /\ late' = late /\ row' = row /\ life' = life
      /\ faults' = faults \/ (faults < MaxFaults /\ faults' = faults + 1)
  BY DEF Request, Suppress, CheckIntent, Freeze, RevokeRecords, EndSessions, BeginCall,
         backend, world
<1>2. local'.secret \in {local.secret, NoSecret}
  <2>1. CASE Suppress(c)
    BY <2>1 DEF Suppress, Invalidated, Typed, Password
  <2>2. CASE Freeze(c)
    BY <2>2 DEF Freeze, Frozen, Fresh
  <2> QED
    BY <2>1, <2>2 DEF Request, CheckIntent, RevokeRecords, EndSessions, BeginCall, device
<1>3. \A u \in Tasks : task'[u].doc.secret \in {task[u].doc.secret, NoSecret}
  <2>1. CASE task' = [task EXCEPT ![c] = Over(c)]
    BY <1>0, <2>1, OverSecret
  <2>2. ASSUME NEW pc, To(c, pc)
        PROVE  \A u \in Tasks : task'[u].doc.secret \in {task[u].doc.secret, NoSecret}
    BY <1>0, <2>2 DEF To, Typed, TaskRecord
  <2>3. ASSUME NEW pc, NEW left, task' = [task EXCEPT ![c].pc = pc, ![c].left = left]
        PROVE  \A u \in Tasks : task'[u].doc.secret \in {task[u].doc.secret, NoSecret}
    BY <1>0, <2>3 DEF Typed, TaskRecord
  <2>4. ASSUME NEW kind \in {"rotate", "disable"}, BeginCall(c, kind)
        PROVE  \A u \in Tasks : task'[u].doc.secret \in {task[u].doc.secret, NoSecret}
    BY <1>0, <2>4 DEF BeginCall, Idle, NoDocument, Typed
  <2>5. CASE Suppress(c)
    BY <2>1, <2>2, <2>5 DEF Suppress
  <2>6. CASE CheckIntent(c) \/ Freeze(c) \/ RevokeRecords(c)
    BY <2>2, <2>3, <2>6 DEF CheckIntent, Freeze, RevokeRecords
  <2>7. CASE EndSessions(c)
    BY <2>1, <2>3, <2>7 DEF EndSessions
  <2> QED
    BY <2>4, <2>5, <2>6, <2>7 DEF Request
<1>4. SecretsMove
  BY <1>1, <1>2, <1>3 DEF SecretsMove
<1> QED
  BY <1>1, <1>4, LivesMove

LEMMA OthersLives ==
    ASSUME Typed, Typed', LivesInv,
           \/ \E s \in Sessions : Guest(s)
           \/ \E doc \in late : ServeLate(doc)
           \/ Tick \/ StopTicker \/ FreezeOnStop \/ Restart \/ Advance
    PROVE  LivesInv'
<1>0. Ticker \in Tasks
  BY DEF Tasks
<1>1. CASE (\E s \in Sessions : Guest(s)) \/ (\E doc \in late : ServeLate(doc)) \/ Advance
  <2>1. /\ task' = task /\ local' = local /\ life' = life /\ faults' = faults
        /\ late' \subseteq late /\ (row' = row \/ row' \in late)
    BY <1>1 DEF Guest, TryPassword, CreateRequest, Inspect, Admit, OpenRecord, Approve,
                Confirm, Install, Close, ServeLate, Publish, Advance, device, guestVars,
                backend, world
  <2> QED
    BY <2>1, LivesMove DEF SecretsMove
<1>2. CASE Tick \/ StopTicker \/ FreezeOnStop
  <2>1. /\ life' = life /\ faults' = faults /\ row' = row
        /\ local'.secret \in {local.secret, NoSecret}
    BY <1>2 DEF Tick, StopTicker, FreezeOnStop, device, backend, world, Frozen, Fresh
  <2>2. late' \subseteq late \cup {task[t].doc : t \in Tasks}
    <3>1. late' = late \/ late' = late \cup Abandoned({Ticker})
      BY <1>2 DEF Tick, StopTicker, FreezeOnStop, backend
    <3> QED
      BY <1>0, <3>1 DEF Abandoned
  <2>3. \A u \in Tasks : task'[u].doc.secret \in {task[u].doc.secret, NoSecret}
    <3>1. CASE Tick \/ StopTicker
      <4>1. PICK pc, epoch : task' = [task EXCEPT ![Ticker] =
                                       [Idle EXCEPT !.pc = pc, !.epoch = epoch]]
        BY <3>1 DEF Tick, StopTicker
      <4>2. task'[Ticker].doc = NoDocument
        BY <1>0, <4>1 DEF Idle, Typed
      <4> QED
        BY <1>0, <4>1, <4>2, OneMoves DEF NoDocument
    <3>2. CASE FreezeOnStop
      BY <1>0, <3>2 DEF FreezeOnStop, To, Typed, TaskRecord
    <3> QED
      BY <1>2, <3>1, <3>2
  <2>4. SecretsMove
    BY <2>1, <2>2, <2>3 DEF SecretsMove
  <2> QED
    BY <2>1, <2>4, LivesMove
<1>3. CASE Restart
  <2>1. /\ local'.secret = NoSecret /\ row' = row
        /\ late' \subseteq late \cup {task[t].doc : t \in Tasks}
        /\ \A u \in Tasks : task'[u].doc.secret = NoSecret
    BY <1>3 DEF Restart, Fresh, Idle, NoDocument, Abandoned
  <2>2. SecretsMove
    BY <2>1 DEF SecretsMove
  <2> QED
    BY <1>3, <2>2, LivesMove DEF Restart
<1> QED
  BY <1>1, <1>2, <1>3

-----------------------------------------------------------------------------
(* The invariant.                                                            *)

AccessInv ==
    /\ Typed /\ GuestsTyped /\ Mutex /\ LivesInv
    /\ PublicationInv /\ EpochInv /\ TableInv /\ DisableInv

\* The device starts with a fresh state and nothing published.
LEMMA AccessInit == Init => AccessInv
<1> SUFFICES ASSUME Init PROVE AccessInv
  OBVIOUS
<1> USE DEF Init
<1>1. Typed
  BY ConstantTypes DEF Typed
<1>2. GuestsTyped /\ TableInv
  BY DEF GuestsTyped, TableInv, NoGuest, NoRequest, Entry, Stages, Statuses, FirstIntent
<1>3. Mutex
  BY NobodyAssumption DEF Mutex, Idle, Holding
<1>4. LivesInv
  <2>1. NoSecret \in Secrets /\ MaxFaults \in Nat
    BY AccessConstants DEF NoSecret, Secrets
  <2> QED
    BY <2>1 DEF LivesInv, Fresh, NoDocument, Idle
<1>5. PublicationInv
  BY DEF PublicationInv, Ours, SecretOf, Fresh, NoDocument, Idle
<1>6. EpochInv
  BY DEF EpochInv, EpochCurrent, Current, Fresh, FirstIntent, Idle
<1>7. DisableInv
  BY DEF DisableInv, Idle, Tasks
<1> QED
  BY <1>1, <1>2, <1>3, <1>4, <1>5, <1>6, <1>7 DEF AccessInv

\* Every step keeps it.
LEMMA AccessStep == AccessInv /\ [Next]_vars => AccessInv'
<1> SUFFICES ASSUME AccessInv, [Next]_vars PROVE AccessInv'
  OBVIOUS
<1> USE DEF AccessInv
<1>1. CASE UNCHANGED vars
  BY <1>1 DEF vars, Typed, GuestsTyped, Mutex, LivesInv, PublicationInv, EpochInv, TableInv,
              DisableInv, Ours, SecretOf, Stored, EpochCurrent, Current, EndedBy
<1>2. CASE \E t \in Tasks : Update(t) \/ Serve(t) \/ Timeout(t)
  <2>1. PICK t \in Tasks : Update(t) \/ Serve(t) \/ Timeout(t)
    BY <1>2
  <2>2. Typed'
    BY <2>1, UpdateTyped, ServeTyped, TimeoutTyped
  <2>3. GuestsTyped'
    BY <2>1, StepGuestsTyped DEF Next
  <2>4. Mutex' /\ LivesInv'
    BY <2>1, <2>2, UpdateMutex, UpdateLives
  <2>5. PublicationInv'
    BY <2>1, <2>2, UpdatePublishes, ServePublishes, TimeoutPublishes
  <2>6. EpochInv'
    BY <2>1, <2>2, UpdateEpochs, ServeEpochs
  <2>7. SessionsEnd /\ IntentMoves
    BY <2>1 DEF Update, Superseded, Acquire, Apply, Draft, Post, Settle, Serve, Metadata,
                ServePublish, Timeout, guestVars, device, SessionsEnd, IntentMoves
  <2>8. \A c \in Calls : CallMoves(c)
    BY <2>1, <2>2, UpdateCalls
  <2> QED
    BY <2>2, <2>3, <2>4, <2>5, <2>6, <2>7, <2>8, TasksTable, TasksDisable
<1>3. CASE \E c \in Calls : Request(c)
  <2>1. PICK c \in Calls : Request(c)
    BY <1>3
  <2>2. Typed' /\ GuestsTyped'
    BY <2>1, RequestTyped, StepGuestsTyped DEF Next
  <2>3. Mutex' /\ LivesInv' /\ PublicationInv' /\ EpochInv'
    BY <2>1, <2>2, RequestMutex, RequestLives, RequestPublishes, RequestEpochs
  <2>4. /\ \A d \in Calls : CallMoves(d)
        /\ SessionsEnd /\ IntentMoves
    BY <2>1, <2>2, RequestCalls DEF IntentMoves
  <2> QED
    BY <2>2, <2>3, <2>4, TasksTable, TasksDisable
<1>4. CASE \/ \E c \in Calls : \E kind \in {"rotate", "disable"} : BeginCall(c, kind)
           \/ Tick \/ StopTicker \/ FreezeOnStop
  <2>1. Typed' /\ GuestsTyped'
    BY <1>4, BeginCallTyped, TickerTyped, StepGuestsTyped DEF Next
  <2>2. Mutex' /\ LivesInv' /\ PublicationInv' /\ EpochInv'
    BY <1>4, <2>1, RequestMutex, OthersMutex, RequestLives, OthersLives, BeginningsPublish,
       BeginningsEpochs
  <2>3. /\ \A d \in Calls : CallMoves(d)
        /\ SessionsEnd /\ IntentMoves
    BY <1>4, <2>1, OtherCalls
  <2> QED
    BY <2>1, <2>2, <2>3, TasksTable, TasksDisable
<1>5. CASE (\E doc \in late : ServeLate(doc)) \/ Advance
  <2>1. Typed' /\ GuestsTyped'
    BY <1>5, OthersTyped, StepGuestsTyped DEF Next
  <2>2. Mutex' /\ LivesInv' /\ PublicationInv' /\ EpochInv'
    BY <1>5, <2>1, OthersMutex, OthersLives, OthersPublish, OthersEpochs
  <2>3. /\ \A d \in Calls : CallMoves(d)
        /\ SessionsEnd /\ IntentMoves
    BY <1>5, <2>1, OtherCalls
  <2> QED
    BY <2>1, <2>2, <2>3, TasksTable, TasksDisable
<1>6. CASE \E s \in Sessions : Guest(s)
  <2>1. Typed' /\ GuestsTyped'
    BY <1>6, OthersTyped, StepGuestsTyped DEF Next
  <2>2. Mutex' /\ LivesInv' /\ PublicationInv' /\ EpochInv'
    BY <1>6, <2>1, OthersMutex, OthersLives, OthersPublish, OthersEpochs
  <2>3. TableInv' /\ DisableInv'
    BY <1>6, <2>1, GuestsTable, GuestsDisable
  <2> QED
    BY <2>1, <2>2, <2>3
<1>7. CASE Restart
  <2>1. Typed' /\ GuestsTyped'
    BY <1>7, RestartTyped, StepGuestsTyped DEF Next
  <2>2. Mutex' /\ LivesInv' /\ PublicationInv' /\ EpochInv'
    BY <1>7, <2>1, OthersMutex, OthersLives, OthersPublish, OthersEpochs
  <2>3. TableInv' /\ DisableInv'
    BY <1>7, RestartGuests
  <2> QED
    BY <2>1, <2>2, <2>3
<1> QED
  BY <1>1, <1>2, <1>3, <1>4, <1>5, <1>6, <1>7 DEF Next

\* The invariant holds of every behaviour of the device and the backend.
THEOREM AccessInvariant == Spec => []AccessInv
<1>1. Init => AccessInv
  BY AccessInit
<1>2. AccessInv /\ [Next]_vars => AccessInv'
  BY AccessStep
<1> QED
  BY <1>1, <1>2, PTL DEF Spec

\* The types of the password state, the rows and the tasks; secrets stem from
\* as many lives as there were restarts, and temporary_operation is held by
\* one task, which is inside update().
THEOREM AccessTypes == Spec => []TypeOK
<1>1. AccessInv => TypeOK
  <2> SUFFICES ASSUME AccessInv PROVE TypeOK
    OBVIOUS
  <2>1. local \in [enabled : BOOLEAN, applied : Nat, rotate : BOOLEAN, gen : Nat,
                   pubGen : Nat, pubExp : Nat, exp : Nat, secret : Secrets]
    BY DEF AccessInv, Typed, Password, LivesInv
  <2>2. row \in [gen : Nat, enabled : BOOLEAN, exp : Nat, secret : Secrets]
    BY DEF AccessInv, Typed, Document, LivesInv
  <2> QED
    BY <2>1, <2>2 DEF TypeOK, AccessInv, Typed, Intent, GuestsTyped, Entry, Mutex, Holding
<1> QED
  BY <1>1, AccessInvariant, PTL

\* What status() shows as ready is what the backend verifies, under a lease at
\* least as long: whatever was abandoned, renewed or overtaken on the way, as
\* long as the process has not been restarted.
THEOREM ReadyServed == Spec => []ReadyIsServed
<1>1. AccessInv => ReadyIsServed
  <2> SUFFICES ASSUME AccessInv, Ready, life = 1
               PROVE  /\ row.enabled /\ row.gen = local.gen
                      /\ row.secret = local.secret /\ local.pubExp <= row.exp
    BY DEF ReadyIsServed
  <2>1. local.enabled /\ local.gen > 0 /\ local.pubGen = local.gen
    BY DEF Ready, Enabled
  <2>2. row.enabled /\ row.gen = local.gen /\ local.pubExp <= row.exp
    BY <2>1 DEF AccessInv, PublicationInv
  <2>3. row.secret = local.secret
    BY <2>1, <2>2 DEF AccessInv, PublicationInv, Ours, SecretOf
  <2> QED
    BY <2>2, <2>3
<1> QED
  BY <1>1, AccessInvariant, PTL

\* Once a refresh, a disable or the shutdown has begun, the password in use
\* before it is never ready again, whatever update() runs are under way.
THEOREM RefreshIsFinal == Spec => []RefreshedNeverShown
<1>1. AccessInv => RefreshedNeverShown
  BY DEF AccessInv, EpochInv, RefreshedNeverShown, Ready, Enabled
<1> QED
  BY <1>1, AccessInvariant, PTL

\* A disable that has ended its sessions leaves no guest granted that was
\* admitted before it: no approval in flight, no later refresh brings one back.
THEOREM DisableIsFinal == Spec => []DisableEndsGuests
<1>1. AccessInv => DisableEndsGuests
  <2> SUFFICES ASSUME AccessInv, NEW c \in Calls, task[c].kind = "disable",
                      task[c].pc \in PastEnding, NEW s \in Sessions, stage[s] = "granted"
               PROVE  guests[s].at > task[c].epoch
    BY DEF DisableEndsGuests
  <2>1. guests[s] # NoGuest /\ EndedBy(c, s)
    BY DEF AccessInv, TableInv, DisableInv
  <2>2. guests[s].at # task[c].epoch /\ ~(guests[s].at < task[c].epoch)
    BY <2>1 DEF EndedBy
  <2>3. guests[s].at \in Nat /\ task[c].epoch \in Nat
    BY TaskTypes DEF AccessInv, GuestsTyped, Entry, Tasks
  <2> QED
    BY <2>2, <2>3
<1> QED
  BY <1>1, AccessInvariant, PTL

=============================================================================
