-------------------------- MODULE WanServiceProofs --------------------------
(***************************************************************************)
(* What the WAN coordinator and service keep true for any number of        *)
(* sessions, entries and tasks, any limits of the registry and any faults. *)
(***************************************************************************)
EXTENDS WanService, TLAPS, FiniteSetTheorems, SequenceTheorems

-----------------------------------------------------------------------------
(* Sessions as a set of records, which is the form the provers work with.  *)

AnyPayload == (UNION {Payloads(k) : k \in EventKinds}) \cup {None}

Shape ==
    [role: Roles, deadline: Nat, key: Keys \cup {None}, phase: Phases,
     bound: [EventKinds -> AnyPayload]]

Typed(st) ==
    /\ st \in Shape
    /\ \A k \in EventKinds : st.bound[k] \in Payloads(k) \cup {None}

Verified == {"RelayVerified", "Streaming"}

\* What a call of apply may do to a session, as far as the coordinator cares:
\* a session that has ended stays as it is, any other may end or take the step
\* that the event is for.
ApplyFacts(st, nst, kind, arg, time) ==
    /\ Typed(nst)
    /\ nst.role = st.role /\ nst.deadline = st.deadline /\ nst.key = st.key
    /\ Terminal(st) => nst = st
    /\ nst = st \/ nst.phase = kind \/ nst.phase = "Failed"
    /\ nst.bound["Granted"] # st.bound["Granted"] => kind = "Granted"
    /\ nst.phase \in Verified =>
         st.phase \in Verified \/ (kind = "RelayVerified" /\ ~Terminal(st))

\* The order of the phases, as numbers.
LEMMA RankOrder ==
    /\ Rank["Created"] = 0 /\ Rank["BackendBound"] = 1
    /\ Rank["AwaitingConsent"] = 2 /\ Rank["Granted"] = 3
    /\ Rank["AccessBound"] = 4 /\ Rank["Negotiating"] = 5
    /\ Rank["RelayVerified"] = 6 /\ Rank["Streaming"] = 7
    /\ Rank["Closed"] = 8 /\ Rank["Failed"] = 9
BY DEF Rank

\* What Accept does to each field.
LEMMA AcceptFields ==
    ASSUME NEW st, Typed(st), NEW kind \in EventKinds, NEW arg \in Payloads(kind)
    PROVE  LET nst == Accept(st, Event(kind, arg)) IN
           /\ nst.role = st.role /\ nst.deadline = st.deadline
           /\ nst.key = st.key /\ nst.phase = kind
           /\ nst.bound[kind] = arg
           /\ \A k \in EventKinds \ {kind} : nst.bound[k] = st.bound[k]
           /\ Typed(nst)
<1> DEFINE b == [st.bound EXCEPT ![kind] = arg]
<1>0. PICK nst : nst = Accept(st, Event(kind, arg))
  OBVIOUS
<1>1. nst = [st EXCEPT !.phase = kind, !.bound = b]
  BY <1>0 DEF Accept, Event
<1>a. arg \in AnyPayload
  BY DEF AnyPayload
<1>2. /\ b \in [EventKinds -> AnyPayload]
      /\ b[kind] = arg
      /\ \A k \in EventKinds \ {kind} : b[k] = st.bound[k]
  BY <1>a DEF Typed, Shape
<1> HIDE DEF b
<1>3. st \in Shape
  BY DEF Typed
<1>4. kind \in Phases
  BY DEF EventKinds
<1>5. nst \in Shape
  BY <1>1, <1>2, <1>3, <1>4, Zenon DEF Shape
<1>6. /\ nst.role = st.role /\ nst.deadline = st.deadline
      /\ nst.key = st.key /\ nst.phase = kind /\ nst.bound = b
  BY <1>1, <1>3 DEF Shape
<1>7. \A k \in EventKinds : nst.bound[k] \in Payloads(k) \cup {None}
  BY <1>2, <1>6 DEF Typed
<1> QED BY <1>0, <1>2, <1>5, <1>6, <1>7 DEF Typed

\* The early returns of apply, sorted.
LEMMA ApplyOK ==
    ASSUME NEW st, Typed(st), NEW kind \in EventKinds, NEW arg \in Payloads(kind),
           NEW time \in Nat
    PROVE  ApplyFacts(st, Apply(st, Event(kind, arg), time), kind, arg, time)
<1>0. PICK ev : ev = Event(kind, arg)
  OBVIOUS
<1>a. ev.kind = kind /\ ev.arg = arg
  BY <1>0 DEF Event
<1>b. PICK result : result = Outcome(st, ev, time)
  OBVIOUS
<1>c. PICK nst : nst = Apply(st, ev, time)
  OBVIOUS
<1>d. "Granted" \in EventKinds /\ "Failed" \in EventKinds
  BY DEF EventKinds, Phases
<1>1. result \in {"Duplicate", "Terminal", "Applied"} \cup Failures
  BY <1>b DEF Outcome, SemanticFailure, Failures
<1>2. CASE result \in {"Duplicate", "Terminal"}
  <2>1. nst = st
    BY <1>2, <1>b, <1>c DEF Apply
  <2> QED BY <2>1, <1>0, <1>c DEF ApplyFacts
<1>3. CASE result = "Applied"
  <2>1. nst = Accept(st, ev)
    BY <1>3, <1>b, <1>c DEF Apply
  <2>2. ~Terminal(st)
    BY <1>3, <1>b DEF Outcome
  <2>3. kind = "Streaming" => st.phase = "RelayVerified"
    <3> SUFFICES ASSUME kind = "Streaming" PROVE st.phase = "RelayVerified"
      OBVIOUS
    <3>1. Rank[kind] = Rank[st.phase] + 1
      BY <1>3, <1>a, <1>b DEF Outcome, TerminalPhases
    <3> QED BY <3>1, RankOrder DEF Typed, Shape, Phases
  <2>4. /\ nst.role = st.role /\ nst.deadline = st.deadline
        /\ nst.key = st.key /\ nst.phase = kind
        /\ \A k \in EventKinds \ {kind} : nst.bound[k] = st.bound[k]
        /\ Typed(nst)
    BY <1>0, <2>1, AcceptFields
  <2> QED BY <1>0, <1>c, <1>d, <2>2, <2>3, <2>4 DEF ApplyFacts, Verified
<1>4. CASE result \in Failures
  <2>1. nst = Accept(st, Event("Failed", result))
    BY <1>4, <1>b, <1>c DEF Apply, FailWith, Failures
  <2>2. ~Terminal(st)
    BY <1>4, <1>b DEF Outcome, Failures
  <2>3. result \in Payloads("Failed")
    BY <1>4 DEF Payloads
  <2>4. /\ nst.role = st.role /\ nst.deadline = st.deadline
        /\ nst.key = st.key /\ nst.phase = "Failed"
        /\ \A k \in EventKinds \ {"Failed"} : nst.bound[k] = st.bound[k]
        /\ Typed(nst)
    BY <1>d, <2>1, <2>3, AcceptFields
  <2> QED BY <1>0, <1>c, <1>d, <2>2, <2>4 DEF ApplyFacts, Verified
<1> QED BY <1>1, <1>2, <1>3, <1>4
-----------------------------------------------------------------------------
(* Types and places: every variable is of its type, and every task that    *)
(* names a session or an entry names one that exists.                      *)

Conts == {"return", "send_intent", "publish", "bind_access"}

\* The places at which a task keeps the entry it looked up.
AtEntry == Ports \cup {"lock", "key_bound", "bind_access", "finalizing",
                       "spawn_check", "spawn", "install"}

\* Of these, the ones at which it also holds the operation lock.
Critical == Ports \cup {"key_bound", "bind_access", "finalizing", "install"}

OwnedOps == {"none", "claim", "negotiate", "commit", "stream", "owned_fail"}

TaskRecord ==
    [pc: Pcs, op: CallerOps \cup InnerOps \cup {"none"}, id: Ids \cup {None},
     ent: Entries \cup {NoEntry}, on: Entries \cup {NoEntry},
     arg: Requests \cup {None, TRUE}, dup: BOOLEAN, ok: BOOLEAN, cont: Conts,
     since: 0 .. MaxTime, todo: SUBSET (Ids \X Entries)]

CleanupRecord ==
    [stage: Stages, failed: BOOLEAN, caller: Tasks \cup {None}, by: Ops,
     err: BOOLEAN, join: SUBSET Owned]

GroupRecord == [closed: BOOLEAN, handles: SUBSET Owned]

WorldTypes ==
    /\ consent \in [Ids -> {"none", "pending", "approved", "denied"}]
    /\ route \in [Ids -> BOOLEAN]
    /\ media \in [Ids -> BOOLEAN]

Types ==
    /\ now \in 0 .. MaxTime
    /\ sessions \in [Ids -> Entries \cup {NoEntry}]
    /\ activeSessions \in Nat
    /\ terminalOrder \in Seq(Ids)
    /\ used \in 0 .. MaxEntries
    /\ idOf \in [Entries -> Ids \cup {None}]
    /\ state \in [Entries -> Shape]
    /\ \A e \in Entries : Typed(state[e])
    /\ operation \in [Entries -> Tasks \cup {None}]
    /\ group \in [Entries -> GroupRecord]
    /\ cleanup \in [Entries -> CleanupRecord]
    /\ gate \in Tasks \cup {None}
    /\ task \in [Tasks -> TaskRecord]
    /\ home \in [Owned -> Entries \cup {NoEntry}]
    /\ WorldTypes

PlaceOK(k) ==
    /\ k.pc \notin {"idle", "finished"} =>
         k.id \in Ids \/ (k.op \in SweepOps /\ k.pc \in {"gate", "sweep"})
    /\ k.pc \in AtEntry => k.ent \in Allocated /\ idOf[k.ent] = k.id
    /\ k.pc = "finalizing" => k.on \in Allocated
    /\ k.op \in {"start", "intent"} => k.arg \in Requests
    /\ k.pc \in {"create", "inspect"} => k.op \in {"start", "intent"}
    /\ k.pc = "key_bound" => k.op = "grant"

\* The places of an owned task and the operations that pass them.
Paired(pc, op) ==
    /\ pc \in {"idle", "finished"} => op = "none"
    /\ pc = "spawned" => op = "claim"
    /\ pc = "peer" => op = "negotiate"
    /\ pc \in {"install", "committed"} => op = "commit"
    /\ pc \in {"media_start", "media_wait", "activated"} => op = "stream"

OwnedOK(k, h) ==
    /\ k.op \in OwnedOps
    /\ Paired(k.pc, k.op)
    /\ k.pc \notin {"idle", "finished"} => h \in Allocated /\ idOf[h] = k.id

\* The registry and the entries name each other; an entry that was never
\* allocated is not being cleaned up.
EntriesOK ==
    /\ \A i \in Ids : sessions[i] # NoEntry =>
         sessions[i] \in Allocated /\ idOf[sessions[i]] = i
    /\ \A e \in Allocated : idOf[e] \in Ids
    /\ \A e \in Entries : e \notin Allocated => cleanup[e].stage = "none"

Places ==
    /\ \A t \in Tasks : PlaceOK(task[t])
    /\ \A o \in Owned : OwnedOK(task[o], home[o])
    /\ EntriesOK

Base == Types /\ Places

-----------------------------------------------------------------------------
(* Nearly every step of a workflow does one of two things to an entry      *)
(* (nothing, or apply with what follows from it) and one of three to its   *)
(* own task (return, wait for a cleanup, go on under the lock).            *)

Applied(t, e, kind, arg, failed) ==
    LET s == Apply(state[e], Event(kind, arg), now)
    IN  /\ state' = [state EXCEPT ![e] = s]
        /\ cleanup' = IF Terminal(s) THEN Receipt(e, failed, t) ELSE cleanup

\* Where a workflow may bind a grant: behind the last port of an approval, or
\* of a controller's grant.
GrantsNow(t) == task[t].pc = "send_grant" \/ (task[t].pc = "access" /\ task[t].op = "grant")

\* A route is verified only at the end of its own installation, and in time;
\* a grant is bound behind the last port only, to the id of its workflow.
Fit(t, e, kind) ==
    /\ kind = "RelayVerified" =>
        /\ t \in Owned /\ task[t].pc = "install" /\ e = task[t].ent
        /\ now < EffectiveDeadline(state[e])
        /\ route' = [route EXCEPT ![task[t].id] = TRUE]
        /\ state'[e].phase = "RelayVerified" =>
             task'[t].pc = "committed" /\ task'[t].op = "commit"
    /\ kind = "Granted" => GrantsNow(t) /\ idOf[e] = task[t].id

Turns(t, K) ==
    \/ UNCHANGED <<state, cleanup>>
    \/ \E e \in Allocated, kind \in K, failed \in BOOLEAN : \E arg \in Payloads(kind) :
         idOf[e] = task[t].id /\ Fit(t, e, kind) /\ Applied(t, e, kind, arg, failed)

Waits(t, e, ok, cont) ==
    /\ task' = [task EXCEPT ![t].pc = "finalizing", ![t].on = e,
                            ![t].ok = ok, ![t].cont = cont]
    /\ operation' = Held(t)
    /\ UNCHANGED gate

Acts(t, K, next) ==
    /\ Turns(t, K)
    /\ \/ \E ok \in BOOLEAN : Return(t, ok)
       \/ \E e \in Allocated, ok \in BOOLEAN, cont \in Conts : Waits(t, e, ok, cont)
       \/ next # "return" /\ Goto(t, next) /\ operation' = Held(t) /\ UNCHANGED gate
    /\ UNCHANGED <<now, registryVars, group, home>>

\* transition: the event is applied, and the task returns, waits or goes on.
LEMMA TransitionActs ==
    ASSUME NEW t \in Tasks, NEW e \in Allocated, idOf[e] = task[t].id,
           NEW kind \in EventKinds, Fit(t, e, kind), NEW arg \in Payloads(kind),
           NEW ok \in BOOLEAN, NEW failed \in BOOLEAN, NEW cont \in Conts,
           Transition(t, e, Event(kind, arg), ok, failed, cont),
           UNCHANGED <<now, registryVars, group, home>>
    PROVE  Acts(t, {kind}, cont)
<1>1. Applied(t, e, kind, arg, failed)
  BY DEF Transition, Applied
<1>2. Turns(t, {kind})
  BY <1>1 DEF Turns
<1>3. \/ Return(t, ok)
      \/ Waits(t, e, ok, cont)
      \/ cont # "return" /\ Goto(t, cont) /\ operation' = Held(t) /\ UNCHANGED gate
  BY DEF Transition, Waits
<1> QED BY <1>2, <1>3 DEF Acts

\* apply: the id is looked up again; a forgotten session is left alone.
LEMMA ApplyByIdActs ==
    ASSUME Base, NEW t \in Tasks, task[t].pc \in AtEntry,
           NEW kind \in EventKinds \ {"RelayVerified"}, NEW arg \in Payloads(kind), NEW cont \in Conts,
           kind = "Granted" => GrantsNow(t),
           ApplyById(t, Event(kind, arg), cont),
           UNCHANGED <<now, registryVars, group, home>>
    PROVE  Acts(t, {kind}, cont)
<1>1. task[t].id \in Ids
  BY DEF Base, Places, PlaceOK, AtEntry, Ports
<1>2. PICK e : e = sessions[task[t].id]
  OBVIOUS
<1>3. CASE e = NoEntry
  BY <1>2, <1>3 DEF ApplyById, Acts, Turns
<1>4. CASE e # NoEntry
  <2>1. e \in Allocated /\ idOf[e] = task[t].id
    BY <1>1, <1>2, <1>4 DEF Base, Places, EntriesOK
  <2> DEFINE ok == Outcome(state[e], Event(kind, arg), now) \in {"Applied", "Duplicate"}
             failed == Apply(state[e], Event(kind, arg), now).phase = "Failed"
  <2>2. Transition(t, e, Event(kind, arg), ok, failed, cont)
    BY <1>2, <1>4 DEF ApplyById
  <2>3. ok \in BOOLEAN /\ failed \in BOOLEAN
    OBVIOUS
  <2> HIDE DEF ok, failed
  <2>4. Fit(t, e, kind)
    BY <2>1 DEF Fit
  <2> QED BY <2>1, <2>2, <2>3, <2>4, TransitionActs
<1> QED BY <1>3, <1>4

\* An apply whose result is dropped: the event is applied, or the id is gone.
LEMMA ApplyAndRefuseActs ==
    ASSUME Base, NEW t \in Tasks, task[t].pc \in AtEntry,
           NEW kind \in EventKinds \ {"RelayVerified", "Granted"}, NEW arg \in Payloads(kind),
           ApplyAndRefuse(t, Event(kind, arg)),
           UNCHANGED <<now, registryVars, group, home>>
    PROVE  Acts(t, {kind}, "return")
<1>1. task[t].id \in Ids
  BY DEF Base, Places, PlaceOK, AtEntry, Ports
<1>2. PICK e : e = sessions[task[t].id]
  OBVIOUS
<1>3. CASE e = NoEntry
  BY <1>2, <1>3 DEF ApplyAndRefuse, Acts, Turns
<1>4. CASE e # NoEntry
  <2>1. e \in Allocated /\ idOf[e] = task[t].id
    BY <1>1, <1>2, <1>4 DEF Base, Places, EntriesOK
  <2> DEFINE failed == Apply(state[e], Event(kind, arg), now).phase = "Failed"
  <2>2. Transition(t, e, Event(kind, arg), FALSE, failed, "return")
    BY <1>2, <1>4 DEF ApplyAndRefuse
  <2>3. failed \in BOOLEAN /\ "return" \in Conts
    BY DEF Conts
  <2> HIDE DEF failed
  <2>4. Fit(t, e, kind)
    BY <2>1 DEF Fit
  <2> QED BY <2>1, <2>2, <2>3, <2>4, TransitionActs
<1> QED BY <1>3, <1>4

\* A workflow that fails applies a failure, or finds its session gone.
LEMMA FailWorkflowActs ==
    ASSUME Base, NEW t \in Tasks, task[t].pc \in AtEntry, NEW failure \in Failures,
           FailWorkflow(t, failure), UNCHANGED <<now, registryVars, group, home>>
    PROVE  Acts(t, {"Failed"}, "return")
<1>1. "Failed" \in EventKinds \ {"RelayVerified", "Granted"} /\ failure \in Payloads("Failed")
  BY DEF EventKinds, Phases, Payloads
<1>2. CASE ApplyAndRefuse(t, Event("Failed", failure))
  BY <1>1, <1>2, ApplyAndRefuseActs
<1>3. CASE Return(t, FALSE) /\ UNCHANGED <<state, cleanup>>
  BY <1>3 DEF Acts, Turns
<1> QED BY <1>2, <1>3 DEF FailWorkflow

\* A port is called, unless the deadline has passed.
LEMMA CallPortActs ==
    ASSUME Base, NEW t \in Tasks, task[t].pc \in AtEntry, NEW port \in Ports,
           CallPort(t, port), UNCHANGED <<now, registryVars, group, home>>
    PROVE  Acts(t, {"Failed"}, port)
<1>1. CASE FailWorkflow(t, "DeadlineExceeded")
  <2>1. "DeadlineExceeded" \in Failures
    BY DEF Failures
  <2>2. Acts(t, {"Failed"}, "return")
    BY <1>1, <2>1, FailWorkflowActs
  <2> QED BY <2>2 DEF Acts
<1>2. CASE ~FailWorkflow(t, "DeadlineExceeded")
  <2>1. /\ Goto(t, port) /\ operation' = Held(t)
        /\ UNCHANGED <<state, cleanup, gate>>
    BY <1>2 DEF CallPort
  <2> QED BY <2>1 DEF Acts, Turns, Ports
<1> QED BY <1>1, <1>2
-----------------------------------------------------------------------------
(* Types and places are kept, by the kinds of change first.                *)

\* The idle and the ended task are tasks, with nothing in their hands.
LEMMA IdleRecord ==
    /\ Idle \in TaskRecord /\ Ended \in TaskRecord
    /\ Idle.pc = "idle" /\ Idle.op = "none" /\ Idle.arg = None /\ Idle.ent = NoEntry
    /\ Ended.pc = "finished" /\ Ended.op = "none" /\ Ended.arg = None
<1>1. /\ "idle" \in Pcs /\ "finished" \in Pcs /\ "return" \in Conts
      /\ 0 \in 0 .. MaxTime
  BY CoordinatorAssumption DEF Pcs, Conts
<1>2. Idle \in TaskRecord
  BY <1>1 DEF Idle, TaskRecord, NoEntry
<1>3. Ended \in TaskRecord
  BY <1>1, <1>2 DEF Ended, TaskRecord
<1>4. /\ Idle.pc = "idle" /\ Idle.op = "none" /\ Idle.arg = None /\ Idle.ent = NoEntry
  BY DEF Idle
<1>5. Ended.pc = "finished" /\ Ended.op = Idle.op /\ Ended.arg = Idle.arg
  BY <1>2 DEF Ended, TaskRecord
<1> QED BY <1>2, <1>3, <1>4, <1>5

\* They are at no place that demands an entry.
LEMMA IdlePlace ==
    ASSUME NEW h
    PROVE  PlaceOK(Idle) /\ PlaceOK(Ended) /\ OwnedOK(Idle, h) /\ OwnedOK(Ended, h)
BY IdleRecord DEF PlaceOK, OwnedOK, Paired, AtEntry, Ports, OwnedOps

\* A task that goes on to another operation keeps its id and its argument.
LEMMA ThenRecord ==
    ASSUME Types, NEW t \in Tasks, NEW op \in Ops, NEW pc \in Pcs
    PROVE  LET k == Then(t, op, pc) IN
           /\ k \in TaskRecord /\ k.pc = pc /\ k.op = op /\ k.id = task[t].id
           /\ k.arg = task[t].arg /\ k.ent = NoEntry
<1>1. task[t] \in TaskRecord
  BY DEF Types
<1>2. TRUE \in BOOLEAN /\ "return" \in Conts
  BY DEF Conts
<1> QED BY <1>1, <1>2 DEF Then, TaskRecord, Ops

\* A task that goes on to another place keeps everything else.
LEMMA GotoRecord ==
    ASSUME Types, NEW t \in Tasks, NEW pc \in Pcs, Goto(t, pc)
    PROVE  \E k \in TaskRecord :
             /\ task' = [task EXCEPT ![t] = k]
             /\ k = [task[t] EXCEPT !.pc = pc]
             /\ k.pc = pc /\ k.op = task[t].op /\ k.id = task[t].id /\ k.ent = task[t].ent
             /\ k.on = task[t].on /\ k.arg = task[t].arg
<1>1. task[t] \in TaskRecord
  BY DEF Types
<1>2. PICK k : k = [task[t] EXCEPT !.pc = pc]
  OBVIOUS
<1>3. /\ k \in TaskRecord /\ k.pc = pc /\ k.op = task[t].op /\ k.id = task[t].id
      /\ k.ent = task[t].ent /\ k.on = task[t].on /\ k.arg = task[t].arg
  BY <1>1, <1>2 DEF TaskRecord
<1>4. task' = [task EXCEPT ![t] = k]
  BY <1>2 DEF Goto, Types
<1> QED BY <1>2, <1>3, <1>4

\* What an operation returns to: nowhere near an entry.
ResumePcs == {"sweep", "lookup", "gate", "peer", "committed", "activated",
              "failed", "idle", "finished"}

\* What a task is after its operation has returned, by operation.
LEMMA ResumedRecord ==
    ASSUME Types, NEW t \in Tasks, NEW ok \in BOOLEAN
    PROVE  LET k == Resumed(t, ok) IN
           /\ k \in TaskRecord
           /\ k.pc \in ResumePcs
           /\ k.pc \notin {"idle", "finished"} => k.id = task[t].id
           /\ k.pc = "sweep" => k.op \in SweepOps
           /\ k.op \notin {"start", "intent"}
           /\ k.op \in {"none", task[t].op} \/ task[t].op \in {"intent", "approve", "grant", "authorize"}
           /\ Paired(k.pc, k.op)
<1>1. PICK k : k = Resumed(t, ok)
  OBVIOUS
<1>2. \/ k = Idle \/ k = Ended
      \/ \E op \in Ops, pc \in ResumePcs :
           /\ k = Then(t, op, pc)
           /\ pc = "sweep" => op \in SweepOps
           /\ op \notin {"start", "intent"}
           /\ op = task[t].op \/ task[t].op \in {"intent", "approve", "grant", "authorize"}
           /\ Paired(pc, op)
  <2>1. PICK op : op = task[t].op
    OBVIOUS
  <2>2. op \in Ops
    BY <2>1 DEF Types, TaskRecord, Ops
  <2>3. \/ op \in SweepOps /\ k = Then(t, op, "sweep")
        \/ op = "intent" /\ k = Then(t, "approve", "lookup")
        \/ op = "approve" /\ k = Then(t, "authorize", "gate")
        \/ op = "approve" /\ k = Then(t, "fail", "gate")
        \/ op = "grant" /\ k = Then(t, "authorize", "gate")
        \/ op = "authorize" /\ k = Then(t, "spawn", "lookup")
        \/ op = "authorize" /\ k = Then(t, "fail", "gate")
        \/ op = "negotiate" /\ k = Then(t, op, "peer")
        \/ op = "commit" /\ k = Then(t, op, "committed")
        \/ op = "stream" /\ k = Then(t, op, "activated")
        \/ op \in {"negotiate", "commit", "stream"} /\ k = Then(t, op, "failed")
        \/ k = Ended
        \/ k = Idle
    <3>1. CASE op \in SweepOps
      BY <1>1, <2>1, <3>1 DEF Resumed, SweepOps
    <3>2. CASE op \in {"intent", "approve", "grant", "authorize"}
      BY <1>1, <2>1, <3>2 DEF Resumed, SweepOps
    <3>3. CASE op \in {"negotiate", "commit", "stream"}
      BY <1>1, <2>1, <3>3 DEF Resumed, SweepOps
    <3>4. CASE op = "owned_fail"
      BY <1>1, <2>1, <3>4 DEF Resumed, SweepOps
    <3>5. CASE op \notin {"intent", "approve", "grant", "authorize", "negotiate", "commit",
                          "stream", "owned_fail"} \cup SweepOps
      BY <1>1, <2>1, <3>5 DEF Resumed, SweepOps
    <3> QED BY <3>1, <3>2, <3>3, <3>4, <3>5
  <2>4. /\ {"approve", "authorize", "fail", "spawn", "negotiate", "commit", "stream"} \subseteq Ops
        /\ \A o \in SweepOps : o \in Ops /\ o \notin {"start", "intent"}
        /\ {"approve", "authorize", "fail", "spawn", "negotiate", "commit", "stream"}
             \cap (SweepOps \cup {"start", "intent"}) = {}
    BY DEF Ops, CallerOps, InnerOps, SweepOps
  <2>5. /\ \A o \in Ops : \A pc \in {"sweep", "lookup", "gate", "failed"} : Paired(pc, o)
        /\ Paired("peer", "negotiate") /\ Paired("committed", "commit")
        /\ Paired("activated", "stream")
    BY DEF Paired
  <2> QED BY <2>1, <2>2, <2>3, <2>4, <2>5 DEF ResumePcs
<1>3. CASE k = Idle \/ k = Ended
  BY <1>1, <1>3, IdleRecord DEF ResumePcs, Paired
<1>4. CASE \E op \in Ops, pc \in ResumePcs :
           /\ k = Then(t, op, pc)
           /\ pc = "sweep" => op \in SweepOps
           /\ op \notin {"start", "intent"}
           /\ op = task[t].op \/ task[t].op \in {"intent", "approve", "grant", "authorize"}
           /\ Paired(pc, op)
  <2>1. PICK op \in Ops, pc \in ResumePcs :
           /\ k = Then(t, op, pc)
           /\ pc = "sweep" => op \in SweepOps
           /\ op \notin {"start", "intent"}
           /\ op = task[t].op \/ task[t].op \in {"intent", "approve", "grant", "authorize"}
           /\ Paired(pc, op)
    BY <1>4
  <2>2. pc \in Pcs
    BY DEF Pcs, ResumePcs
  <2>3. k \in TaskRecord /\ k.pc = pc /\ k.op = op /\ k.id = task[t].id
    BY <2>1, <2>2, ThenRecord
  <2> QED BY <1>1, <2>1, <2>3
<1> QED BY <1>2, <1>3, <1>4

\* A task whose operation has returned is at no entry any more.
LEMMA ResumedPlace ==
    ASSUME Base, NEW t \in Tasks, NEW ok \in BOOLEAN, task[t].id \in Ids,
           task[t].pc \notin {"idle", "finished"}
    PROVE  /\ PlaceOK(Resumed(t, ok))
           /\ t \in Owned => OwnedOK(Resumed(t, ok), home[t])
<1>1. PICK k : k = Resumed(t, ok)
  OBVIOUS
<1>2. /\ k \in TaskRecord
      /\ k.pc \in ResumePcs
      /\ k.pc \notin {"idle", "finished"} => k.id = task[t].id
      /\ k.op \notin {"start", "intent"}
      /\ k.op \in {"none", task[t].op} \/ task[t].op \in {"intent", "approve", "grant", "authorize"}
      /\ Paired(k.pc, k.op)
  BY <1>1, ResumedRecord DEF Base
<1>3. PlaceOK(k)
  BY <1>2 DEF PlaceOK, ResumePcs, AtEntry, Ports
<1>4. t \in Owned => OwnedOK(k, home[t])
  BY <1>2 DEF OwnedOK, Base, Places, OwnedOps
<1> QED BY <1>1, <1>3, <1>4

\* A lock or the gate is given back.
LEMMA ReturnTypes ==
    ASSUME Types, NEW t \in Tasks, NEW ok \in BOOLEAN, Return(t, ok)
    PROVE  /\ operation' \in [Entries -> Tasks \cup {None}]
           /\ gate' \in Tasks \cup {None}
           /\ task' = [task EXCEPT ![t] = Resumed(t, ok)]
BY DEF Return, Types, Unlocked, Ungated

\* A step that moves one task and leaves the registry alone.
LEMMA MovedBase ==
    ASSUME Base, NEW t \in Tasks, NEW k \in TaskRecord, PlaceOK(k),
           t \in Owned => OwnedOK(k, home[t]),
           task' = [task EXCEPT ![t] = k],
           UNCHANGED <<registryVars, home>>,
           now' \in 0 .. MaxTime,
           state' \in [Entries -> Shape] /\ \A e \in Entries : Typed(state'[e]),
           operation' \in [Entries -> Tasks \cup {None}],
           group' \in [Entries -> GroupRecord],
           cleanup' \in [Entries -> CleanupRecord],
           \A e \in Entries : e \notin Allocated => cleanup'[e].stage = "none",
           gate' \in Tasks \cup {None},
           WorldTypes'
    PROVE  Base'
<1>1. /\ sessions' = sessions /\ activeSessions' = activeSessions
      /\ terminalOrder' = terminalOrder /\ used' = used /\ idOf' = idOf /\ home' = home
  BY DEF registryVars
<1>2. task' \in [Tasks -> TaskRecord]
  BY DEF Base, Types
<1>3. Types'
  BY <1>1, <1>2 DEF Base, Types
<1>4. \A u \in Tasks : task'[u] = IF u = t THEN k ELSE task[u]
  BY DEF Base, Types
<1>5. \A u \in Tasks : PlaceOK(task[u])'
  BY <1>1, <1>4 DEF Base, Places, PlaceOK, Allocated
<1>6. \A o \in Owned : OwnedOK(task[o], home[o])'
  BY <1>1, <1>4 DEF Base, Places, OwnedOK, Allocated, Tasks
<1>7. EntriesOK'
  BY <1>1 DEF Base, Places, EntriesOK, Allocated
<1> QED BY <1>3, <1>5, <1>6, <1>7 DEF Base, Places

\* apply with the finalize that follows it.
LEMMA TurnsTypes ==
    ASSUME Base, NEW t \in Tasks, NEW K \in SUBSET EventKinds, Turns(t, K)
    PROVE  /\ state' \in [Entries -> Shape] /\ \A e \in Entries : Typed(state'[e])
           /\ cleanup' \in [Entries -> CleanupRecord]
           /\ \A e \in Entries : e \notin Allocated => cleanup'[e].stage = "none"
<1>1. CASE UNCHANGED <<state, cleanup>>
  BY <1>1 DEF Base, Types, Places, EntriesOK
<1>2. CASE ~UNCHANGED <<state, cleanup>>
  <2>1. PICK e \in Allocated, kind \in K, failed \in BOOLEAN :
          \E arg \in Payloads(kind) : Applied(t, e, kind, arg, failed)
    BY <1>2 DEF Turns
  <2>2. PICK arg \in Payloads(kind) : Applied(t, e, kind, arg, failed)
    BY <2>1
  <2>3. PICK s : s = Apply(state[e], Event(kind, arg), now)
    OBVIOUS
  <2>4. e \in Entries /\ now \in Nat
    BY CoordinatorAssumption DEF Base, Types, Allocated, Entries
  <2>5. Typed(s)
    BY <2>3, <2>4, ApplyOK DEF Base, Types, ApplyFacts
  <2>6. state' = [state EXCEPT ![e] = s]
    BY <2>2, <2>3 DEF Applied
  <2>7. state' \in [Entries -> Shape] /\ \A f \in Entries : Typed(state'[f])
    BY <2>4, <2>5, <2>6 DEF Base, Types, Typed
  <2>8. PICK c : c = [stage |-> "spawned", failed |-> failed, caller |-> t,
                      by |-> task[t].op, err |-> FALSE, join |-> {}]
    OBVIOUS
  <2>a. task[t].op \in Ops
    BY DEF Base, Types, TaskRecord, Ops
  <2>9. c \in CleanupRecord
    BY <2>8, <2>a DEF CleanupRecord, Stages
  <2>10. cleanup' = cleanup \/ cleanup' = [cleanup EXCEPT ![e] = c]
    BY <2>2, <2>8 DEF Applied, Receipt
  <2>11. cleanup' \in [Entries -> CleanupRecord]
    BY <2>9, <2>10 DEF Base, Types
  <2>12. \A f \in Entries : f \notin Allocated => cleanup'[f].stage = "none"
    BY <2>10 DEF Base, Types, Places, EntriesOK
  <2> QED BY <2>7, <2>11, <2>12
<1> QED BY <1>1, <1>2

\* A step of a workflow keeps types and places.
LEMMA ActsBase ==
    ASSUME Base, NEW t \in Tasks, NEW K \in SUBSET EventKinds, NEW next,
           task[t].pc \in AtEntry,
           next = "return" \/ next \in AtEntry \ {"finalizing", "key_bound", "install"},
           next \in {"create", "inspect"} => task[t].op \in {"start", "intent"},
           Acts(t, K, next), WorldTypes'
    PROVE  Base'
<1>1. /\ state' \in [Entries -> Shape] /\ \A e \in Entries : Typed(state'[e])
      /\ cleanup' \in [Entries -> CleanupRecord]
      /\ \A e \in Entries : e \notin Allocated => cleanup'[e].stage = "none"
  BY TurnsTypes DEF Acts
<1>2. /\ UNCHANGED <<registryVars, home>> /\ now' \in 0 .. MaxTime
      /\ group' \in [Entries -> GroupRecord]
  BY DEF Acts, Base, Types
<1>3. /\ task[t].id \in Ids /\ task[t].pc \notin {"idle", "finished"}
      /\ task[t].ent \in Allocated /\ idOf[task[t].ent] = task[t].id
      /\ PlaceOK(task[t]) /\ task[t] \in TaskRecord
      /\ t \in Owned => OwnedOK(task[t], home[t])
  BY DEF Base, Types, Places, PlaceOK, AtEntry, Ports
<1>4. Held(t) \in [Entries -> Tasks \cup {None}]
  BY DEF Base, Types, Held
<1>5. CASE \E ok \in BOOLEAN : Return(t, ok)
  <2>1. PICK ok \in BOOLEAN : Return(t, ok)
    BY <1>5
  <2>2. /\ operation' \in [Entries -> Tasks \cup {None}]
        /\ gate' \in Tasks \cup {None}
        /\ task' = [task EXCEPT ![t] = Resumed(t, ok)]
    BY <2>1, ReturnTypes DEF Base
  <2>3. Resumed(t, ok) \in TaskRecord
    BY ResumedRecord DEF Base
  <2>4. PlaceOK(Resumed(t, ok)) /\ (t \in Owned => OwnedOK(Resumed(t, ok), home[t]))
    BY <1>3, ResumedPlace
  <2> QED BY <1>1, <1>2, <2>2, <2>3, <2>4, MovedBase
<1>6. CASE \E e \in Allocated, ok \in BOOLEAN, cont \in Conts : Waits(t, e, ok, cont)
  <2>1. PICK e \in Allocated, ok \in BOOLEAN, cont \in Conts : Waits(t, e, ok, cont)
    BY <1>6
  <2>2. PICK k : k = [task[t] EXCEPT !.pc = "finalizing", !.on = e, !.ok = ok, !.cont = cont]
    OBVIOUS
  <2>3. e \in Entries /\ "finalizing" \in Pcs
    BY CoordinatorAssumption DEF Base, Types, Allocated, Entries, Pcs
  <2>4. /\ k \in TaskRecord /\ k.pc = "finalizing" /\ k.op = task[t].op
        /\ k.id = task[t].id /\ k.ent = task[t].ent /\ k.on = e /\ k.arg = task[t].arg
    BY <1>3, <2>2, <2>3 DEF TaskRecord
  <2>5. task' = [task EXCEPT ![t] = k]
    BY <2>1, <2>2 DEF Waits, Base, Types
  <2>7. PlaceOK(k)
    BY <1>3, <2>4 DEF PlaceOK
  <2>8. /\ operation' \in [Entries -> Tasks \cup {None}] /\ gate' \in Tasks \cup {None}
    BY <1>4, <2>1 DEF Waits, Base, Types
  <2>9. t \in Owned => OwnedOK(k, home[t])
    BY <1>3, <2>4 DEF OwnedOK, Paired
  <2> QED BY <1>1, <1>2, <2>4, <2>5, <2>7, <2>8, <2>9, MovedBase
<1>7. CASE next # "return" /\ Goto(t, next) /\ operation' = Held(t) /\ UNCHANGED gate
  <2>1. next \in Pcs
    BY <1>7 DEF AtEntry, Pcs
  <2>2. PICK k \in TaskRecord :
             /\ task' = [task EXCEPT ![t] = k]
             /\ k.pc = next /\ k.op = task[t].op /\ k.id = task[t].id
             /\ k.ent = task[t].ent /\ k.arg = task[t].arg
    BY <1>7, <2>1, GotoRecord DEF Base
  <2>3. PlaceOK(k)
    BY <1>3, <1>7, <2>2 DEF PlaceOK, AtEntry, Ports
  <2>4. t \in Owned => OwnedOK(k, home[t])
    BY <1>3, <1>7, <2>2 DEF OwnedOK, Paired, AtEntry, Ports
  <2>5. /\ operation' \in [Entries -> Tasks \cup {None}] /\ gate' \in Tasks \cup {None}
    BY <1>4, <1>7 DEF Base, Types
  <2> QED BY <1>1, <1>2, <2>2, <2>3, <2>4, <2>5, MovedBase
<1> QED BY <1>5, <1>6, <1>7 DEF Acts
-----------------------------------------------------------------------------
(* The steps of the workflows.                                             *)

Plain == EventKinds \ {"Granted", "RelayVerified"}

\* Where a workflow may go on, and what it has seen before it does.
NextOK(t, next) ==
    /\ next = "return" \/ (next \in Ports \cup {"bind_access"} /\ next # task[t].pc)
    /\ next \in {"create", "inspect"} => task[t].op \in {"start", "intent"}
    /\ next = "load_approval" => task[t].op = "approve"
    /\ next = "approve" =>
         task[t].pc = "load_approval" /\ consent[task[t].id] = "approved"
    /\ next = "inspect_grant" =>
         /\ task[t].op = "grant"
         /\ sessions[task[t].id] # NoEntry
         /\ state[sessions[task[t].id]].role = "Controller"
    /\ next = "access" => task[t].pc \in {"approve", "inspect_grant"}
    /\ next = "send_grant" => task[t].pc = "access" /\ task[t].op = "approve"

Works(t, K) ==
    /\ task[t].pc \in AtEntry \ {"finalizing"}
    /\ \E next : NextOK(t, next) /\ Acts(t, K, next)
    /\ UNCHANGED worldVars

\* A step with few kinds of events is one with more of them.
LEMMA ActsMore ==
    ASSUME NEW t, NEW J, NEW K, NEW next, J \subseteq K, Acts(t, J, next)
    PROVE  Acts(t, K, next)
<1>1. Turns(t, K)
  BY DEF Acts, Turns
<1> QED BY <1>1 DEF Acts

\* A workflow may always return.
LEMMA ReturnOK == ASSUME NEW t PROVE NextOK(t, "return")
BY DEF NextOK, Ports

\* The kinds of events used below are kinds of events.
LEMMA KindFacts ==
    /\ {"BackendBound", "AwaitingConsent", "AccessBound", "Negotiating", "Streaming",
        "Closed", "Failed"} \subseteq Plain
    /\ Plain \subseteq EventKinds \ {"RelayVerified"}
    /\ "Granted" \in EventKinds /\ "RelayVerified" \in EventKinds
BY DEF Plain, EventKinds, Phases

\* negotiate, stream, close, fail and the sweeps apply one plain event.
LEMMA ApplyOperationWorks ==
    ASSUME Base, NEW t \in Tasks, ApplyOperation(t)
    PROVE  Works(t, Plain)
<1>1. task[t].pc = "lock" /\ task[t].pc \in AtEntry \ {"finalizing"}
  BY DEF ApplyOperation, Ready, AtEntry
<1>2. /\ task[t].op \in {"negotiate", "stream", "close", "fail", "owned_fail", "expire", "shutdown"}
      /\ ApplyById(t, OperationEvent(task[t].op), "return")
      /\ UNCHANGED <<now, registryVars, group, home>> /\ UNCHANGED worldVars
  BY DEF ApplyOperation, SweepOps
<1>3. PICK kind \in {"Negotiating", "Streaming", "Closed", "Failed"} :
        \E arg \in Payloads(kind) : OperationEvent(task[t].op) = Event(kind, arg)
  <2>1. /\ TRUE \in Payloads("Negotiating") /\ TRUE \in Payloads("Streaming")
        /\ TRUE \in Payloads("Closed")
        /\ {"Cancelled", "Transport", "DeadlineExceeded"} \subseteq Payloads("Failed")
    BY DEF Payloads, Failures
  <2>2. CASE task[t].op = "negotiate" BY <2>1, <2>2 DEF OperationEvent
  <2>3. CASE task[t].op = "stream" BY <2>1, <2>3 DEF OperationEvent
  <2>4. CASE task[t].op = "close" BY <2>1, <2>4 DEF OperationEvent
  <2>5. CASE task[t].op = "fail" BY <2>1, <2>5 DEF OperationEvent
  <2>6. CASE task[t].op = "owned_fail" BY <2>1, <2>6 DEF OperationEvent
  <2>7. CASE task[t].op = "expire" BY <2>1, <2>7 DEF OperationEvent
  <2>8. CASE task[t].op = "shutdown" BY <2>1, <2>8 DEF OperationEvent
  <2> QED BY <1>2, <2>2, <2>3, <2>4, <2>5, <2>6, <2>7, <2>8
<1>4. PICK arg \in Payloads(kind) : OperationEvent(task[t].op) = Event(kind, arg)
  BY <1>3
<1>5. kind \in EventKinds \ {"RelayVerified"} /\ kind \in Plain /\ "return" \in Conts
  BY KindFacts DEF Conts
<1>6. Acts(t, {kind}, "return")
  BY <1>1, <1>2, <1>4, <1>5, ApplyByIdActs
<1>7. Acts(t, Plain, "return")
  BY <1>5, <1>6, ActsMore
<1> QED BY <1>1, <1>2, <1>7, ReturnOK DEF Works

\* start and intent return early on a duplicate, or bind the backend.
LEMMA CheckDuplicateWorks ==
    ASSUME Base, NEW t \in Tasks, CheckDuplicate(t)
    PROVE  Works(t, Plain)
<1>1. /\ task[t].pc = "lock" /\ task[t].pc \in AtEntry \ {"finalizing"}
      /\ task[t].op \in {"start", "intent"}
      /\ UNCHANGED <<now, registryVars, group, home>> /\ UNCHANGED worldVars
  BY DEF CheckDuplicate, Ready, AtEntry
<1>2. task[t].arg \in Payloads("BackendBound")
  BY <1>1 DEF Base, Places, PlaceOK, Payloads
<1>4. CASE UNCHANGED <<state, cleanup>> /\ \E ok \in BOOLEAN : Return(t, ok)
  <2>1. Acts(t, Plain, "return")
    BY <1>1, <1>4 DEF Acts, Turns
  <2> QED BY <1>1, <2>1, ReturnOK DEF Works
<1>5. CASE ApplyAndRefuse(t, Event("BackendBound", task[t].arg))
  <2>1. "BackendBound" \in Plain
    BY KindFacts
  <2>2. "BackendBound" \in EventKinds \ {"RelayVerified", "Granted"}
    BY DEF EventKinds, Phases
  <2>3. Acts(t, {"BackendBound"}, "return")
    BY <1>1, <1>2, <1>5, <2>2, ApplyAndRefuseActs
  <2>4. Acts(t, Plain, "return")
    BY <2>1, <2>3, ActsMore
  <2> QED BY <1>1, <2>4, ReturnOK DEF Works
<1> QED BY <1>4, <1>5 DEF CheckDuplicate

\* A step that only calls a port, or fails the workflow at the deadline.
LEMMA CallPortWorks ==
    ASSUME Base, NEW t \in Tasks, task[t].pc \in AtEntry \ {"finalizing"}, NEW port \in Ports,
           NextOK(t, port), CallPort(t, port),
           UNCHANGED <<now, registryVars, group, home>>, UNCHANGED worldVars
    PROVE  Works(t, Plain)
<1>1. Acts(t, {"Failed"}, port)
  BY CallPortActs
<1>2. Acts(t, Plain, port)
  BY <1>1, KindFacts, ActsMore
<1> QED BY <1>2 DEF Works

\* A failing workflow is a step of a workflow.
LEMMA FailWorkflowWorks ==
    ASSUME Base, NEW t \in Tasks, task[t].pc \in AtEntry \ {"finalizing"},
           NEW failure \in Failures, FailWorkflow(t, failure),
           UNCHANGED <<now, registryVars, group, home>>, UNCHANGED worldVars
    PROVE  Works(t, Plain)
<1>1. Acts(t, {"Failed"}, "return")
  BY FailWorkflowActs
<1>2. Acts(t, Plain, "return")
  BY <1>1, KindFacts, ActsMore
<1> QED BY <1>2, ReturnOK DEF Works

\* So is an application by id.
LEMMA ApplyByIdWorks ==
    ASSUME Base, NEW t \in Tasks, task[t].pc \in AtEntry \ {"finalizing"},
           NEW K, NEW kind \in K, K \subseteq EventKinds \ {"RelayVerified"},
           NEW arg \in Payloads(kind), NEW cont \in Conts, cont # task[t].pc,
           kind = "Granted" => GrantsNow(t),
           ApplyById(t, Event(kind, arg), cont),
           UNCHANGED <<now, registryVars, group, home>>, UNCHANGED worldVars
    PROVE  Works(t, K)
<1>1. Acts(t, {kind}, cont)
  BY ApplyByIdActs
<1>2. Acts(t, K, cont)
  BY <1>1, ActsMore
<1>3. NextOK(t, cont)
  BY DEF NextOK, Conts, Ports
<1> QED BY <1>2, <1>3 DEF Works

\* The first step of the controller's start.
LEMMA StartWorkflowWorks ==
    ASSUME Base, NEW t \in Tasks, StartWorkflow(t)
    PROVE  Works(t, Plain)
<1>1. PICK port : port = IF task[t].op = "start" THEN "create" ELSE "inspect"
  OBVIOUS
<1>2. /\ task[t].pc \in AtEntry \ {"finalizing"} /\ task[t].op \in {"start", "intent"}
      /\ CallPort(t, port) /\ UNCHANGED <<now, registryVars, group, home>>
      /\ UNCHANGED worldVars
  BY <1>1 DEF StartWorkflow, Ready, AtEntry
<1>3. port \in Ports /\ NextOK(t, port)
  <2>1. task[t].pc = "lock"
    BY DEF StartWorkflow, Ready
  <2> QED BY <1>1, <1>2, <2>1 DEF Ports, NextOK
<1> QED BY <1>2, <1>3, CallPortWorks

\* The first step of the target's approval.
LEMMA StartApprovalWorks ==
    ASSUME Base, NEW t \in Tasks, StartApproval(t)
    PROVE  Works(t, Plain)
<1>1. /\ task[t].pc \in AtEntry \ {"finalizing"} /\ task[t].op = "approve"
      /\ UNCHANGED <<now, registryVars, group, home>> /\ UNCHANGED worldVars
  BY DEF StartApproval, Ready, AtEntry
<1>2. CASE CallPort(t, "load_approval")
  <2>1. "load_approval" \in Ports /\ NextOK(t, "load_approval")
    BY <1>1 DEF Ports, NextOK, StartApproval, Ready
  <2> QED BY <1>1, <1>2, <2>1, CallPortWorks
<1>3. CASE ~CallPort(t, "load_approval")
  <2> DEFINE e == sessions[task[t].id]
             ok == e # NoEntry /\ state[e].role = "Target" /\ state[e].phase = "AccessBound"
  <2>1. Return(t, ok) /\ UNCHANGED <<state, cleanup>>
    BY <1>3 DEF StartApproval
  <2>2. ok \in BOOLEAN
    OBVIOUS
  <2> HIDE DEF ok
  <2>3. Acts(t, Plain, "return")
    BY <1>1, <2>1, <2>2 DEF Acts, Turns
  <2> QED BY <1>1, <2>3, ReturnOK DEF Works
<1> QED BY <1>2, <1>3

\* The dispatcher's grant: checked against the state under the lock.
LEMMA CheckGrantWorks ==
    ASSUME Base, NEW t \in Tasks, NEW intent \in Intents, CheckGrant(t, intent)
    PROVE  Works(t, Plain)
<1>0. task[t].op = "grant"
  BY DEF CheckGrant, Base, Places, PlaceOK
<1>1. /\ task[t].pc \in AtEntry \ {"finalizing"}
      /\ UNCHANGED <<now, registryVars, group, home>> /\ UNCHANGED worldVars
  BY DEF CheckGrant, AtEntry
<1>2. CASE (\E ok \in BOOLEAN : Return(t, ok)) /\ UNCHANGED <<state, cleanup>>
  <2>1. Acts(t, Plain, "return")
    BY <1>1, <1>2 DEF Acts, Turns
  <2> QED BY <1>1, <2>1, ReturnOK DEF Works
<1>3. CASE ApplyAndRefuse(t, Event("AwaitingConsent", intent))
  <2>1. "AwaitingConsent" \in Plain /\ intent \in Payloads("AwaitingConsent")
    BY KindFacts DEF Payloads
  <2>2. "AwaitingConsent" \in EventKinds \ {"RelayVerified", "Granted"}
    BY DEF EventKinds, Phases
  <2>3. Acts(t, {"AwaitingConsent"}, "return")
    BY <1>1, <1>3, <2>1, <2>2, ApplyAndRefuseActs
  <2>4. Acts(t, Plain, "return")
    BY <2>1, <2>3, ActsMore
  <2> QED BY <1>1, <2>4, ReturnOK DEF Works
<1>4. CASE /\ CallPort(t, "inspect_grant")
           /\ sessions[task[t].id] # NoEntry
           /\ state[sessions[task[t].id]].role = "Controller"
  <2>1. "inspect_grant" \in Ports /\ NextOK(t, "inspect_grant")
    BY <1>0, <1>4 DEF Ports, NextOK, CheckGrant
  <2> QED BY <1>1, <1>4, <2>1, CallPortWorks
<1> QED
  <2> DEFINE e == sessions[task[t].id]
             ok(same) == /\ e # NoEntry
                         /\ state[e].role = "Controller"
                         /\ state[e].phase = "AccessBound"
                         /\ state[e].bound["AwaitingConsent"] = intent
                         /\ same
  <2>1. \/ (\E same \in BOOLEAN : Return(t, ok(same))) /\ UNCHANGED <<state, cleanup>>
        \/ ApplyAndRefuse(t, Event("AwaitingConsent", intent))
        \/ /\ CallPort(t, "inspect_grant")
           /\ sessions[task[t].id] # NoEntry
           /\ state[sessions[task[t].id]].role = "Controller"
    BY DEF CheckGrant
  <2>2. \A same \in BOOLEAN : ok(same) \in BOOLEAN
    OBVIOUS
  <2> HIDE DEF ok
  <2> QED BY <1>2, <1>3, <1>4, <2>1, <2>2

\* The backend has verified the access of a session.
LEMMA BackendVerifiedWorks ==
    ASSUME Base, NEW t \in Tasks, BackendVerified(t)
    PROVE  Works(t, Plain)
<1>1. PICK cont : cont = IF task[t].pc = "create" THEN "send_intent" ELSE "publish"
  OBVIOUS
<1>2. /\ task[t].pc \in AtEntry \ {"finalizing"} /\ task[t].pc \in {"create", "inspect"}
      /\ ApplyById(t, Event("BackendBound", task[t].arg), cont)
      /\ UNCHANGED <<now, registryVars, group, home>> /\ UNCHANGED worldVars
  BY <1>1 DEF BackendVerified, AtEntry, Ports, worldVars
<1>3. /\ "BackendBound" \in Plain /\ task[t].arg \in Payloads("BackendBound")
      /\ cont \in Conts /\ cont # task[t].pc /\ Plain \subseteq EventKinds \ {"RelayVerified"}
  BY <1>1, <1>2, KindFacts DEF Payloads, Conts, Base, Places, PlaceOK
<1> QED BY <1>2, <1>3, ApplyByIdWorks

\* The intent was sent, or the consent request was published.
LEMMA IntentWorks ==
    ASSUME Base, NEW t \in Tasks, NEW intent \in Intents,
           IntentSent(t, intent) \/ ConsentPublished(t, intent)
    PROVE  Works(t, Plain)
<1>1. /\ task[t].pc \in AtEntry \ {"finalizing"}
      /\ ApplyById(t, Event("AwaitingConsent", intent), "return")
      /\ UNCHANGED <<now, registryVars, group, home>> /\ UNCHANGED worldVars
  BY DEF IntentSent, ConsentPublished, AtEntry, Ports
<1>2. /\ "AwaitingConsent" \in Plain /\ intent \in Payloads("AwaitingConsent")
      /\ "return" \in Conts /\ "return" # task[t].pc /\ Plain \subseteq EventKinds \ {"RelayVerified"}
  BY KindFacts DEF Payloads, Conts, IntentSent, ConsentPublished
<1> QED BY <1>1, <1>2, ApplyByIdWorks

\* A port has answered: the workflow takes its next step.
LEMMA PortAnsweredWorks ==
    ASSUME Base, NEW t \in Tasks, PortAnswered(t)
    PROVE  Works(t, Plain)
<1>1. /\ task[t].pc \in AtEntry \ {"finalizing"}
      /\ CallPort(t, NextPort(task[t].pc))
      /\ UNCHANGED <<now, registryVars, group, home>> /\ UNCHANGED worldVars
  BY DEF PortAnswered, AtEntry, Ports
<1>2. \/ task[t].pc = "load_approval" /\ consent[task[t].id] = "approved"
      \/ task[t].pc \in {"approve", "inspect_grant"}
      \/ task[t].pc = "access" /\ task[t].op = "approve"
  BY DEF PortAnswered
<1>3. CASE task[t].pc = "load_approval"
  <2>1. NextPort(task[t].pc) = "approve"
    BY <1>3 DEF NextPort
  <2>2. "approve" \in Ports /\ NextOK(t, "approve")
    BY <1>2, <1>3 DEF NextOK, Ports
  <2> QED BY <1>1, <2>1, <2>2, CallPortWorks
<1>4. CASE task[t].pc \in {"approve", "inspect_grant"}
  <2>1. NextPort(task[t].pc) = "access"
    BY <1>4 DEF NextPort
  <2>2. "access" \in Ports /\ NextOK(t, "access")
    BY <1>4 DEF NextOK, Ports
  <2> QED BY <1>1, <2>1, <2>2, CallPortWorks
<1>5. CASE task[t].pc = "access" /\ task[t].op = "approve"
  <2>1. NextPort(task[t].pc) = "send_grant"
    BY <1>5 DEF NextPort
  <2>2. "send_grant" \in Ports /\ NextOK(t, "send_grant")
    BY <1>5 DEF NextOK, Ports
  <2> QED BY <1>1, <2>1, <2>2, CallPortWorks
<1> QED BY <1>2, <1>3, <1>4, <1>5

\* The target obtained its grant.
LEMMA GrantObtainedWorks ==
    ASSUME Base, NEW t \in Tasks, NEW grant \in Grants, GrantObtained(t, grant)
    PROVE  Works(t, {"Granted"})
<1>1. /\ task[t].pc \in AtEntry \ {"finalizing"}
      /\ ApplyById(t, Event("Granted", grant), "bind_access")
      /\ UNCHANGED <<now, registryVars, group, home>> /\ UNCHANGED worldVars
  BY DEF GrantObtained, AtEntry, Ports
<1>3. GrantsNow(t) /\ task[t].pc # "bind_access"
  BY DEF GrantObtained, GrantsNow
<1>2. /\ grant \in Payloads("Granted") /\ "bind_access" \in Conts
      /\ {"Granted"} \subseteq EventKinds \ {"RelayVerified"} /\ "Granted" \in {"Granted"}
  BY KindFacts DEF Payloads, Conts
<1> QED BY <1>1, <1>2, <1>3, ApplyByIdWorks

\* The access is bound after the grant.
LEMMA BindAccessWorks ==
    ASSUME Base, NEW t \in Tasks, NEW access \in Accesses, BindAccess(t, access)
    PROVE  Works(t, Plain)
<1>1. /\ task[t].pc \in AtEntry \ {"finalizing"}
      /\ ApplyById(t, Event("AccessBound", access), "return")
      /\ UNCHANGED <<now, registryVars, group, home>> /\ UNCHANGED worldVars
  BY DEF BindAccess, AtEntry
<1>2. /\ "AccessBound" \in Plain /\ access \in Payloads("AccessBound")
      /\ "return" \in Conts /\ "return" # task[t].pc /\ Plain \subseteq EventKinds \ {"RelayVerified"}
  BY KindFacts DEF Payloads, Conts, BindAccess
<1> QED BY <1>1, <1>2, ApplyByIdWorks

\* A port failed or timed out.
LEMMA PortEndsWorks ==
    ASSUME Base, NEW t \in Tasks, PortFailed(t) \/ PortTimeout(t)
    PROVE  Works(t, Plain)
<1>1. /\ task[t].pc \in AtEntry \ {"finalizing"}
      /\ UNCHANGED <<now, registryVars, group, home>> /\ UNCHANGED worldVars
  BY DEF PortFailed, PortTimeout, AtEntry, Ports
<1>2. PICK failure \in Failures : FailWorkflow(t, failure)
  BY DEF PortFailed, PortTimeout, Failures
<1> QED BY <1>1, <1>2, FailWorkflowWorks

\* Every step of a workflow keeps types and places.
LEMMA WorksBase ==
    ASSUME Base, NEW t \in Tasks, NEW K \in SUBSET EventKinds, Works(t, K)
    PROVE  Base'
<1>1. PICK next : NextOK(t, next) /\ Acts(t, K, next)
  BY DEF Works
<1>2. next = "return" \/ next \in AtEntry \ {"finalizing", "key_bound", "install"}
  BY <1>1 DEF NextOK, AtEntry, Ports
<1>3. WorldTypes'
  BY DEF Works, WorldTypes, worldVars, Base, Types
<1> QED BY <1>1, <1>2, <1>3, ActsBase DEF Works, NextOK
-----------------------------------------------------------------------------
(* The steps that move a task outside the operation lock.                  *)

Strolls(t, k) ==
    /\ k \in TaskRecord /\ PlaceOK(k) /\ (t \in Owned => OwnedOK(k, home[t]))
    /\ task' = [task EXCEPT ![t] = k]
    /\ k.pc \notin Critical
    /\ operation' = operation \/ operation' = Unlocked(t)
    /\ gate' \in Tasks \cup {None}
    /\ UNCHANGED <<now, registryVars, state, group, cleanup, home>>
    /\ WorldTypes'

\* Every step outside the operation lock keeps types and places.
LEMMA StrollsBase ==
    ASSUME Base, NEW t \in Tasks, NEW k, Strolls(t, k)
    PROVE  Base'
<1>1. /\ k \in TaskRecord /\ PlaceOK(k) /\ (t \in Owned => OwnedOK(k, home[t]))
      /\ task' = [task EXCEPT ![t] = k] /\ UNCHANGED <<registryVars, home>>
      /\ gate' \in Tasks \cup {None} /\ WorldTypes'
      /\ now' = now /\ state' = state /\ group' = group /\ cleanup' = cleanup
  BY DEF Strolls
<1>2. operation' \in [Entries -> Tasks \cup {None}]
  BY DEF Strolls, Unlocked, Base, Types
<1>3. /\ now' \in 0 .. MaxTime
      /\ state' \in [Entries -> Shape] /\ \A e \in Entries : Typed(state'[e])
      /\ group' \in [Entries -> GroupRecord] /\ cleanup' \in [Entries -> CleanupRecord]
      /\ \A e \in Entries : e \notin Allocated => cleanup'[e].stage = "none"
  BY <1>1 DEF Base, Types, Places, EntriesOK
<1> QED BY <1>1, <1>2, <1>3, MovedBase

\* What is around the coordinator keeps its type when it is left alone.
LEMMA SameWorld == Types /\ UNCHANGED worldVars => WorldTypes'
BY DEF Types, WorldTypes, worldVars

\* Callers are tasks and never owned ones.
LEMMA CallersAside == \A t \in Callers : t \in Tasks /\ t \notin Owned
BY CoordinatorAssumption DEF Tasks

\* Owned tasks are tasks.
LEMMA OwnedAreTasks == \A o \in Owned : o \in Tasks
BY DEF Tasks

\* An operation returns.
LEMMA ReturnStrolls ==
    ASSUME Base, NEW t \in Tasks, NEW ok \in BOOLEAN, Return(t, ok),
           task[t].id \in Ids, task[t].pc \notin {"idle", "finished"},
           UNCHANGED <<now, registryVars, state, group, cleanup, home>>, WorldTypes'
    PROVE  Strolls(t, Resumed(t, ok))
<1>1. /\ gate' \in Tasks \cup {None} /\ task' = [task EXCEPT ![t] = Resumed(t, ok)]
  BY ReturnTypes DEF Base
<1>2. operation' = Unlocked(t)
  BY DEF Return
<1>3. Resumed(t, ok) \in TaskRecord /\ Resumed(t, ok).pc \in ResumePcs
  BY ResumedRecord DEF Base
<1>4. Resumed(t, ok).pc \notin Critical
  BY <1>3 DEF ResumePcs, Critical, Ports
<1>5. PlaceOK(Resumed(t, ok)) /\ (t \in Owned => OwnedOK(Resumed(t, ok), home[t]))
  BY ResumedPlace
<1> QED BY <1>1, <1>2, <1>3, <1>4, <1>5 DEF Strolls

\* A task becomes idle, or has ended.
LEMMA StopStrolls ==
    ASSUME Base, NEW t \in Tasks, NEW k \in {Idle, Ended}, task' = [task EXCEPT ![t] = k],
           operation' = operation \/ operation' = Unlocked(t),
           gate' \in Tasks \cup {None},
           UNCHANGED <<now, registryVars, state, group, cleanup, home>>, WorldTypes'
    PROVE  Strolls(t, k)
<1>1. k \in TaskRecord /\ k.pc \in {"idle", "finished"}
  BY IdleRecord
<1>2. PlaceOK(k) /\ OwnedOK(k, home[t])
  BY IdlePlace
<1>3. k.pc \notin Critical
  BY <1>1 DEF Critical, Ports
<1> QED BY <1>1, <1>2, <1>3 DEF Strolls

\* An owned task goes on with another operation, or fails.
LEMMA ThenStrolls ==
    ASSUME Base, NEW o \in Owned, NEW op \in OwnedOps, NEW pc \in {"lookup", "gate", "failed"},
           task[o].pc \notin {"idle", "finished"},
           task[o].id \in Ids,
           task' = [task EXCEPT ![o] = Then(o, op, pc)],
           operation' = operation \/ operation' = Unlocked(o),
           gate' \in Tasks \cup {None},
           UNCHANGED <<now, registryVars, state, group, cleanup, home>>, WorldTypes'
    PROVE  Strolls(o, Then(o, op, pc))
<1>1. op \in Ops /\ op \notin {"start", "intent"} /\ o \in Tasks /\ pc \in Pcs
  BY DEF OwnedOps, Ops, CallerOps, InnerOps, Tasks, Pcs
<1>2. PICK k : k = Then(o, op, pc)
  OBVIOUS
<1>3. k \in TaskRecord /\ k.pc = pc /\ k.op = op /\ k.id = task[o].id
  BY <1>1, <1>2, ThenRecord DEF Base
<1>4. PlaceOK(k)
  BY <1>1, <1>3 DEF PlaceOK, AtEntry, Ports
<1>5. OwnedOK(k, home[o])
  BY <1>3 DEF OwnedOK, Paired, Base, Places
<1>6. k.pc \notin Critical
  BY <1>3 DEF Critical, Ports
<1> QED BY <1>2, <1>3, <1>4, <1>5, <1>6 DEF Strolls

\* A task goes on within its operation.
LEMMA GotoStrolls ==
    ASSUME Base, NEW t \in Tasks, NEW pc \in Pcs \ (AtEntry \ {"spawn"}),
           task[t].id \in Ids, task[t].pc \notin {"idle", "finished"},
           pc = "spawn" => task[t].pc \in AtEntry,
           pc \notin {"idle", "finished"}, t \in Owned => Paired(pc, task[t].op),
           Goto(t, pc), operation' = operation,
           gate' \in Tasks \cup {None},
           UNCHANGED <<now, registryVars, state, group, cleanup, home>>, WorldTypes'
    PROVE  \E k : /\ Strolls(t, k)
                  /\ k.pc = pc /\ k.op = task[t].op /\ k.id = task[t].id
                  /\ k.arg = task[t].arg
<1>1. PICK k \in TaskRecord :
             /\ task' = [task EXCEPT ![t] = k]
             /\ k.pc = pc /\ k.op = task[t].op /\ k.id = task[t].id /\ k.ent = task[t].ent
             /\ k.on = task[t].on /\ k.arg = task[t].arg
  BY GotoRecord DEF Base
<1>2. PlaceOK(task[t]) /\ (t \in Owned => OwnedOK(task[t], home[t]))
  BY DEF Base, Places
<1>3. PlaceOK(k)
  BY <1>1, <1>2 DEF PlaceOK, AtEntry, Ports
<1>4. t \in Owned => OwnedOK(k, home[t])
  BY <1>1, <1>2 DEF OwnedOK
<1>5. k.pc \notin Critical
  BY <1>1 DEF Critical, AtEntry, Ports
<1> QED BY <1>1, <1>3, <1>4, <1>5 DEF Strolls
-----------------------------------------------------------------------------

\* find: the entry is found and waited for, or the operation returns.
LEMMA LookupStrolls ==
    ASSUME Base, NEW t \in Tasks, Lookup(t)
    PROVE  /\ task[t].pc \in {"lookup", "gate"}
           /\ UNCHANGED worldVars
           /\ \/ Return(t, FALSE) /\ Strolls(t, Resumed(t, FALSE))
              \/ \E k : /\ Strolls(t, k)
                        /\ k.pc \in {"lock", "spawn_check"} /\ k.op = task[t].op
                        /\ k.id = task[t].id /\ k.arg = task[t].arg
<1>1. /\ task[t].pc \in {"lookup", "gate"} /\ UNCHANGED worldVars
      /\ UNCHANGED <<now, registryVars, state, group, cleanup, home>>
      /\ task[t].pc = "gate" => task[t].op \in GatedOps
  BY DEF Lookup, GateFree
<1>2. PlaceOK(task[t]) /\ (t \in Owned => OwnedOK(task[t], home[t])) /\ task[t] \in TaskRecord
  BY DEF Base, Types, Places
<1>3. task[t].id \in Ids
  BY <1>1, <1>2 DEF PlaceOK, SweepOps, GatedOps
<1>4. WorldTypes'
  BY <1>1, SameWorld DEF Base
<1>5. PICK e : e = sessions[task[t].id]
  OBVIOUS
<1>6. CASE Return(t, FALSE)
  BY <1>1, <1>3, <1>4, <1>6, ReturnStrolls
<1>7. CASE ~Return(t, FALSE)
  <2>1. PICK pc : pc = IF task[t].op = "spawn" THEN "spawn_check" ELSE "lock"
    OBVIOUS
  <2>2. /\ e # NoEntry
        /\ task' = [task EXCEPT ![t].ent = e, ![t].pc = pc]
        /\ gate' = (IF task[t].pc = "gate" THEN t ELSE gate)
        /\ UNCHANGED operation
    BY <1>5, <1>7, <2>1 DEF Lookup
  <2>3. e \in Allocated /\ idOf[e] = task[t].id /\ e \in Entries
    BY <1>3, <1>5, <2>2, CoordinatorAssumption
       DEF Base, Types, Places, EntriesOK, Allocated, Entries
  <2>4. PICK k : k = [task[t] EXCEPT !.ent = e, !.pc = pc]
    OBVIOUS
  <2>5. pc \in {"lock", "spawn_check"} /\ pc \in Pcs
    BY <2>1 DEF Pcs
  <2>6. /\ k \in TaskRecord /\ k.pc = pc /\ k.op = task[t].op /\ k.id = task[t].id
        /\ k.ent = e /\ k.on = task[t].on /\ k.arg = task[t].arg
    BY <1>2, <2>3, <2>4, <2>5 DEF TaskRecord
  <2>7. task' = [task EXCEPT ![t] = k]
    BY <2>2, <2>4 DEF Base, Types
  <2>8. PlaceOK(k)
    BY <1>2, <1>3, <2>3, <2>5, <2>6 DEF PlaceOK
  <2>9. t \in Owned => OwnedOK(k, home[t])
    BY <1>1, <1>2, <2>5, <2>6 DEF OwnedOK, Paired
  <2>10. k.pc \notin Critical
    BY <2>5, <2>6 DEF Critical, Ports
  <2>11. gate' \in Tasks \cup {None}
    BY <2>2 DEF Base, Types
  <2>12. Strolls(t, k)
    BY <1>1, <1>4, <2>2, <2>6, <2>7, <2>8, <2>9, <2>10, <2>11 DEF Strolls
  <2> QED BY <1>1, <2>5, <2>6, <2>12
<1> QED BY <1>1, <1>6, <1>7

\* A call begins at the gate, or at the lookup.
LEMMA InvokeStrolls ==
    ASSUME Base, NEW t \in Callers, NEW op \in CallerOps, NEW i \in Ids, Invoke(t, op, i)
    PROVE  \E k : Strolls(t, k)
<1>1. t \in Tasks /\ t \notin Owned
  BY CallersAside
<1>a. PICK pc : pc = IF op = "grant" THEN "lookup" ELSE "gate"
  OBVIOUS
<1>b. PICK id : id = IF op \in SweepOps THEN None ELSE i
  OBVIOUS
<1>2. PICK k : k = [Idle EXCEPT !.pc = pc, !.op = op, !.id = id]
  OBVIOUS
<1>3. op \in Duties[t] \ {"start", "intent"} /\ task' = [task EXCEPT ![t] = k]
  BY <1>a, <1>b, <1>2 DEF Invoke
<1>c. pc \in Pcs /\ pc \in {"lookup", "gate"} /\ id \in Ids \cup {None} /\ op \in Ops
  BY <1>a, <1>b DEF Pcs, Ops
<1>4. k \in TaskRecord /\ k.pc = pc /\ k.op = op /\ k.id = id
  BY <1>2, <1>c, IdleRecord DEF TaskRecord, Ops
<1>5. op \notin SweepOps => k.id = i
  BY <1>4, <1>b
<1>6. op \in SweepOps => k.pc = "gate"
  BY <1>4, <1>a DEF SweepOps
<1>7. PlaceOK(k)
  BY <1>3, <1>c, <1>4, <1>5, <1>6 DEF PlaceOK, AtEntry, Ports
<1>8. k.pc \notin Critical
  BY <1>c, <1>4 DEF Critical, Ports
<1>9. UNCHANGED <<now, registryVars, state, group, cleanup, home>> /\ UNCHANGED worldVars
      /\ operation' = operation /\ gate' = gate
  BY DEF Invoke
<1>10. gate' \in Tasks \cup {None} /\ WorldTypes'
  BY <1>9, SameWorld DEF Base, Types
<1> QED BY <1>1, <1>3, <1>4, <1>7, <1>8, <1>9, <1>10 DEF Strolls

\* respond_to_consent records a decision once and goes on, or returns.
LEMMA DecideStrolls ==
    ASSUME Base, NEW t \in Callers, NEW decision \in {"approved", "denied"}, Decide(t, decision)
    PROVE  /\ \E k : Strolls(t, k)
           /\ \/ UNCHANGED consent
              \/ /\ consent[task[t].id] = "pending" /\ task[t].id \in Ids
                 /\ consent' = [consent EXCEPT ![task[t].id] = decision]
           /\ UNCHANGED <<route, media>>
<1>1. t \in Tasks /\ t \notin Owned
  BY CallersAside
<1>2. /\ task[t].pc = "gate" /\ task[t].op = "consent"
      /\ UNCHANGED <<now, registryVars, state, group, cleanup, home>>
      /\ UNCHANGED <<route, media>>
  BY DEF Decide, GateFree
<1>3. PlaceOK(task[t]) /\ task[t] \in TaskRecord
  BY <1>1 DEF Base, Types, Places
<1>4. task[t].id \in Ids
  BY <1>2, <1>3 DEF PlaceOK, SweepOps
<1>5. \/ UNCHANGED consent
      \/ /\ consent[task[t].id] = "pending"
         /\ consent' = [consent EXCEPT ![task[t].id] = decision]
  BY DEF Decide
<1>6. WorldTypes'
  BY <1>2, <1>4, <1>5 DEF Base, Types, WorldTypes
<1>7. CASE Return(t, TRUE)
  BY <1>1, <1>2, <1>4, <1>5, <1>6, <1>7, ReturnStrolls
<1>8. CASE Return(t, FALSE)
  BY <1>1, <1>2, <1>4, <1>5, <1>6, <1>8, ReturnStrolls
<1>9. CASE ~Return(t, TRUE) /\ ~Return(t, FALSE)
  <2>1. PICK op : op = IF decision = "approved" THEN "approve" ELSE "fail"
    OBVIOUS
  <2>2. /\ task' = [task EXCEPT ![t].op = op, ![t].pc = "lookup"]
        /\ gate' = t /\ UNCHANGED operation
    BY <1>9, <2>1 DEF Decide
  <2>3. PICK k : k = [task[t] EXCEPT !.op = op, !.pc = "lookup"]
    OBVIOUS
  <2>4. op \in Ops /\ op \notin {"start", "intent"} /\ "lookup" \in Pcs
    BY <2>1 DEF Ops, CallerOps, InnerOps, Pcs
  <2>5. k \in TaskRecord /\ k.pc = "lookup" /\ k.op = op /\ k.id = task[t].id
    BY <1>3, <2>3, <2>4 DEF TaskRecord, Ops
  <2>6. task' = [task EXCEPT ![t] = k]
    BY <2>2, <2>3 DEF Base, Types
  <2>7. PlaceOK(k) /\ k.pc \notin Critical
    BY <1>4, <2>4, <2>5 DEF PlaceOK, AtEntry, Critical, Ports
  <2>8. Strolls(t, k)
    BY <1>1, <1>2, <1>6, <2>2, <2>5, <2>6, <2>7 DEF Strolls
  <2> QED BY <1>2, <1>4, <1>5, <2>8
<1> QED BY <1>7, <1>8, <1>9

\* The installation of an authorization returns.
LEMMA AuthorizeStrolls ==
    ASSUME Base, NEW t \in Callers, NEW ok \in BOOLEAN, Authorize(t, ok)
    PROVE  (\E k : Strolls(t, k)) /\ UNCHANGED worldVars
<1>1. t \in Tasks /\ t \notin Owned
  BY CallersAside
<1>2. /\ task[t].pc = "gate" /\ task[t].op = "authorize" /\ Return(t, ok)
      /\ UNCHANGED <<now, registryVars, state, group, cleanup, home>>
      /\ UNCHANGED worldVars
  BY DEF Authorize, GateFree
<1>3. task[t].id \in Ids
  BY <1>1, <1>2 DEF Base, Places, PlaceOK, SweepOps
<1>4. WorldTypes'
  BY <1>2, SameWorld DEF Base
<1> QED BY <1>1, <1>2, <1>3, <1>4, ReturnStrolls

\* A sweep takes a snapshot of the map.
LEMMA StartSweepStrolls ==
    ASSUME Base, NEW t \in Callers, StartSweep(t)
    PROVE  (\E k : Strolls(t, k)) /\ UNCHANGED worldVars
<1>1. t \in Tasks /\ t \notin Owned
  BY CallersAside
<1>2. PICK todo : todo = {p \in Ids \X Entries : sessions[p[1]] = p[2]}
  OBVIOUS
<1>3. /\ task[t].op \in SweepOps /\ gate' = t
      /\ task' = [task EXCEPT ![t].pc = "sweep", ![t].since = now, ![t].todo = todo]
      /\ UNCHANGED <<now, registryVars, state, group, cleanup, home>>
      /\ UNCHANGED worldVars /\ operation' = operation
  BY <1>2 DEF StartSweep
<1>4. task[t] \in TaskRecord /\ PlaceOK(task[t]) /\ now \in 0 .. MaxTime
  BY <1>1 DEF Base, Types, Places
<1>5. todo \in SUBSET (Ids \X Entries) /\ "sweep" \in Pcs
  BY <1>2 DEF Pcs
<1>6. PICK k : k = [task[t] EXCEPT !.pc = "sweep", !.since = now, !.todo = todo]
  OBVIOUS
<1>7. /\ k \in TaskRecord /\ k.pc = "sweep" /\ k.op = task[t].op /\ k.arg = task[t].arg
  BY <1>4, <1>5, <1>6 DEF TaskRecord
<1>8. task' = [task EXCEPT ![t] = k]
  BY <1>3, <1>6 DEF Base, Types
<1>9. PlaceOK(k) /\ k.pc \notin Critical
  BY <1>3, <1>4, <1>7 DEF PlaceOK, AtEntry, Critical, Ports
<1>10. WorldTypes'
  BY <1>3, SameWorld DEF Base
<1> QED BY <1>1, <1>3, <1>7, <1>8, <1>9, <1>10 DEF Strolls

\* A sweep takes one entry of its snapshot.
LEMMA SweepEntryStrolls ==
    ASSUME Base, NEW t \in Callers, NEW p \in task[t].todo, SweepEntry(t, p)
    PROVE  (\E k : Strolls(t, k)) /\ UNCHANGED worldVars
<1>1. t \in Tasks /\ t \notin Owned
  BY CallersAside
<1>2. PICK pc : pc = IF Due(t, p[2]) THEN "lookup" ELSE "sweep"
  OBVIOUS
<1>3. PICK todo : todo = task[t].todo \ {p}
  OBVIOUS
<1>4. /\ task' = [task EXCEPT ![t].todo = todo, ![t].id = p[1], ![t].pc = pc]
      /\ UNCHANGED <<now, registryVars, state, group, cleanup, home>>
      /\ UNCHANGED worldVars /\ operation' = operation /\ gate' = gate
  BY <1>2, <1>3 DEF SweepEntry
<1>5. task[t] \in TaskRecord /\ PlaceOK(task[t])
  BY <1>1 DEF Base, Types, Places
<1>6. task[t].todo \subseteq Ids \X Entries
  BY <1>5 DEF TaskRecord
<1>7. p[1] \in Ids /\ todo \in SUBSET (Ids \X Entries)
  BY <1>3, <1>6
<1>8. pc \in Pcs /\ pc \in {"lookup", "sweep"}
  BY <1>2 DEF Pcs
<1>9. PICK k : k = [task[t] EXCEPT !.todo = todo, !.id = p[1], !.pc = pc]
  OBVIOUS
<1>10. /\ k \in TaskRecord /\ k.pc = pc /\ k.op = task[t].op /\ k.id = p[1]
       /\ k.arg = task[t].arg
  BY <1>5, <1>7, <1>8, <1>9 DEF TaskRecord
<1>11. task' = [task EXCEPT ![t] = k]
  BY <1>4, <1>9 DEF Base, Types
<1>12. PlaceOK(k) /\ k.pc \notin Critical
  BY <1>5, <1>7, <1>8, <1>10 DEF PlaceOK, AtEntry, Critical, Ports
<1>13. WorldTypes' /\ gate' \in Tasks \cup {None}
  BY <1>4, SameWorld DEF Base, Types
<1> QED BY <1>1, <1>4, <1>10, <1>11, <1>12, <1>13 DEF Strolls

\* A sweep ends, or a caller is dropped where it waits.
LEMMA StopCallerStrolls ==
    ASSUME Base, NEW t \in Callers, EndSweep(t) \/ DropCaller(t)
    PROVE  (\E k : Strolls(t, k)) /\ UNCHANGED worldVars
<1>1. t \in Tasks /\ t \notin Owned
  BY CallersAside
<1>2. /\ task' = [task EXCEPT ![t] = Idle] /\ gate' = Ungated(t)
      /\ operation' = operation \/ operation' = Unlocked(t)
      /\ UNCHANGED <<now, registryVars, state, group, cleanup, home>>
      /\ UNCHANGED worldVars
  BY DEF EndSweep, DropCaller
<1>3. gate' \in Tasks \cup {None} /\ WorldTypes'
  BY <1>2, SameWorld DEF Base, Types, Ungated
<1> QED BY <1>1, <1>2, <1>3, StopStrolls

\* The service fails a session that it cannot spawn the task for.
LEMMA FailCallStrolls ==
    ASSUME Base, NEW t \in Callers, task[t].pc \in AtEntry,
           task' = [task EXCEPT ![t].pc = "gate", ![t].op = "fail"],
           UNCHANGED <<now, registryVars, state, operation, group, cleanup, gate, home, worldVars>>
    PROVE  \E k : Strolls(t, k)
<1>1. t \in Tasks /\ t \notin Owned
  BY CallersAside
<1>2. task[t] \in TaskRecord /\ PlaceOK(task[t])
  BY <1>1 DEF Base, Types, Places
<1>3. task[t].id \in Ids
  BY <1>2 DEF PlaceOK, AtEntry, Ports
<1>4. PICK k : k = [task[t] EXCEPT !.pc = "gate", !.op = "fail"]
  OBVIOUS
<1>5. "gate" \in Pcs /\ "fail" \in Ops
  BY DEF Pcs, Ops, CallerOps
<1>6. k \in TaskRecord /\ k.pc = "gate" /\ k.op = "fail" /\ k.id = task[t].id
  BY <1>2, <1>4, <1>5 DEF TaskRecord, Ops
<1>7. task' = [task EXCEPT ![t] = k]
  BY <1>4 DEF Base, Types
<1>8. PlaceOK(k) /\ k.pc \notin Critical
  BY <1>3, <1>6 DEF PlaceOK, AtEntry, Critical, Ports
<1>9. WorldTypes' /\ gate' \in Tasks \cup {None}
  BY SameWorld DEF Base, Types
<1> QED BY <1>1, <1>6, <1>7, <1>8, <1>9 DEF Strolls

\* The check before generation zero is spawned.
LEMMA SpawnCheckStrolls ==
    ASSUME Base, NEW t \in Callers, SpawnCheck(t)
    PROVE  (\E k : Strolls(t, k)) /\ UNCHANGED worldVars
<1>1. t \in Tasks /\ t \notin Owned
  BY CallersAside
<1>2. /\ task[t].pc = "spawn_check" /\ task[t].pc \in AtEntry
      /\ UNCHANGED <<now, registryVars, state, group, cleanup, home>>
      /\ UNCHANGED worldVars
  BY DEF SpawnCheck, AtEntry
<1>3. WorldTypes' /\ task[t].id \in Ids
  BY <1>1, <1>2, SameWorld DEF Base, Places, PlaceOK, AtEntry
<1>4. CASE Goto(t, "spawn") /\ UNCHANGED <<operation, gate>>
  <2>1. "spawn" \in Pcs \ (AtEntry \ {"spawn"}) /\ gate' \in Tasks \cup {None}
    BY <1>4 DEF Pcs, Base, Types
  <2> QED BY <1>1, <1>2, <1>3, <1>4, <2>1, GotoStrolls
<1>5. CASE Return(t, TRUE)
  BY <1>1, <1>2, <1>3, <1>5, ReturnStrolls
<1>6. CASE task' = [task EXCEPT ![t].pc = "gate", ![t].op = "fail"] /\ UNCHANGED <<operation, gate>>
  BY <1>2, <1>6, FailCallStrolls
<1> QED BY <1>4, <1>5, <1>6 DEF SpawnCheck

\* A closed group refuses the task.
LEMMA SpawnRefusedStrolls ==
    ASSUME Base, NEW t \in Callers, SpawnRefused(t)
    PROVE  (\E k : Strolls(t, k)) /\ UNCHANGED worldVars
BY FailCallStrolls DEF SpawnRefused, AtEntry
-----------------------------------------------------------------------------
(* The steps of the owned task.                                            *)

\* An owned task that runs belongs to an entry of its own id.
LEMMA OwnedFacts ==
    ASSUME Base, NEW o \in Owned, task[o].pc \notin {"idle", "finished"}
    PROVE  /\ o \in Tasks /\ task[o].id \in Ids /\ task[o] \in TaskRecord
           /\ PlaceOK(task[o]) /\ OwnedOK(task[o], home[o])
           /\ home[o] \in Allocated /\ idOf[home[o]] = task[o].id
           /\ task[o].op \in OwnedOps /\ home[o] \in Entries
<1>1. o \in Tasks /\ OwnedOK(task[o], home[o]) /\ PlaceOK(task[o]) /\ task[o] \in TaskRecord
  BY DEF Base, Types, Places, Tasks
<1>2. task[o].op \notin SweepOps
  BY <1>1 DEF OwnedOK, OwnedOps, SweepOps
<1>3. home[o] \in Allocated
  BY <1>1 DEF OwnedOK
<1>4. home[o] \in Entries
  BY <1>3, CoordinatorAssumption DEF Base, Types, Allocated, Entries
<1> QED BY <1>1, <1>2, <1>3, <1>4 DEF OwnedOK, PlaceOK

\* Steps of an owned task that neither hold nor take the operation lock.
OwnedMove(o, k) ==
    \/ k = Then(o, "negotiate", "lookup") /\ task[o].op = "claim"
    \/ k = Then(o, "claim", "failed") /\ task[o].op = "claim"
    \/ k = Then(o, "commit", "gate") /\ task[o].op = "negotiate"
    \/ k = Then(o, task[o].op, "failed")
    \/ k = Then(o, "stream", "gate")
    \/ k = Then(o, "owned_fail", "gate")
    \/ k = Ended
    \/ /\ k.op = task[o].op /\ k.id = task[o].id /\ k.arg = task[o].arg
       /\ k.op = "stream" \/ (k.op = "negotiate" /\ k.pc = "failed")

\* The claim of the lease, won or lost.
LEMMA ClaimStrolls ==
    ASSUME Base, NEW o \in Owned, NEW ok \in BOOLEAN, Claim(o, ok)
    PROVE  (\E k : Strolls(o, k) /\ OwnedMove(o, k)) /\ UNCHANGED worldVars
<1>1. /\ task[o].pc = "spawned" /\ operation' = operation /\ gate' = gate
      /\ UNCHANGED <<now, registryVars, state, group, cleanup, home>>
      /\ UNCHANGED worldVars
  BY DEF Claim
<1>0. task[o].op = "claim"
  BY <1>1, OwnedFacts DEF OwnedOK, Paired
<1>2. /\ WorldTypes' /\ gate' \in Tasks \cup {None}
  BY <1>1, SameWorld DEF Base, Types
<1>3. {"lookup", "failed"} \subseteq {"lookup", "gate", "failed"} /\ {"claim", "negotiate"} \subseteq OwnedOps
  BY DEF Pcs, AtEntry, Ports, OwnedOps
<1>4. CASE task' = [task EXCEPT ![o] = Then(o, "negotiate", "lookup")]
  <2>1. Strolls(o, Then(o, "negotiate", "lookup"))
    BY <1>1, <1>2, <1>3, <1>4, OwnedFacts, ThenStrolls
  <2> QED BY <1>0, <1>1, <2>1 DEF OwnedMove
<1>5. CASE task' = [task EXCEPT ![o] = Then(o, "claim", "failed")]
  <2>1. Strolls(o, Then(o, "claim", "failed"))
    BY <1>1, <1>2, <1>3, <1>5, OwnedFacts, ThenStrolls
  <2> QED BY <1>0, <1>1, <2>1 DEF OwnedMove
<1> QED BY <1>4, <1>5 DEF Claim

\* The peer negotiated, or failed.
LEMMA PeerStrolls ==
    ASSUME Base, NEW o \in Owned, PeerNegotiated(o) \/ PeerFailed(o)
    PROVE  (\E k : Strolls(o, k) /\ OwnedMove(o, k)) /\ UNCHANGED worldVars
<1>1. /\ task[o].pc = "peer" /\ operation' = operation /\ gate' = gate
      /\ UNCHANGED <<now, registryVars, state, group, cleanup, home>>
      /\ UNCHANGED worldVars
  BY DEF PeerNegotiated, PeerFailed
<1>0. task[o].op = "negotiate"
  BY <1>1, OwnedFacts DEF OwnedOK, Paired
<1>2. /\ WorldTypes' /\ gate' \in Tasks \cup {None}
  BY <1>1, SameWorld DEF Base, Types
<1>3. {"gate", "failed"} \subseteq {"lookup", "gate", "failed"} /\ "commit" \in OwnedOps
  BY DEF Pcs, AtEntry, Ports, OwnedOps
<1>4. CASE PeerNegotiated(o)
  <2>1. Strolls(o, Then(o, "commit", "gate"))
    BY <1>1, <1>2, <1>3, <1>4, OwnedFacts, ThenStrolls DEF PeerNegotiated
  <2> QED BY <1>0, <1>1, <2>1 DEF OwnedMove
<1>5. CASE PeerFailed(o)
  <2>1. Goto(o, "failed") /\ "failed" \in Pcs \ (AtEntry \ {"spawn"}) /\ Paired("failed", task[o].op)
    BY <1>5 DEF PeerFailed, Pcs, AtEntry, Ports, Paired
  <2>2. PICK k : /\ Strolls(o, k)
                 /\ k.pc = "failed" /\ k.op = task[o].op /\ k.id = task[o].id
                 /\ k.arg = task[o].arg
    BY <1>1, <1>2, <2>1, OwnedFacts, GotoStrolls
  <2> QED BY <1>0, <1>1, <2>2 DEF OwnedMove
<1> QED BY <1>4, <1>5

\* The fence after a commit looks at the cancellation.
LEMMA CommittedStrolls ==
    ASSUME Base, NEW o \in Owned, Committed(o)
    PROVE  /\ UNCHANGED worldVars
           /\ \/ Cancelled(o) /\ Strolls(o, Then(o, "commit", "failed"))
              \/ Strolls(o, Then(o, "stream", "gate"))
<1>1. /\ task[o].pc = "committed" /\ operation' = operation /\ gate' = gate
      /\ UNCHANGED <<now, registryVars, state, group, cleanup, home>>
      /\ UNCHANGED worldVars
  BY DEF Committed
<1>0. task[o].op = "commit"
  BY <1>1, OwnedFacts DEF OwnedOK, Paired
<1>2. /\ WorldTypes' /\ gate' \in Tasks \cup {None}
  BY <1>1, SameWorld DEF Base, Types
<1>3. {"gate", "failed"} \subseteq {"lookup", "gate", "failed"} /\ {"commit", "stream"} \subseteq OwnedOps
  BY DEF Pcs, AtEntry, Ports, OwnedOps
<1>4. CASE Cancelled(o)
  BY <1>1, <1>2, <1>3, <1>4, OwnedFacts, ThenStrolls DEF Committed
<1>5. CASE ~Cancelled(o)
  BY <1>1, <1>2, <1>3, <1>5, OwnedFacts, ThenStrolls DEF Committed
<1> QED BY <1>1, <1>4, <1>5

\* The media's steps, all of them within the operation "stream".
LEMMA MediaStrolls ==
    ASSUME Base, NEW o \in Owned,
           \/ MediaCheck(o)
           \/ \E ok \in BOOLEAN : MediaStart(o, ok) \/ MediaReady(o, ok) \/ Activated(o, ok)
    PROVE  (\E k : Strolls(o, k) /\ OwnedMove(o, k)) /\ UNCHANGED <<consent, route>>
<1>1. /\ task[o].pc \in {"gate", "media_start", "media_wait", "activated"}
      /\ operation' = operation /\ gate' \in {gate, o, None}
      /\ UNCHANGED <<now, registryVars, state, group, cleanup, home>>
      /\ UNCHANGED <<consent, route>>
  BY DEF MediaCheck, MediaStart, MediaReady, Activated, GateFree, Ungated, worldVars
<1>2. /\ o \in Tasks /\ task[o].id \in Ids /\ task[o].pc \notin {"idle", "finished"}
  BY <1>1, OwnedFacts
<1>0. task[o].op = "stream"
  <2>1. task[o].pc = "gate" => task[o].op = "stream"
    BY DEF MediaCheck, MediaStart, MediaReady, Activated
  <2> QED BY <1>1, <2>1, OwnedFacts DEF OwnedOK, Paired
<1>3. media' = media \/ media' = [media EXCEPT ![task[o].id] = TRUE]
  BY DEF MediaCheck, MediaStart, MediaReady, Activated, worldVars
<1>4. /\ WorldTypes' /\ gate' \in Tasks \cup {None}
  BY <1>1, <1>2, <1>3 DEF WorldTypes, Base, Types
<1>5. \/ \E pc \in {"media_start", "failed", "media_wait", "lookup"} : Goto(o, pc)
      \/ task' = [task EXCEPT ![o] = Ended]
  BY DEF MediaCheck, MediaStart, MediaReady, Activated
<1>6. CASE task' = [task EXCEPT ![o] = Ended]
  <2>1. Strolls(o, Ended)
    BY <1>1, <1>2, <1>4, <1>6, StopStrolls
  <2> QED BY <1>0, <1>1, <2>1 DEF OwnedMove
<1>7. CASE \E pc \in {"media_start", "failed", "media_wait", "lookup"} : Goto(o, pc)
  <2>1. PICK pc \in {"media_start", "failed", "media_wait", "lookup"} : Goto(o, pc)
    BY <1>7
  <2>2. pc \in Pcs \ (AtEntry \ {"spawn"}) /\ pc # "spawn" /\ Paired(pc, task[o].op)
    BY <1>0 DEF Pcs, AtEntry, Ports, Paired
  <2>3. PICK k : /\ Strolls(o, k)
                 /\ k.pc = pc /\ k.op = task[o].op /\ k.id = task[o].id
                 /\ k.arg = task[o].arg
    BY <1>1, <1>2, <1>4, <2>1, <2>2, GotoStrolls
  <2> QED BY <1>0, <1>1, <2>3 DEF OwnedMove
<1> QED BY <1>5, <1>6, <1>7

\* The error path takes back only the route its own commit began.
LEMMA RecoverStrolls ==
    ASSUME Base, NEW o \in Owned, Recover(o)
    PROVE  /\ \E k : Strolls(o, k) /\ OwnedMove(o, k)
                     /\ (k = Ended \/ k = Then(o, "owned_fail", "gate"))
           /\ task[o].pc = "failed" /\ task[o].id \in Ids
           /\ UNCHANGED <<consent, media>>
           /\ \/ UNCHANGED route
              \/ /\ task[o].op = "commit" /\ task[o].arg = TRUE
                 /\ route' = [route EXCEPT ![task[o].id] = FALSE]
<1>1. /\ task[o].pc = "failed" /\ operation' = operation /\ gate' = gate
      /\ UNCHANGED <<now, registryVars, state, group, cleanup, home>>
      /\ UNCHANGED <<consent, media>>
      /\ \/ UNCHANGED route
         \/ /\ task[o].op = "commit" /\ task[o].arg = TRUE
            /\ route' = [route EXCEPT ![task[o].id] = FALSE]
      /\ \/ task' = [task EXCEPT ![o] = Ended]
         \/ task' = [task EXCEPT ![o] = Then(o, "owned_fail", "gate")]
  BY DEF Recover
<1>2. /\ o \in Tasks /\ task[o].id \in Ids /\ task[o].pc \notin {"idle", "finished"}
  BY <1>1, OwnedFacts
<1>3. /\ WorldTypes' /\ gate' \in Tasks \cup {None}
  BY <1>1, <1>2 DEF WorldTypes, Base, Types
<1>4. CASE task' = [task EXCEPT ![o] = Ended]
  <2>1. Strolls(o, Ended)
    BY <1>1, <1>2, <1>3, <1>4, StopStrolls
  <2> QED BY <1>1, <1>2, <2>1 DEF OwnedMove
<1>5. CASE task' = [task EXCEPT ![o] = Then(o, "owned_fail", "gate")]
  <2>1. "gate" \in {"lookup", "gate", "failed"} /\ "owned_fail" \in OwnedOps
    BY DEF Pcs, AtEntry, Ports, OwnedOps
  <2>2. Strolls(o, Then(o, "owned_fail", "gate"))
    BY <1>1, <1>2, <1>3, <1>5, <2>1, ThenStrolls
  <2> QED BY <1>1, <1>2, <2>2 DEF OwnedMove
<1> QED BY <1>1, <1>4, <1>5

\* A cancelled task goes to its error path, and a committed one does not.
LEMMA InterruptStrolls ==
    ASSUME Base, NEW o \in Owned, Interrupt(o)
    PROVE  /\ UNCHANGED worldVars
           /\ task[o].op \in {"negotiate", "commit", "stream", "owned_fail"}
           /\ task[o].op = "commit" => task[o].pc \notin {"committed", "failed", "finished"}
           /\ \/ task[o].op # "commit" /\ Strolls(o, Ended)
              \/ Strolls(o, Then(o, task[o].op, "failed"))
<1>1. /\ task[o].op \in {"negotiate", "commit", "stream", "owned_fail"}
      /\ task[o].pc # "finished"
      /\ task[o].op = "commit" => task[o].pc \notin {"committed", "failed", "finished"}
  BY DEF Interrupt, Interruptible
<1>2. /\ operation' = Unlocked(o) /\ gate' = Ungated(o)
      /\ UNCHANGED <<now, registryVars, state, group, cleanup, home>>
      /\ UNCHANGED worldVars
      /\ \/ task[o].op = "owned_fail" /\ task' = [task EXCEPT ![o] = Ended]
         \/ task' = [task EXCEPT ![o] = Then(o, task[o].op, "failed")]
  BY DEF Interrupt
<1>3. task[o].pc # "idle"
  BY <1>1 DEF Base, Places, OwnedOK, Paired
<1>4. o \in Tasks /\ task[o].id \in Ids /\ task[o].op \in OwnedOps
  BY <1>1, <1>3, OwnedFacts
<1>5. /\ WorldTypes' /\ gate' \in Tasks \cup {None}
  BY <1>2, SameWorld DEF Base, Types, Ungated
<1>6. "failed" \in {"lookup", "gate", "failed"}
  BY DEF Pcs, AtEntry, Ports
<1> QED BY <1>1, <1>2, <1>3, <1>4, <1>5, <1>6, StopStrolls, ThenStrolls
-----------------------------------------------------------------------------
(* The steps within the operation lock that apply nothing.                 *)

Stays(t, k) ==
    /\ k \in TaskRecord /\ PlaceOK(k) /\ (t \in Owned => OwnedOK(k, home[t]))
    /\ task' = [task EXCEPT ![t] = k]
    /\ k.pc \in Critical \ {"finalizing"} /\ k.ent = task[t].ent /\ k.id = task[t].id
    /\ k.op = task[t].op
    /\ task[t].pc \in AtEntry
    /\ \/ operation' = Held(t) /\ Ready(t)
       \/ operation' = operation /\ task[t].pc \in Critical
    /\ UNCHANGED <<now, registryVars, state, group, cleanup, gate, home>>
    /\ WorldTypes'

\* Every step under the operation lock keeps types and places.
LEMMA StaysBase ==
    ASSUME Base, NEW t \in Tasks, NEW k, Stays(t, k)
    PROVE  Base'
<1>1. /\ k \in TaskRecord /\ PlaceOK(k) /\ (t \in Owned => OwnedOK(k, home[t]))
      /\ task' = [task EXCEPT ![t] = k] /\ UNCHANGED <<registryVars, home>>
      /\ gate' = gate /\ WorldTypes'
      /\ now' = now /\ state' = state /\ group' = group /\ cleanup' = cleanup
  BY DEF Stays
<1>2. operation' \in [Entries -> Tasks \cup {None}]
  BY DEF Stays, Held, Base, Types
<1>3. /\ now' \in 0 .. MaxTime /\ gate' \in Tasks \cup {None}
      /\ state' \in [Entries -> Shape] /\ \A e \in Entries : Typed(state'[e])
      /\ group' \in [Entries -> GroupRecord] /\ cleanup' \in [Entries -> CleanupRecord]
      /\ \A e \in Entries : e \notin Allocated => cleanup'[e].stage = "none"
  BY <1>1 DEF Base, Types, Places, EntriesOK
<1> QED BY <1>1, <1>2, <1>3, MovedBase

\* The end of a cleanup lets the task that waits return or go on.
LEMMA FinalizedCases ==
    ASSUME Base, NEW t \in Tasks, Finalized(t)
    PROVE  /\ UNCHANGED worldVars /\ task[t].pc = "finalizing"
           /\ \/ \E ok \in BOOLEAN : Return(t, ok) /\ Strolls(t, Resumed(t, ok))
              \/ \E k : Stays(t, k) /\ k.pc \in {"send_intent", "publish", "bind_access"}
                                    /\ k.arg = task[t].arg
<1> DEFINE c == cleanup[task[t].on]
           ok == task[t].ok /\ ~c.err
<1>1. /\ task[t].pc = "finalizing" /\ UNCHANGED worldVars
      /\ UNCHANGED <<now, registryVars, state, group, cleanup, home>>
  BY DEF Finalized
<1>2. /\ task[t] \in TaskRecord /\ PlaceOK(task[t]) /\ task[t].id \in Ids
      /\ t \in Owned => OwnedOK(task[t], home[t])
  BY <1>1 DEF Base, Types, Places, PlaceOK, SweepOps
<1>3. WorldTypes'
  BY <1>1, SameWorld DEF Base
<1>4. \/ Return(t, ok)
      \/ /\ task[t].cont # "return"
         /\ task' = [task EXCEPT ![t].pc = task[t].cont, ![t].on = NoEntry]
         /\ UNCHANGED <<operation, gate>>
  BY DEF Finalized
<1>5. ok \in BOOLEAN
  OBVIOUS
<1> HIDE DEF ok
<1>6. CASE Return(t, ok)
  BY <1>1, <1>2, <1>3, <1>5, <1>6, ReturnStrolls
<1>7. CASE /\ task[t].cont # "return"
           /\ task' = [task EXCEPT ![t].pc = task[t].cont, ![t].on = NoEntry]
           /\ UNCHANGED <<operation, gate>>
  <2>1. PICK pc : pc = task[t].cont
    OBVIOUS
  <2>2. pc \in {"send_intent", "publish", "bind_access"} /\ pc \in Pcs
    BY <1>2, <1>7, <2>1 DEF TaskRecord, Conts, Pcs, Ports
  <2>3. PICK k : k = [task[t] EXCEPT !.pc = pc, !.on = NoEntry]
    OBVIOUS
  <2>4. /\ k \in TaskRecord /\ k.pc = pc /\ k.op = task[t].op /\ k.id = task[t].id
        /\ k.ent = task[t].ent /\ k.arg = task[t].arg
    BY <1>2, <2>2, <2>3 DEF TaskRecord
  <2>5. task' = [task EXCEPT ![t] = k]
    BY <1>7, <2>1, <2>3 DEF Base, Types
  <2>6. PlaceOK(k)
    BY <1>1, <1>2, <2>2, <2>4 DEF PlaceOK, AtEntry
  <2>7. t \in Owned => OwnedOK(k, home[t])
    BY <1>1, <1>2, <2>2, <2>4 DEF OwnedOK, Paired
  <2>8. k.pc \in Critical \ {"finalizing"} /\ task[t].pc \in AtEntry /\ task[t].pc \in Critical
    BY <1>1, <2>2, <2>4 DEF Critical, AtEntry, Ports
  <2>9. Stays(t, k)
    BY <1>1, <1>3, <1>7, <2>4, <2>5, <2>6, <2>7, <2>8 DEF Stays
  <2> QED BY <1>1, <2>2, <2>4, <2>9
<1> QED BY <1>4, <1>6, <1>7

\* The consent request is published under the operation lock.
LEMMA PublishRequestStays ==
    ASSUME Base, NEW t \in Tasks, PublishRequest(t)
    PROVE  /\ \E k : Stays(t, k) /\ k.pc = "published"
           /\ task[t].id \in Ids /\ consent[task[t].id] = "none"
           /\ consent' = [consent EXCEPT ![task[t].id] = "pending"]
           /\ UNCHANGED <<route, media>>
<1>1. /\ task[t].pc = "publish" /\ consent[task[t].id] = "none"
      /\ consent' = [consent EXCEPT ![task[t].id] = "pending"]
      /\ UNCHANGED <<route, media>> /\ Goto(t, "published")
      /\ UNCHANGED <<now, registryVars, state, group, cleanup, gate, home>>
      /\ operation' = operation
  BY DEF PublishRequest
<1>2. /\ task[t] \in TaskRecord /\ PlaceOK(task[t]) /\ task[t].id \in Ids
      /\ t \in Owned => OwnedOK(task[t], home[t])
  BY <1>1 DEF Base, Types, Places, PlaceOK, SweepOps
<1>3. PICK k \in TaskRecord :
             /\ task' = [task EXCEPT ![t] = k]
             /\ k.pc = "published" /\ k.op = task[t].op /\ k.id = task[t].id
             /\ k.ent = task[t].ent
  <2>1. "published" \in Pcs
    BY DEF Pcs, Ports
  <2> QED BY <1>1, <2>1, GotoRecord DEF Base
<1>4. task[t].pc \in AtEntry /\ task[t].pc \in Critical /\ k.pc \in Critical \ {"finalizing"}
  BY <1>1, <1>3 DEF AtEntry, Critical, Ports
<1>5. PlaceOK(k)
  <2>1. task[t].op \in {"start", "intent"} => task[t].arg \in Requests
    BY <1>2 DEF PlaceOK
  <2>2. k.arg = task[t].arg
    BY <1>1, <1>2, <1>3 DEF Goto, TaskRecord, Base, Types
  <2> QED BY <1>2, <1>3, <1>4, <2>1, <2>2 DEF PlaceOK
<1>6. t \in Owned => OwnedOK(k, home[t])
  BY <1>1, <1>2, <1>3 DEF OwnedOK, Paired
<1>7. WorldTypes'
  BY <1>1, <1>2 DEF WorldTypes, Base, Types
<1>8. Stays(t, k)
  BY <1>1, <1>3, <1>4, <1>5, <1>6, <1>7 DEF Stays
<1> QED BY <1>1, <1>2, <1>3, <1>8

\* The first check of a commit: the task's own session, negotiating.
LEMMA CommitCheckCases ==
    ASSUME Base, NEW o \in Owned, CommitCheck(o)
    PROVE  /\ UNCHANGED worldVars /\ task[o].op = "commit" /\ task[o].pc = "lock"
           /\ \/ Return(o, FALSE) /\ Strolls(o, Resumed(o, FALSE))
              \/ /\ \E k : Stays(o, k) /\ k.pc = "install" /\ k.arg = TRUE
                 /\ task[o].ent = home[o] /\ state[home[o]].phase = "Negotiating"
<1>1. /\ task[o].pc = "lock" /\ Ready(o) /\ task[o].op = "commit" /\ UNCHANGED worldVars
      /\ UNCHANGED <<now, registryVars, state, group, cleanup, home>>
  BY DEF CommitCheck, Ready
<1>2. /\ o \in Tasks /\ task[o].id \in Ids /\ task[o] \in TaskRecord
      /\ PlaceOK(task[o]) /\ OwnedOK(task[o], home[o])
  BY <1>1, OwnedFacts
<1>3. WorldTypes'
  BY <1>1, SameWorld DEF Base
<1>4. CASE Return(o, FALSE)
  BY <1>1, <1>2, <1>3, <1>4, ReturnStrolls
<1>5. CASE ~Return(o, FALSE)
  <2>1. /\ task[o].ent = home[o] /\ state[home[o]].phase = "Negotiating"
        /\ task' = [task EXCEPT ![o].pc = "install", ![o].arg = TRUE]
        /\ operation' = Held(o) /\ UNCHANGED gate
    BY <1>5 DEF CommitCheck
  <2>2. PICK k : k = [task[o] EXCEPT !.pc = "install", !.arg = TRUE]
    OBVIOUS
  <2>3. "install" \in Pcs /\ TRUE \in Requests \cup {None, TRUE}
    BY DEF Pcs
  <2>4. k \in TaskRecord
    BY <1>2, <2>2, <2>3, Zenon DEF TaskRecord
  <2>5. /\ k.pc = "install" /\ k.op = task[o].op /\ k.id = task[o].id
        /\ k.ent = task[o].ent /\ k.arg = TRUE
    BY <1>2, <2>2 DEF TaskRecord
  <2>6. task' = [task EXCEPT ![o] = k]
    BY <1>2, <2>1, <2>2 DEF Base, Types
  <2>7. PlaceOK(k)
    BY <1>1, <1>2, <2>5 DEF PlaceOK, AtEntry, Ports
  <2>8. OwnedOK(k, home[o])
    BY <1>1, <1>2, <2>5 DEF OwnedOK, Paired
  <2>9. k.pc \in Critical \ {"finalizing"} /\ task[o].pc \in AtEntry
    BY <1>1, <2>5 DEF Critical, AtEntry
  <2>10. Stays(o, k)
    BY <1>1, <1>3, <2>1, <2>4, <2>5, <2>6, <2>7, <2>8, <2>9 DEF Stays
  <2> QED BY <1>1, <2>1, <2>5, <2>10
<1> QED BY <1>4, <1>5

\* The effective deadline is a time.
LEMMA DeadlineNat ==
    ASSUME NEW st, Typed(st)
    PROVE  EffectiveDeadline(st) \in Nat
<1>1. PICK g : g = st.bound["Granted"]
  OBVIOUS
<1>2. st.deadline \in Nat /\ g \in Grants \cup {None}
  <2>1. "Granted" \in EventKinds
    BY DEF EventKinds, Phases
  <2>2. Payloads("Granted") = Grants
    BY DEF Payloads
  <2> QED BY <1>1, <2>1, <2>2 DEF Typed, Shape
<1>3. g # None => g.expires \in Nat /\ g.policyExpires \in Nat
  BY <1>2, PayloadAssumption DEF IsGrant
<1> QED BY <1>1, <1>2, <1>3 DEF EffectiveDeadline

\* The two ends of an installation, as applications of an event.
LEMMA InstallActs ==
    ASSUME Base, NEW o \in Owned,
           \/ \E proof \in RouteProofs : Installed(o, proof)
           \/ InstallFailed(o)
    PROVE  /\ task[o].pc = "install" /\ task[o].op = "commit"
           /\ Acts(o, {"RelayVerified", "Failed"}, "return")
           /\ UNCHANGED <<consent, media>>
           /\ route' = route \/ route' = [route EXCEPT ![task[o].id] = TRUE]
<1>1. /\ task[o].pc = "install" /\ UNCHANGED <<now, registryVars, group, home>>
      /\ UNCHANGED <<consent, media>>
      /\ route' = route \/ route' = [route EXCEPT ![task[o].id] = TRUE]
  BY DEF Installed, InstallFailed, worldVars
<1>2. o \in Tasks /\ task[o].op = "commit"
  BY <1>1, OwnedFacts DEF OwnedOK, Paired
<1>3. task[o].ent \in Allocated /\ idOf[task[o].ent] = task[o].id
  BY <1>1, <1>2 DEF Base, Places, PlaceOK, AtEntry
<1>4. PICK kind \in {"RelayVerified", "Failed"} :
        /\ Fit(o, task[o].ent, kind)
        /\ \E arg \in Payloads(kind) : \E ok, failed \in BOOLEAN :
             Transition(o, task[o].ent, Event(kind, arg), ok, failed, "return")
  <2>1. CASE InstallFailed(o)
    <3> DEFINE failed == Outcome(state[task[o].ent], Event("Failed", "Transport"), now)
                           \in {"Applied", "Duplicate"}
    <3>1. Transition(o, task[o].ent, Event("Failed", "Transport"), FALSE, failed, "return")
      BY <2>1 DEF InstallFailed
    <3>2. failed \in BOOLEAN /\ "Transport" \in Payloads("Failed")
      BY DEF Payloads, Failures
    <3>3. Fit(o, task[o].ent, "Failed")
      BY DEF Fit
    <3> HIDE DEF failed
    <3> QED BY <3>1, <3>2, <3>3
  <2>2. ASSUME NEW proof \in RouteProofs, Installed(o, proof)
        PROVE  \E kind \in {"RelayVerified", "Failed"} :
                 /\ Fit(o, task[o].ent, kind)
                 /\ \E arg \in Payloads(kind) : \E ok, failed \in BOOLEAN :
                   Transition(o, task[o].ent, Event(kind, arg), ok, failed, "return")
    <3> DEFINE h == task[o].ent
               s == state[h]
               late == now >= EffectiveDeadline(s)
               ev == IF late THEN Event("Failed", "DeadlineExceeded")
                     ELSE IF s.phase # "Negotiating" THEN Event("Failed", "RouteMismatch")
                     ELSE Event("RelayVerified", proof)
               ok == /\ ev.kind = "RelayVerified"
                     /\ Outcome(s, ev, now) \in {"Applied", "Duplicate"}
               failed == Apply(s, ev, now).phase = "Failed"
    <3>1. Transition(o, h, ev, ok, failed, "return")
      BY <2>2 DEF Installed
    <3>2. ok \in BOOLEAN /\ failed \in BOOLEAN
      OBVIOUS
    <3>3. \/ ev = Event("Failed", "DeadlineExceeded")
          \/ ev = Event("Failed", "RouteMismatch")
          \/ ev = Event("RelayVerified", proof) /\ ~late
      OBVIOUS
    <3>5. Fit(o, h, "Failed")
      BY DEF Fit
    <3>6. ~late => now < EffectiveDeadline(s)
      BY <1>3, DeadlineNat, CoordinatorAssumption DEF Base, Types, Allocated, Entries
    <3>7. route' = [route EXCEPT ![task[o].id] = TRUE]
      BY <2>2 DEF Installed
    <3>8. ASSUME ev = Event("RelayVerified", proof), ~late
          PROVE  Fit(o, h, "RelayVerified")
      <4>1. s.phase = "Negotiating"
        BY <3>8, Zenon DEF Event
      <4>2. state'[h].phase = "RelayVerified" =>
              task'[o].pc = "committed" /\ task'[o].op = "commit"
        <5> SUFFICES ASSUME state'[h].phase = "RelayVerified"
                     PROVE  task'[o].pc = "committed" /\ task'[o].op = "commit"
          OBVIOUS
        <5>1. PICK n : n = Apply(s, ev, now)
          OBVIOUS
        <5>2. h \in Entries /\ Typed(s)
          BY <1>3, CoordinatorAssumption DEF Base, Types, Allocated, Entries
        <5>3. n.phase = "RelayVerified" /\ ~Terminal(n)
          <6>1. state' = [state EXCEPT ![h] = n]
            BY <3>1, <5>1 DEF Transition
          <6> QED BY <5>2, <6>1 DEF Base, Types, Terminal, TerminalPhases
        <5>4. Return(o, ok)
          BY <3>1, <5>1, <5>3 DEF Transition
        <5>5. PICK result : result = Outcome(s, ev, now)
          OBVIOUS
        <5>6. result \in {"Applied", "Duplicate"}
          <6>1. CASE result = "Terminal"
            <7>1. n = s
              BY <5>1, <5>5, <6>1 DEF Apply
            <7> QED BY <4>1, <5>3, <7>1
          <6>2. CASE result \notin {"Applied", "Duplicate", "Terminal"}
            <7>1. n = FailWith(s, result)
              BY <5>1, <5>5, <6>2 DEF Apply
            <7>2. n.phase = "Failed"
              BY <5>2, <7>1 DEF FailWith, Accept, Event, Typed, Shape
            <7> QED BY <5>3, <7>2
          <6> QED BY <6>1, <6>2
        <5>7. ok = TRUE
          BY <3>8, <5>5, <5>6 DEF Event
        <5>8. task' = [task EXCEPT ![o] = Resumed(o, TRUE)]
          BY <5>4, <5>7 DEF Return
        <5>9. Resumed(o, TRUE) = Then(o, "commit", "committed")
          BY <1>2 DEF Resumed, SweepOps
        <5>10. "commit" \in Ops /\ "committed" \in Pcs
          BY DEF Ops, InnerOps, Pcs
        <5>11. /\ Then(o, "commit", "committed").pc = "committed"
               /\ Then(o, "commit", "committed").op = "commit"
          BY <1>2, <5>10, ThenRecord DEF Base
        <5> QED BY <1>2, <5>8, <5>9, <5>11 DEF Base, Types
      <4> QED BY <1>1, <3>6, <3>7, <3>8, <4>2 DEF Fit
    <3>4. /\ {"DeadlineExceeded", "RouteMismatch"} \subseteq Payloads("Failed")
          /\ proof \in Payloads("RelayVerified")
      BY DEF Payloads, Failures
    <3> HIDE DEF ok, failed, ev, late, s
    <3> QED BY <3>1, <3>2, <3>3, <3>4, <3>5, <3>8
  <2> QED BY <2>1, <2>2
<1>5. PICK arg \in Payloads(kind), ok \in BOOLEAN, failed \in BOOLEAN :
          Transition(o, task[o].ent, Event(kind, arg), ok, failed, "return")
  BY <1>4
<1>6. kind \in EventKinds /\ "return" \in Conts
  BY KindFacts DEF Conts, EventKinds, Phases
<1>7. Acts(o, {kind}, "return")
  BY <1>1, <1>2, <1>3, <1>4, <1>5, <1>6, TransitionActs
<1>8. Acts(o, {"RelayVerified", "Failed"}, "return")
  BY <1>7, ActsMore
<1> QED BY <1>1, <1>2, <1>8

\* Both ends of an installation keep types and places.
LEMMA InstallBase ==
    ASSUME Base, NEW o \in Owned,
           \/ \E proof \in RouteProofs : Installed(o, proof)
           \/ InstallFailed(o)
    PROVE  Base'
<1>1. /\ task[o].pc = "install" /\ Acts(o, {"RelayVerified", "Failed"}, "return")
      /\ UNCHANGED <<consent, media>>
      /\ route' = route \/ route' = [route EXCEPT ![task[o].id] = TRUE]
  BY InstallActs
<1>2. o \in Tasks /\ task[o].id \in Ids
  BY <1>1, OwnedFacts
<1>3. WorldTypes'
  BY <1>1, <1>2 DEF WorldTypes, Base, Types
<1>4. {"RelayVerified", "Failed"} \subseteq EventKinds /\ task[o].pc \in AtEntry
  BY <1>1 DEF EventKinds, Phases, AtEntry
<1> QED BY <1>1, <1>2, <1>3, <1>4, ActsBase
-----------------------------------------------------------------------------
(* The remaining steps: the key of a grant, a new session, a new task, the *)
(* cleanup and the clock.                                                  *)

\* A key is bound to the entry whose lock is held, if at all.
KeyMove(t, key) ==
    /\ Ready(t) /\ task[t].op = "grant"
    /\ \/ state' = state
       \/ /\ CanBindKey(state[task[t].ent], key)
          /\ state' = [state EXCEPT ![task[t].ent] = BindKey(@, key)]
    /\ UNCHANGED <<now, registryVars, group, cleanup, home, worldVars>>

\* Binding a key changes nothing but the key.
LEMMA KeyState ==
    ASSUME NEW st, Typed(st), NEW key \in Keys
    PROVE  LET nst == BindKey(st, key) IN
           /\ Typed(nst)
           /\ nst.role = st.role /\ nst.deadline = st.deadline
           /\ nst.phase = st.phase /\ nst.bound = st.bound
<1>1. PICK nst : nst = BindKey(st, key)
  OBVIOUS
<1>2. nst \in Shape /\ nst.role = st.role /\ nst.deadline = st.deadline
      /\ nst.phase = st.phase /\ nst.bound = st.bound
  BY <1>1 DEF BindKey, Typed, Shape
<1> QED BY <1>1, <1>2 DEF Typed

\* bind_grant_key: the key is bound, or the call returns.
LEMMA BindGrantKeyMoves ==
    ASSUME Base, NEW t \in Tasks, NEW key \in Keys, BindGrantKey(t, key)
    PROVE  /\ KeyMove(t, key)
           /\ \/ Return(t, FALSE)
              \/ Goto(t, "key_bound") /\ operation' = Held(t) /\ UNCHANGED gate
<1>1. Ready(t) /\ task[t].op = "grant"
      /\ UNCHANGED <<now, registryVars, group, cleanup, home, worldVars>>
  BY DEF BindGrantKey
<1>2. \/ state' = state
      \/ /\ CanBindKey(state[task[t].ent], key)
         /\ state' = [state EXCEPT ![task[t].ent] = BindKey(@, key)]
  BY DEF BindGrantKey
<1>3. \/ Return(t, FALSE)
      \/ Goto(t, "key_bound") /\ operation' = Held(t) /\ UNCHANGED gate
  BY DEF BindGrantKey
<1> QED BY <1>1, <1>2, <1>3 DEF KeyMove

\* It keeps types and places.
LEMMA BindGrantKeyBase ==
    ASSUME Base, NEW t \in Tasks, NEW key \in Keys, BindGrantKey(t, key)
    PROVE  Base'
<1>1. /\ KeyMove(t, key)
      /\ \/ Return(t, FALSE)
         \/ Goto(t, "key_bound") /\ operation' = Held(t) /\ UNCHANGED gate
  BY BindGrantKeyMoves
<1>2. /\ task[t].pc = "lock" /\ task[t].op = "grant"
      /\ UNCHANGED <<now, registryVars, group, cleanup, home>> /\ UNCHANGED worldVars
  BY <1>1 DEF KeyMove, Ready
<1>3. /\ task[t] \in TaskRecord /\ PlaceOK(task[t]) /\ task[t].id \in Ids
      /\ t \in Owned => OwnedOK(task[t], home[t])
      /\ task[t].ent \in Entries /\ task[t].ent \in Allocated
  <2>1. task[t] \in TaskRecord /\ PlaceOK(task[t]) /\ (t \in Owned => OwnedOK(task[t], home[t]))
    BY DEF Base, Types, Places
  <2>2. task[t].ent \in Allocated /\ task[t].id \in Ids
    BY <1>2, <2>1 DEF PlaceOK, AtEntry, SweepOps
  <2>3. Allocated \subseteq Entries
    BY CoordinatorAssumption DEF Allocated, Entries, Base, Types
  <2> QED BY <2>1, <2>2, <2>3
<1>4. t \notin Owned
  BY <1>2, <1>3 DEF OwnedOK, OwnedOps
<1>5. WorldTypes'
  BY <1>2, SameWorld DEF Base
<1>6. state' \in [Entries -> Shape] /\ \A e \in Entries : Typed(state'[e])
  <2>1. CASE state' = state
    BY <2>1 DEF Base, Types
  <2>2. CASE state' # state
    <3>1. PICK s : s = BindKey(state[task[t].ent], key)
      OBVIOUS
    <3>2. state' = [state EXCEPT ![task[t].ent] = s]
      BY <1>1, <2>2, <3>1 DEF KeyMove
    <3>3. Typed(s) /\ s \in Shape
      BY <1>3, <3>1, KeyState DEF Base, Types, Typed
    <3> QED BY <1>3, <3>2, <3>3 DEF Base, Types
  <2> QED BY <2>1, <2>2
<1>7. /\ now' \in 0 .. MaxTime /\ group' \in [Entries -> GroupRecord]
      /\ cleanup' \in [Entries -> CleanupRecord]
      /\ \A e \in Entries : e \notin Allocated => cleanup'[e].stage = "none"
  BY <1>2 DEF Base, Types, Places, EntriesOK
<1>8. CASE Return(t, FALSE)
  <2>1. /\ operation' \in [Entries -> Tasks \cup {None}]
        /\ gate' \in Tasks \cup {None}
        /\ task' = [task EXCEPT ![t] = Resumed(t, FALSE)]
    BY <1>8, ReturnTypes DEF Base
  <2>2. PlaceOK(Resumed(t, FALSE)) /\ Resumed(t, FALSE) \in TaskRecord
    BY <1>2, <1>3, ResumedPlace, ResumedRecord DEF Base
  <2> QED BY <1>2, <1>4, <1>5, <1>6, <1>7, <2>1, <2>2, MovedBase
<1>9. CASE Goto(t, "key_bound") /\ operation' = Held(t) /\ UNCHANGED gate
  <2>1. "key_bound" \in Pcs
    BY DEF Pcs
  <2>2. PICK k \in TaskRecord :
             /\ task' = [task EXCEPT ![t] = k]
             /\ k.pc = "key_bound" /\ k.op = task[t].op /\ k.id = task[t].id
             /\ k.ent = task[t].ent
    BY <1>9, <2>1, GotoRecord DEF Base
  <2>3. PlaceOK(k)
    BY <1>2, <1>3, <2>2 DEF PlaceOK, AtEntry, Ports
  <2>4. operation' \in [Entries -> Tasks \cup {None}] /\ gate' \in Tasks \cup {None}
    BY <1>3, <1>9 DEF Held, Base, Types
  <2> QED BY <1>2, <1>4, <1>5, <1>6, <1>7, <2>2, <2>3, <2>4, MovedBase
<1> QED BY <1>1, <1>8, <1>9

\* A session is new to the registry: it takes the next entry.
Admits(t, i, fresh) ==
    /\ sessions[i] = NoEntry /\ activeSessions < MaxSessions
    /\ used + 1 \in Entries
    /\ sessions' = [sessions EXCEPT ![i] = used + 1]
    /\ activeSessions' = activeSessions + 1
    /\ used' = used + 1
    /\ idOf' = [idOf EXCEPT ![used + 1] = i]
    /\ state' = [state EXCEPT ![used + 1] = fresh]
    /\ UNCHANGED <<now, terminalOrder, operation, group, cleanup, gate, home, worldVars>>

\* A session begins created and without a grant.
LEMMA FreshState ==
    ASSUME NEW op, NEW deadline \in Deadlines
    PROVE  LET s == Identity(op, deadline) IN
           /\ Typed(s) /\ s.phase = "Created" /\ s.bound["Granted"] = None
<1>1. PICK key : key \in Keys \cup {None} /\ key = (IF op = "start" THEN None ELSE LocalKey)
  BY CoordinatorAssumption
<1>2. PICK role : role \in Roles /\ role = (IF op = "start" THEN "Controller" ELSE "Target")
  BY DEF Roles
<1>3. PICK s : s = NewState(role, deadline, key)
  OBVIOUS
<1>4. s = Identity(op, deadline)
  BY <1>1, <1>2, <1>3 DEF Identity
<1>5. PICK b : b = [k \in EventKinds |-> None]
  OBVIOUS
<1>6. b \in [EventKinds -> AnyPayload] /\ \A k \in EventKinds : b[k] = None
  BY <1>5 DEF AnyPayload
<1>7. deadline \in Nat
  BY CoordinatorAssumption
<1>8. s = [role |-> role, deadline |-> deadline, key |-> key, phase |-> "Created", bound |-> b]
  BY <1>3, <1>5 DEF NewState
<1>9. s \in Shape
  BY <1>1, <1>2, <1>6, <1>7, <1>8 DEF Shape, Phases
<1>10. s.phase = "Created" /\ s.bound = b
  BY <1>8
<1>11. "Granted" \in EventKinds
  BY DEF EventKinds, Phases
<1> QED BY <1>4, <1>6, <1>9, <1>10, <1>11 DEF Typed

\* begin finds the session in the map, or admits a new one within the limit.
LEMMA BeginCases ==
    ASSUME Base, NEW t \in Callers, NEW op \in {"start", "intent"}, NEW i \in Ids,
           NEW d \in Deadlines, NEW r \in Requests, Begin(t, op, i, d, r)
    PROVE  \E k \in TaskRecord :
             /\ k.pc = "lookup" /\ k.op = op /\ k.id = i /\ k.arg = r /\ k.ent = NoEntry
             /\ task' = [task EXCEPT ![t] = k]
             /\ task[t].pc = "idle"
             /\ Strolls(t, k) \/ Admits(t, i, Identity(op, d))
             /\ UNCHANGED <<operation, gate, worldVars>>
<1>1. /\ task[t].pc = "idle"
      /\ UNCHANGED <<now, operation, group, cleanup, gate, home>> /\ UNCHANGED worldVars
  BY DEF Begin
<1>2. PICK k : /\ task' = [task EXCEPT ![t] = k]
               /\ \/ k = [Idle EXCEPT !.pc = "lookup", !.op = op, !.id = i, !.arg = r]
                  \/ k = [Idle EXCEPT !.pc = "lookup", !.op = op, !.id = i, !.arg = r,
                                      !.dup = TRUE]
  BY DEF Begin
<1>4. k \in TaskRecord /\ k.pc = "lookup" /\ k.op = op /\ k.id = i /\ k.arg = r
      /\ k.ent = NoEntry
  <2>1. "lookup" \in Pcs /\ op \in CallerOps \cup InnerOps \cup {"none"}
    BY DEF Pcs, CallerOps
  <2>2. Idle \in TaskRecord /\ Idle.ent = NoEntry
    BY IdleRecord
  <2>3. k.pc = "lookup" /\ k.op = op /\ k.id = i /\ k.arg = r /\ k.ent = NoEntry
    BY <1>2, <2>2 DEF TaskRecord
  <2>4. k \in TaskRecord
    <3>1. CASE k = [Idle EXCEPT !.pc = "lookup", !.op = op, !.id = i, !.arg = r]
      BY <2>1, <2>2, <3>1 DEF TaskRecord
    <3>2. CASE k = [Idle EXCEPT !.pc = "lookup", !.op = op, !.id = i, !.arg = r, !.dup = TRUE]
      <4>1. PICK b \in BOOLEAN : b = TRUE
        OBVIOUS
      <4>2. k = [Idle EXCEPT !.pc = "lookup", !.op = op, !.id = i, !.arg = r, !.dup = b]
        BY <3>2, <4>1, Zenon
      <4> HIDE <4>1
      <4> QED BY <2>1, <2>2, <4>2 DEF TaskRecord
    <3> QED BY <1>2, <3>1, <3>2
  <2> QED BY <2>3, <2>4
<1>5. task' = [task EXCEPT ![t] = k]
  BY <1>2
<1>6. Strolls(t, k) \/ Admits(t, i, Identity(op, d))
  <2>1. CASE sessions[i] # NoEntry
    <3>1. UNCHANGED <<registryVars, state>>
      BY <2>1 DEF Begin
    <3>2. PlaceOK(k) /\ k.pc \notin Critical
      BY <1>4 DEF PlaceOK, AtEntry, Ports, Critical
    <3>3. t \notin Owned
      BY CallersAside
    <3>4. WorldTypes'
      BY <1>1, SameWorld DEF Base
    <3>5. gate' \in Tasks \cup {None}
      BY <1>1 DEF Base, Types
    <3> QED BY <1>1, <1>4, <1>5, <3>1, <3>2, <3>3, <3>4, <3>5 DEF Strolls
  <2>2. CASE sessions[i] = NoEntry
    <3>1. /\ activeSessions < MaxSessions
          /\ used + 1 \in Entries
          /\ sessions' = [sessions EXCEPT ![i] = used + 1]
          /\ activeSessions' = activeSessions + 1
          /\ used' = used + 1
          /\ idOf' = [idOf EXCEPT ![used + 1] = i]
          /\ state' = [state EXCEPT ![used + 1] = Identity(op, d)]
          /\ UNCHANGED terminalOrder
      BY <2>2 DEF Begin
    <3> QED BY <1>1, <2>2, <3>1 DEF Admits
  <2> QED BY <2>1, <2>2
<1> QED BY <1>1, <1>4, <1>5, <1>6

\* An admission keeps types and places.
LEMMA AdmitsBase ==
    ASSUME Base, NEW t \in Callers, NEW i \in Ids, NEW fresh, Typed(fresh),
           Admits(t, i, fresh), NEW k \in TaskRecord,
           k.pc = "lookup", k.id = i, k.arg \in Requests,
           task' = [task EXCEPT ![t] = k]
    PROVE  Base'
<1>0. t \in Tasks /\ t \notin Owned
  BY CallersAside
<1>1. /\ sessions[i] = NoEntry /\ activeSessions < MaxSessions
      /\ used + 1 \in Entries
      /\ sessions' = [sessions EXCEPT ![i] = used + 1]
      /\ activeSessions' = activeSessions + 1
      /\ used' = used + 1
      /\ idOf' = [idOf EXCEPT ![used + 1] = i]
      /\ state' = [state EXCEPT ![used + 1] = fresh]
      /\ now' = now /\ terminalOrder' = terminalOrder /\ operation' = operation
      /\ group' = group /\ cleanup' = cleanup /\ gate' = gate /\ home' = home
      /\ UNCHANGED worldVars
  BY DEF Admits
<1>2. WorldTypes'
  BY <1>1, SameWorld DEF Base
<1>3. used \in Nat /\ MaxEntries \in Nat /\ used + 1 \in 1 .. MaxEntries
  BY <1>1, CoordinatorAssumption DEF Base, Types, Entries
<1>4. Types'
  <2>1. sessions' \in [Ids -> Entries \cup {NoEntry}] /\ idOf' \in [Entries -> Ids \cup {None}]
    BY <1>1 DEF Base, Types
  <2>2. state' \in [Entries -> Shape] /\ \A e \in Entries : Typed(state'[e])
    BY <1>1 DEF Base, Types, Typed
  <2>3. used' \in 0 .. MaxEntries /\ activeSessions' \in Nat
    BY <1>1, <1>3 DEF Base, Types
  <2>4. task' \in [Tasks -> TaskRecord]
    BY <1>0 DEF Base, Types
  <2> QED BY <1>1, <1>2, <2>1, <2>2, <2>3, <2>4 DEF Base, Types
<1>5. /\ Allocated' = Allocated \cup {used + 1} /\ used + 1 \notin Allocated
      /\ Allocated \subseteq Entries
  BY <1>1, <1>3 DEF Allocated, Entries
<1>6. \A e \in Allocated : idOf'[e] = idOf[e]
  BY <1>1, <1>5 DEF Base, Types
<1>7. idOf'[used + 1] = i
  BY <1>1 DEF Base, Types
<1>8. \A u \in Tasks : task'[u] = IF u = t THEN k ELSE task[u]
  BY DEF Base, Types
<1>9. \A u \in Tasks : PlaceOK(task[u])'
  <2> SUFFICES ASSUME NEW u \in Tasks PROVE PlaceOK(task[u])'
    OBVIOUS
  <2>1. CASE u = t
    BY <1>8, <2>1 DEF PlaceOK, AtEntry, Ports
  <2>2. CASE u # t
    <3>1. PlaceOK(task[u]) /\ task'[u] = task[u]
      BY <1>8, <2>2 DEF Base, Places
    <3> QED BY <1>5, <1>6, <3>1 DEF PlaceOK
  <2> QED BY <2>1, <2>2
<1>10. \A o \in Owned : OwnedOK(task[o], home[o])'
  BY <1>0, <1>1, <1>5, <1>6, <1>8, OwnedAreTasks DEF Base, Places, OwnedOK
<1>11. EntriesOK'
  <2>1. \A j \in Ids : sessions'[j] = IF j = i THEN used + 1 ELSE sessions[j]
    BY <1>1 DEF Base, Types
  <2> QED BY <1>1, <1>5, <1>6, <1>7, <2>1 DEF Base, Places, EntriesOK
<1> QED BY <1>4, <1>9, <1>10, <1>11 DEF Base, Places

\* The spawn puts an owned task into an open group.
LEMMA SpawnCases ==
    ASSUME Base, NEW t \in Callers, NEW o \in Owned, Spawn(t, o)
    PROVE  \E k \in TaskRecord :
             /\ k.pc = "spawned" /\ k.op = "claim" /\ k.id = task[t].id /\ k.arg = None
             /\ k.ent = NoEntry
             /\ task' = [task EXCEPT ![t] = Idle, ![o] = k]
             /\ home' = [home EXCEPT ![o] = task[t].ent]
             /\ group' = [group EXCEPT ![task[t].ent].handles =
                            {h \in @ : ~Finished(h)} \cup {o}]
             /\ task[t].pc = "spawn" /\ task[o].pc \in {"idle", "finished"}
             /\ task[t].ent \in Allocated /\ idOf[task[t].ent] = task[t].id
             /\ task[t].id \in Ids
             /\ ~group[task[t].ent].closed
             /\ UNCHANGED <<now, registryVars, state, operation, cleanup, gate, worldVars>>
<1>1. PICK k : k = [Idle EXCEPT !.pc = "spawned", !.op = "claim", !.id = task[t].id]
  OBVIOUS
<1>2. /\ task' = [task EXCEPT ![t] = Idle, ![o] = k]
      /\ home' = [home EXCEPT ![o] = task[t].ent]
      /\ group' = [group EXCEPT ![task[t].ent].handles =
                            {h \in @ : ~Finished(h)} \cup {o}]
      /\ task[t].pc = "spawn" /\ task[o].pc \in {"idle", "finished"}
      /\ ~group[task[t].ent].closed
      /\ UNCHANGED <<now, registryVars, state, operation, cleanup, gate, worldVars>>
  BY <1>1 DEF Spawn, Free, CanSpawn, Finished
<1>3. PlaceOK(task[t]) /\ task[t] \in TaskRecord
  BY CallersAside DEF Base, Types, Places
<1>4. task[t].ent \in Allocated /\ idOf[task[t].ent] = task[t].id /\ task[t].id \in Ids
  BY <1>2, <1>3 DEF PlaceOK, AtEntry, SweepOps
<1>5. k \in TaskRecord /\ k.pc = "spawned" /\ k.op = "claim" /\ k.id = task[t].id
      /\ k.arg = None /\ k.ent = NoEntry
  <2>1. Idle \in TaskRecord /\ Idle.arg = None /\ Idle.ent = NoEntry
    BY IdleRecord
  <2>2. "spawned" \in Pcs /\ "claim" \in CallerOps \cup InnerOps \cup {"none"}
    BY DEF Pcs, InnerOps
  <2> QED BY <1>1, <1>4, <2>1, <2>2 DEF TaskRecord
<1> QED BY <1>2, <1>4, <1>5

\* It keeps types and places.
LEMMA SpawnBase ==
    ASSUME Base, NEW t \in Callers, NEW o \in Owned, Spawn(t, o)
    PROVE  Base'
<1>0. t \in Tasks /\ o \in Tasks /\ t # o /\ t \notin Owned
  BY CallersAside, OwnedAreTasks
<1>1. PICK k \in TaskRecord :
             /\ k.pc = "spawned" /\ k.op = "claim" /\ k.id = task[t].id /\ k.arg = None
             /\ k.ent = NoEntry
             /\ task' = [task EXCEPT ![t] = Idle, ![o] = k]
             /\ home' = [home EXCEPT ![o] = task[t].ent]
             /\ group' = [group EXCEPT ![task[t].ent].handles =
                            {h \in @ : ~Finished(h)} \cup {o}]
             /\ task[t].pc = "spawn" /\ task[o].pc \in {"idle", "finished"}
             /\ task[t].ent \in Allocated /\ idOf[task[t].ent] = task[t].id
             /\ task[t].id \in Ids
             /\ ~group[task[t].ent].closed
             /\ UNCHANGED <<now, registryVars, state, operation, cleanup, gate, worldVars>>
  BY SpawnCases
<1>2. /\ now' = now /\ UNCHANGED registryVars /\ state' = state /\ operation' = operation
      /\ cleanup' = cleanup /\ gate' = gate /\ UNCHANGED worldVars
      /\ used' = used /\ idOf' = idOf /\ sessions' = sessions
      /\ activeSessions' = activeSessions /\ terminalOrder' = terminalOrder
  BY <1>1 DEF registryVars
<1>3. task[t].ent \in Entries
  BY <1>1, CoordinatorAssumption DEF Allocated, Entries, Base, Types
<1>4. \A u \in Tasks : task'[u] = IF u = o THEN k ELSE IF u = t THEN Idle ELSE task[u]
  BY <1>0, <1>1 DEF Base, Types
<1>5. task' \in [Tasks -> TaskRecord]
  BY <1>0, <1>1, IdleRecord DEF Base, Types
<1>6. home' \in [Owned -> Entries \cup {NoEntry}]
      /\ \A p \in Owned : home'[p] = IF p = o THEN task[t].ent ELSE home[p]
  BY <1>1, <1>3 DEF Base, Types
<1>7. group' \in [Entries -> GroupRecord]
  <2>1. PICK hs : hs = {h \in group[task[t].ent].handles : ~Finished(h)} \cup {o}
    OBVIOUS
  <2>2. hs \in SUBSET Owned
    BY <1>3, <2>1 DEF Base, Types, GroupRecord
  <2>3. group' = [group EXCEPT ![task[t].ent].handles = hs]
    BY <1>1, <2>1
  <2> QED BY <1>3, <2>2, <2>3 DEF Base, Types, GroupRecord
<1>8. WorldTypes'
  BY <1>2, SameWorld DEF Base
<1>9. Types'
  BY <1>2, <1>5, <1>6, <1>7, <1>8 DEF Base, Types
<1>10. Allocated' = Allocated
  BY <1>2 DEF Allocated
<1>11. \A u \in Tasks : PlaceOK(task[u])'
  <2> SUFFICES ASSUME NEW u \in Tasks PROVE PlaceOK(task[u])'
    OBVIOUS
  <2>1. CASE u = o
    BY <1>1, <1>4, <2>1 DEF PlaceOK, AtEntry, Ports
  <2>2. CASE u # o
    <3>1. PlaceOK(task[u]) /\ PlaceOK(Idle)
      BY IdlePlace DEF Base, Places
    <3> QED BY <1>2, <1>4, <1>10, <2>2, <3>1 DEF PlaceOK
  <2> QED BY <2>1, <2>2
<1>12. \A p \in Owned : OwnedOK(task[p], home[p])'
  <2> SUFFICES ASSUME NEW p \in Owned PROVE OwnedOK(task[p], home[p])'
    OBVIOUS
  <2>1. CASE p = o
    BY <1>0, <1>1, <1>2, <1>4, <1>6, <1>10, <2>1 DEF OwnedOK, Paired, OwnedOps
  <2>2. CASE p # o
    <3>1. OwnedOK(task[p], home[p]) /\ task'[p] = task[p] /\ home'[p] = home[p]
      BY <1>0, <1>4, <1>6, <2>2, OwnedAreTasks DEF Base, Places
    <3> QED BY <1>2, <1>10, <3>1 DEF OwnedOK
  <2> QED BY <2>1, <2>2
<1>13. EntriesOK'
  BY <1>2, <1>10 DEF Base, Places, EntriesOK
<1> QED BY <1>9, <1>11, <1>12, <1>13 DEF Base, Places

\* A step of the cleanup of entry e that does not end it.
Tears(e) ==
    /\ e \in Allocated /\ cleanup[e].stage \notin {"none", "done"}
    /\ \E c \in CleanupRecord :
         /\ cleanup' = [cleanup EXCEPT ![e] = c]
         /\ c.stage \notin {"none", "done"}
         /\ c.stage = "spawned" => cleanup[e].stage = "spawned"
    /\ UNCHANGED <<now, registryVars, state, home, consent>>

\* Only an allocated entry is cleaned up.
LEMMA BusyCleanup ==
    ASSUME Base, NEW e \in Entries, cleanup[e].stage # "none"
    PROVE  /\ e \in Allocated /\ idOf[e] \in Ids /\ cleanup[e] \in CleanupRecord
           /\ Allocated \subseteq Entries
BY CoordinatorAssumption DEF Base, Types, Places, EntriesOK, Allocated, Entries

\* The first step of a cleanup closes the group.
LEMMA CloseGroupTears ==
    ASSUME Base, NEW e \in Entries, CloseGroup(e)
    PROVE  /\ Tears(e) /\ cleanup[e].stage = "spawned" /\ cleanup'[e].stage = "stop_media"
           /\ group' = [group EXCEPT ![e] = [closed |-> TRUE, handles |-> {}]]
           /\ UNCHANGED <<operation, gate, task, worldVars>>
<1>1. /\ cleanup[e].stage = "spawned"
      /\ group' = [group EXCEPT ![e] = [closed |-> TRUE, handles |-> {}]]
      /\ UNCHANGED <<now, registryVars, state, operation, gate, task, home, worldVars>>
  BY DEF CloseGroup
<1>2. PICK js : js = group[e].handles \ {cleanup[e].caller}
  OBVIOUS
<1>3. js \in SUBSET Owned
  BY <1>2 DEF Base, Types, GroupRecord
<1>4. PICK c : c = [cleanup[e] EXCEPT !.stage = "stop_media", !.join = js]
  OBVIOUS
<1>5. e \in Allocated /\ cleanup[e] \in CleanupRecord
  BY <1>1, BusyCleanup
<1>6. c \in CleanupRecord /\ c.stage = "stop_media"
  BY <1>3, <1>4, <1>5 DEF CleanupRecord, Stages, CleanupSteps
<1>7. cleanup' = [cleanup EXCEPT ![e] = c] /\ cleanup'[e] = c
  BY <1>2, <1>4 DEF CloseGroup, Base, Types
<1> QED BY <1>1, <1>5, <1>6, <1>7 DEF Tears, worldVars

\* A bounded step of a cleanup touches its own id alone.
LEMMA CleanupStepTears ==
    ASSUME Base, NEW e \in Entries, NEW ok \in BOOLEAN, CleanupStep(e, ok)
    PROVE  /\ Tears(e) /\ cleanup[e].stage \in CleanupSteps
           /\ route' = route \/ route' = [route EXCEPT ![idOf[e]] = FALSE]
           /\ media' = media \/ media' = [media EXCEPT ![idOf[e]] = FALSE]
           /\ UNCHANGED <<operation, gate, task, group>>
<1>1. /\ cleanup[e].stage \in CleanupSteps
      /\ route' = route \/ route' = [route EXCEPT ![idOf[e]] = FALSE]
      /\ media' = media \/ media' = [media EXCEPT ![idOf[e]] = FALSE]
      /\ UNCHANGED <<now, registryVars, state, operation, group, gate, task, home, consent>>
  BY DEF CleanupStep
<1>2. PICK st : st = StageAfter(cleanup[e].stage)
  OBVIOUS
<1>3. st \in {"close_transport", "close_backend", "join"}
  BY <1>1, <1>2 DEF StageAfter, CleanupSteps
<1>4. PICK er : er = (cleanup[e].err \/ ~ok)
  OBVIOUS
<1>5. er \in BOOLEAN
  BY <1>4
<1>6. PICK c : c = [cleanup[e] EXCEPT !.stage = st, !.err = er]
  OBVIOUS
<1>7. e \in Allocated /\ cleanup[e] \in CleanupRecord
  BY <1>1, BusyCleanup DEF CleanupSteps
<1>8. c \in CleanupRecord /\ c.stage = st
  BY <1>3, <1>5, <1>6, <1>7 DEF CleanupRecord, Stages, CleanupSteps
<1>9. cleanup' = [cleanup EXCEPT ![e] = c]
  BY <1>2, <1>4, <1>6 DEF CleanupStep, Base, Types
<1> QED BY <1>1, <1>3, <1>7, <1>8, <1>9 DEF Tears, CleanupSteps

\* A finished task is joined.
LEMMA JoinTaskTears ==
    ASSUME Base, NEW e \in Entries, NEW o \in Owned, JoinTask(e, o)
    PROVE  /\ Tears(e) /\ UNCHANGED <<operation, gate, task, group, worldVars>>
<1>1. /\ cleanup[e].stage = "join"
      /\ UNCHANGED <<now, registryVars, state, operation, group, gate, task, home, worldVars>>
  BY DEF JoinTask
<1>2. PICK c : c = [cleanup[e] EXCEPT !.join = @ \ {o}]
  OBVIOUS
<1>3. e \in Allocated /\ cleanup[e] \in CleanupRecord
  BY <1>1, BusyCleanup
<1>4. c \in CleanupRecord /\ c.stage = "join"
  BY <1>1, <1>2, <1>3 DEF CleanupRecord
<1>5. cleanup' = [cleanup EXCEPT ![e] = c]
  BY <1>2 DEF JoinTask, Base, Types
<1> QED BY <1>1, <1>3, <1>4, <1>5 DEF Tears, worldVars

\* A task that does not finish is aborted.
LEMMA AbortTaskTears ==
    ASSUME Base, NEW e \in Entries, NEW o \in Owned, AbortTask(e, o)
    PROVE  /\ Tears(e) /\ UNCHANGED <<group, worldVars>>
           /\ operation' = Unlocked(o) /\ gate' = Ungated(o)
           /\ task' = [task EXCEPT ![o] = Ended]
           /\ cleanup[e].stage = "join" /\ task[o].pc # "finished"
<1>1. /\ cleanup[e].stage = "join" /\ task[o].pc # "finished"
      /\ UNCHANGED <<now, registryVars, state, group, home, worldVars>>
      /\ operation' = Unlocked(o) /\ gate' = Ungated(o)
      /\ task' = [task EXCEPT ![o] = Ended]
  BY DEF AbortTask, Finished
<1>2. PICK c : c = [cleanup[e] EXCEPT !.join = @ \ {o}, !.err = TRUE]
  OBVIOUS
<1>3. e \in Allocated /\ cleanup[e] \in CleanupRecord
  BY <1>1, BusyCleanup
<1>4. c \in CleanupRecord
  <2>1. PICK js : js = cleanup[e].join \ {o}
    OBVIOUS
  <2>2. js \in SUBSET Owned /\ TRUE \in BOOLEAN
    BY <1>3, <2>1 DEF CleanupRecord
  <2>3. c = [cleanup[e] EXCEPT !.join = js, !.err = TRUE]
    BY <1>2, <2>1, Zenon
  <2>4. PICK b \in BOOLEAN : b = TRUE
    OBVIOUS
  <2>5. c = [cleanup[e] EXCEPT !.join = js, !.err = b]
    BY <2>3, <2>4, Zenon
  <2> HIDE <2>4
  <2> QED BY <1>3, <2>2, <2>5 DEF CleanupRecord
<1>5. c.stage = "join"
  BY <1>1, <1>2, <1>3 DEF CleanupRecord
<1>6. cleanup' = [cleanup EXCEPT ![e] = c]
  BY <1>2 DEF AbortTask, Base, Types
<1> QED BY <1>1, <1>3, <1>4, <1>5, <1>6 DEF Tears, worldVars

\* A step of a cleanup keeps the types of the entries.
LEMMA TearsTypes ==
    ASSUME Base, NEW e \in Entries, Tears(e)
    PROVE  /\ cleanup' \in [Entries -> CleanupRecord]
           /\ \A f \in Entries : f \notin Allocated => cleanup'[f].stage = "none"
           /\ now' \in 0 .. MaxTime
           /\ state' \in [Entries -> Shape] /\ \A f \in Entries : Typed(state'[f])
           /\ UNCHANGED <<registryVars, home>>
BY DEF Tears, Base, Types, Places, EntriesOK

\* Steps of nobody's task.
LEMMA FixedBase ==
    ASSUME Base, UNCHANGED <<registryVars, home, task>>,
           now' \in 0 .. MaxTime,
           state' \in [Entries -> Shape] /\ \A e \in Entries : Typed(state'[e]),
           operation' \in [Entries -> Tasks \cup {None}],
           group' \in [Entries -> GroupRecord],
           cleanup' \in [Entries -> CleanupRecord],
           \A e \in Entries : e \notin Allocated => cleanup'[e].stage = "none",
           gate' \in Tasks \cup {None},
           WorldTypes'
    PROVE  Base'
<1>1. /\ sessions' = sessions /\ activeSessions' = activeSessions
      /\ terminalOrder' = terminalOrder /\ used' = used /\ idOf' = idOf /\ home' = home
      /\ task' = task
  BY DEF registryVars
<1>2. Types'
  BY <1>1 DEF Base, Types
<1>3. Places'
  BY <1>1 DEF Base, Places, PlaceOK, OwnedOK, Allocated, EntriesOK
<1> QED BY <1>2, <1>3 DEF Base

\* Every step of a cleanup but the last keeps types and places.
LEMMA CleanupBase ==
    ASSUME Base, NEW e \in Entries,
           \/ CloseGroup(e)
           \/ \E ok \in BOOLEAN : CleanupStep(e, ok)
           \/ \E o \in Owned : JoinTask(e, o) \/ AbortTask(e, o)
    PROVE  Base' /\ Tears(e)
<1>1. CASE CloseGroup(e)
  <2>1. /\ Tears(e)
        /\ group' = [group EXCEPT ![e] = [closed |-> TRUE, handles |-> {}]]
        /\ operation' = operation /\ gate' = gate /\ task' = task /\ UNCHANGED worldVars
    BY <1>1, CloseGroupTears
  <2>2. WorldTypes'
    BY <2>1, SameWorld DEF Base
  <2>3. PICK g : g = [closed |-> TRUE, handles |-> {}]
    OBVIOUS
  <2>4. g \in GroupRecord
    BY <2>3, Zenon DEF GroupRecord
  <2>5. group' = [group EXCEPT ![e] = g]
    BY <2>1, <2>3, Zenon
  <2>6. group' \in [Entries -> GroupRecord]
    BY <2>4, <2>5 DEF Base, Types
  <2>7. operation' \in [Entries -> Tasks \cup {None}] /\ gate' \in Tasks \cup {None}
    BY <2>1 DEF Base, Types
  <2> QED BY <2>1, <2>2, <2>6, <2>7, TearsTypes, FixedBase
<1>2. ASSUME NEW ok \in BOOLEAN, CleanupStep(e, ok)
      PROVE  Base' /\ Tears(e)
  <2>1. /\ Tears(e) /\ cleanup[e].stage \in CleanupSteps
        /\ route' = route \/ route' = [route EXCEPT ![idOf[e]] = FALSE]
        /\ media' = media \/ media' = [media EXCEPT ![idOf[e]] = FALSE]
        /\ operation' = operation /\ gate' = gate /\ task' = task /\ group' = group
        /\ consent' = consent
    BY <1>2, CleanupStepTears DEF Tears
  <2>2. idOf[e] \in Ids
    BY <2>1, BusyCleanup DEF CleanupSteps
  <2>3. WorldTypes'
    BY <2>1, <2>2 DEF WorldTypes, Base, Types
  <2>4. /\ operation' \in [Entries -> Tasks \cup {None}] /\ gate' \in Tasks \cup {None}
        /\ group' \in [Entries -> GroupRecord]
    BY <2>1 DEF Base, Types
  <2> QED BY <2>1, <2>3, <2>4, TearsTypes, FixedBase
<1>3. ASSUME NEW o \in Owned, JoinTask(e, o)
      PROVE  Base' /\ Tears(e)
  <2>1. /\ Tears(e) /\ UNCHANGED worldVars
        /\ operation' = operation /\ gate' = gate /\ task' = task /\ group' = group
    BY <1>3, JoinTaskTears
  <2>2. WorldTypes'
    BY <2>1, SameWorld DEF Base
  <2>3. /\ operation' \in [Entries -> Tasks \cup {None}] /\ gate' \in Tasks \cup {None}
        /\ group' \in [Entries -> GroupRecord]
    BY <2>1 DEF Base, Types
  <2> QED BY <2>1, <2>2, <2>3, TearsTypes, FixedBase
<1>4. ASSUME NEW o \in Owned, AbortTask(e, o)
      PROVE  Base' /\ Tears(e)
  <2>1. /\ Tears(e) /\ UNCHANGED worldVars /\ group' = group
        /\ operation' = Unlocked(o) /\ gate' = Ungated(o)
        /\ task' = [task EXCEPT ![o] = Ended]
    BY <1>4, AbortTaskTears
  <2>2. WorldTypes'
    BY <2>1, SameWorld DEF Base
  <2>3. /\ operation' \in [Entries -> Tasks \cup {None}] /\ gate' \in Tasks \cup {None}
        /\ group' \in [Entries -> GroupRecord]
    BY <2>1 DEF Base, Types, Unlocked, Ungated
  <2>4. Ended \in TaskRecord /\ PlaceOK(Ended) /\ OwnedOK(Ended, home[o]) /\ o \in Tasks
    BY IdleRecord, IdlePlace, OwnedAreTasks
  <2> QED BY <2>1, <2>2, <2>3, <2>4, TearsTypes, MovedBase
<1> QED BY <1>1, <1>2, <1>3, <1>4

\* So does the clock.
LEMMA TickBase ==
    ASSUME Base, Tick
    PROVE  Base'
<1>1. /\ now < MaxTime /\ now' = now + 1 /\ UNCHANGED <<registryVars, home, task>>
      /\ state' = state /\ operation' = operation /\ group' = group /\ cleanup' = cleanup
      /\ gate' = gate /\ UNCHANGED worldVars
  BY DEF Tick
<1>2. WorldTypes'
  BY <1>1, SameWorld DEF Base
<1>3. now' \in 0 .. MaxTime
  BY <1>1, CoordinatorAssumption DEF Base, Types
<1>4. /\ operation' \in [Entries -> Tasks \cup {None}] /\ gate' \in Tasks \cup {None}
      /\ group' \in [Entries -> GroupRecord] /\ cleanup' \in [Entries -> CleanupRecord]
      /\ \A e \in Entries : e \notin Allocated => cleanup'[e].stage = "none"
      /\ state' \in [Entries -> Shape] /\ \A e \in Entries : Typed(state'[e])
  BY <1>1 DEF Base, Types, Places, EntriesOK
<1> QED BY <1>1, <1>2, <1>3, <1>4, FixedBase

\* The last step of a cleanup forgets the oldest sessions beyond the limit.
LEMMA RetireFacts ==
    ASSUME Base, NEW e \in Entries, Retire(e)
    PROVE  /\ e \in Allocated /\ cleanup[e].stage = "join" /\ idOf[e] \in Ids
           /\ \E c \in CleanupRecord : /\ cleanup' = [cleanup EXCEPT ![e] = c]
                                       /\ c.stage = "done"
           /\ terminalOrder' \in Seq(Ids)
           /\ \A i \in Ids : sessions'[i] \in {sessions[i], NoEntry}
           /\ sessions' \in [Ids -> Entries \cup {NoEntry}]
           /\ activeSessions' \in Nat
           /\ UNCHANGED <<now, used, idOf, state, operation, group, gate, task, home, worldVars>>
<1>1. /\ cleanup[e].stage = "join"
      /\ cleanup' = [cleanup EXCEPT ![e].stage = "done"]
      /\ activeSessions' = IF activeSessions > 0 THEN activeSessions - 1 ELSE 0
      /\ UNCHANGED <<now, used, idOf, state, operation, group, gate, task, home, worldVars>>
  BY DEF Retire
<1>2. e \in Allocated /\ cleanup[e] \in CleanupRecord /\ idOf[e] \in Ids
  BY <1>1, BusyCleanup
<1>3. PICK c : c = [cleanup[e] EXCEPT !.stage = "done"]
  OBVIOUS
<1>4. c \in CleanupRecord /\ c.stage = "done"
  BY <1>2, <1>3 DEF CleanupRecord, Stages
<1>5. cleanup' = [cleanup EXCEPT ![e] = c]
  BY <1>1, <1>3 DEF Base, Types
<1>6. activeSessions' \in Nat
  BY <1>1 DEF Base, Types
<1> DEFINE order  == Append(terminalOrder, idOf[e])
           excess == IF Len(order) > MaxTerminal THEN Len(order) - MaxTerminal ELSE 0
<1>7. order \in Seq(Ids) /\ Len(order) \in Nat
  BY <1>2 DEF Base, Types
<1>8. excess \in Nat
  BY <1>7, CoordinatorAssumption
<1>9. /\ terminalOrder' = SubSeq(order, excess + 1, Len(order))
      /\ sessions' = [i \in Ids |-> IF \E n \in 1 .. excess : order[n] = i
                                    THEN NoEntry ELSE sessions[i]]
  BY DEF Retire
<1>10. terminalOrder' \in Seq(Ids)
  <2> HIDE DEF order, excess
  <2>1. \A n \in excess + 1 .. Len(order) : order[n] \in Ids
    BY <1>7, <1>8
  <2>2. excess + 1 \in Int /\ Len(order) \in Int
    BY <1>7, <1>8
  <2>3. SubSeq(order, excess + 1, Len(order)) \in Seq(Ids)
    BY <2>1, <2>2, SubSeqProperties
  <2> QED BY <1>9, <2>3
<1>11. /\ \A i \in Ids : sessions'[i] \in {sessions[i], NoEntry}
       /\ sessions' \in [Ids -> Entries \cup {NoEntry}]
  <2> HIDE DEF order, excess
  <2> QED BY <1>9 DEF Base, Types
<1> QED BY <1>1, <1>2, <1>4, <1>5, <1>6, <1>10, <1>11

\* It keeps types and places.
LEMMA RetireBase ==
    ASSUME Base, NEW e \in Entries, Retire(e)
    PROVE  Base'
<1>1. /\ e \in Allocated
      /\ \E c \in CleanupRecord : /\ cleanup' = [cleanup EXCEPT ![e] = c]
                                  /\ c.stage = "done"
      /\ terminalOrder' \in Seq(Ids)
      /\ \A i \in Ids : sessions'[i] \in {sessions[i], NoEntry}
      /\ sessions' \in [Ids -> Entries \cup {NoEntry}]
      /\ activeSessions' \in Nat
      /\ now' = now /\ used' = used /\ idOf' = idOf /\ state' = state
      /\ operation' = operation /\ group' = group /\ gate' = gate /\ task' = task
      /\ home' = home /\ UNCHANGED worldVars
  BY RetireFacts
<1>2. WorldTypes'
  BY <1>1, SameWorld DEF Base
<1>3. /\ cleanup' \in [Entries -> CleanupRecord]
      /\ \A f \in Entries : f # e => cleanup'[f] = cleanup[f]
  BY <1>1 DEF Base, Types
<1>4. Types'
  BY <1>1, <1>2, <1>3 DEF Base, Types
<1>5. Allocated' = Allocated
  BY <1>1 DEF Allocated
<1>6. EntriesOK'
  BY <1>1, <1>3, <1>5 DEF Base, Places, EntriesOK
<1>7. \A t \in Tasks : PlaceOK(task[t])'
  BY <1>1, <1>5 DEF Base, Places, PlaceOK
<1>8. \A o \in Owned : OwnedOK(task[o], home[o])'
  BY <1>1, <1>5 DEF Base, Places, OwnedOK
<1> QED BY <1>4, <1>6, <1>7, <1>8 DEF Base, Places

\* Types and places hold at the start.
LEMMA InitBase == Init => Base
<1> SUFFICES ASSUME Init PROVE Base
  OBVIOUS
<1>1. PICK s : s = NewState("Controller", 0, None)
  OBVIOUS
<1>2. Typed(s) /\ s \in Shape
  <2>1. PICK b : b = [k \in EventKinds |-> None]
    OBVIOUS
  <2>2. b \in [EventKinds -> AnyPayload] /\ \A k \in EventKinds : b[k] = None
    BY <2>1 DEF AnyPayload
  <2>3. s = [role |-> "Controller", deadline |-> 0, key |-> None, phase |-> "Created", bound |-> b]
    BY <1>1, <2>1 DEF NewState
  <2>4. s \in Shape /\ s.bound = b
    BY <2>2, <2>3 DEF Shape, Phases, Roles
  <2> QED BY <2>2, <2>4 DEF Typed
<1>3. /\ now = 0 /\ sessions = [i \in Ids |-> NoEntry] /\ activeSessions = 0
      /\ terminalOrder = <<>> /\ used = 0 /\ idOf = [e \in Entries |-> None]
      /\ state = [e \in Entries |-> s] /\ operation = [e \in Entries |-> None]
      /\ group = [e \in Entries |-> [closed |-> FALSE, handles |-> {}]]
      /\ cleanup = [e \in Entries |-> NoCleanup] /\ gate = None
      /\ task = [t \in Tasks |-> Idle] /\ home = [o \in Owned |-> NoEntry]
      /\ consent = [i \in Ids |-> "none"] /\ route = [i \in Ids |-> FALSE]
      /\ media = [i \in Ids |-> FALSE]
  BY <1>1 DEF Init
<1>4. state \in [Entries -> Shape] /\ \A e \in Entries : Typed(state[e])
  BY <1>2, <1>3
<1>5. NoCleanup \in CleanupRecord /\ NoCleanup.stage = "none"
  BY DEF NoCleanup, CleanupRecord, Stages, Ops
<1>6. [closed |-> FALSE, handles |-> {}] \in GroupRecord
  BY DEF GroupRecord
<1>7. now \in 0 .. MaxTime /\ used \in 0 .. MaxEntries /\ activeSessions \in Nat
      /\ terminalOrder \in Seq(Ids)
  BY <1>3, CoordinatorAssumption
<1>8. /\ sessions \in [Ids -> Entries \cup {NoEntry}] /\ idOf \in [Entries -> Ids \cup {None}]
      /\ operation \in [Entries -> Tasks \cup {None}] /\ gate \in Tasks \cup {None}
      /\ home \in [Owned -> Entries \cup {NoEntry}]
  BY <1>3
<1>9. group \in [Entries -> GroupRecord]
  BY <1>3, <1>6
<1>10. cleanup \in [Entries -> CleanupRecord] /\ \A e \in Entries : cleanup[e].stage = "none"
  BY <1>3, <1>5
<1>11. task \in [Tasks -> TaskRecord]
  BY <1>3, IdleRecord
<1>12. WorldTypes
  BY <1>3 DEF WorldTypes
<1>13. Types
  BY <1>4, <1>7, <1>8, <1>9, <1>10, <1>11, <1>12 DEF Types
<1>14. Allocated = {}
  BY <1>3 DEF Allocated
<1>15. EntriesOK
  BY <1>3, <1>10, <1>14 DEF EntriesOK
<1>16. \A t \in Tasks : PlaceOK(task[t])
  BY <1>3, IdlePlace
<1>17. \A o \in Owned : OwnedOK(task[o], home[o])
  BY <1>3, IdlePlace, OwnedAreTasks
<1> QED BY <1>13, <1>15, <1>16, <1>17 DEF Base, Places
-----------------------------------------------------------------------------
(* Every step, sorted by what it does to the sessions.                     *)

Still == UNCHANGED <<registryVars, state, cleanup>>

AppliesSome ==
    /\ \E t \in Tasks, e \in Allocated, kind \in EventKinds, failed \in BOOLEAN :
         \E arg \in Payloads(kind) : Fit(t, e, kind) /\ Applied(t, e, kind, arg, failed)
    /\ UNCHANGED <<now, registryVars>>

Stirs ==
    \/ Still
    \/ \E t \in Callers, i \in Ids, fresh \in Shape :
         /\ Typed(fresh) /\ fresh.phase = "Created" /\ fresh.bound["Granted"] = None
         /\ Admits(t, i, fresh)
    \/ AppliesSome
    \/ \E t \in Tasks, key \in Keys : KeyMove(t, key) /\ task[t].ent \in Allocated
    \/ \E e \in Entries : Tears(e)
    \/ \E e \in Entries : Retire(e)

\* A step of a workflow leaves the sessions alone or applies an event.
LEMMA ActsStirs ==
    ASSUME NEW t \in Tasks, NEW K \in SUBSET EventKinds, NEW next, Acts(t, K, next)
    PROVE  Stirs
<1>1. Turns(t, K) /\ UNCHANGED <<now, registryVars>>
  BY DEF Acts
<1>2. CASE UNCHANGED <<state, cleanup>>
  BY <1>1, <1>2 DEF Stirs, Still
<1>3. CASE \E e \in Allocated, kind \in K, failed \in BOOLEAN : \E arg \in Payloads(kind) :
             idOf[e] = task[t].id /\ Fit(t, e, kind) /\ Applied(t, e, kind, arg, failed)
  BY <1>1, <1>3 DEF Stirs, AppliesSome
<1> QED BY <1>1, <1>2, <1>3 DEF Turns

\* The same for every step of a workflow, with types and places.
LEMMA WorksStirs ==
    ASSUME Base, NEW t \in Tasks, NEW K \in SUBSET EventKinds, Works(t, K)
    PROVE  Base' /\ Stirs
BY WorksBase, ActsStirs DEF Works

\* A step outside the lock leaves the sessions alone.
LEMMA StrollsStirs ==
    ASSUME Base, NEW t \in Tasks, NEW k, Strolls(t, k)
    PROVE  Base' /\ Stirs
BY StrollsBase DEF Strolls, Stirs, Still

\* So does a step that stays under the lock.
LEMMA StaysStirs ==
    ASSUME Base, NEW t \in Tasks, NEW k, Stays(t, k)
    PROVE  Base' /\ Stirs
BY StaysBase DEF Stays, Stirs, Still

\* The steps of an operation, sorted.
LEMMA OperateStirs ==
    ASSUME Base, NEW t \in Tasks, Operate(t)
    PROVE  Base' /\ Stirs
<1>1. CASE Lookup(t)
  BY <1>1, LookupStrolls, StrollsStirs
<1>2. CASE ApplyOperation(t)
  BY <1>2, ApplyOperationWorks, WorksStirs, KindFacts
<1>3. CASE Finalized(t)
  BY <1>3, FinalizedCases, StrollsStirs, StaysStirs
<1> QED BY <1>1, <1>2, <1>3 DEF Operate

\* The steps of the callers' workflows, sorted.
LEMMA WorkflowStirs ==
    ASSUME Base, NEW t \in Callers, Workflow(t)
    PROVE  Base' /\ Stirs
<1>0. t \in Tasks /\ Plain \in SUBSET EventKinds /\ {"Granted"} \in SUBSET EventKinds
  BY CallersAside, KindFacts
<1>1. CASE CheckDuplicate(t)
  BY <1>0, <1>1, CheckDuplicateWorks, WorksStirs
<1>2. CASE StartWorkflow(t)
  BY <1>0, <1>2, StartWorkflowWorks, WorksStirs
<1>3. CASE StartApproval(t)
  BY <1>0, <1>3, StartApprovalWorks, WorksStirs
<1>4. ASSUME NEW key \in Keys, BindGrantKey(t, key)
      PROVE  Base' /\ Stirs
  <2>1. KeyMove(t, key)
    BY <1>0, <1>4, BindGrantKeyMoves
  <2>2. task[t].ent \in Allocated
    BY <1>0, <2>1 DEF KeyMove, Ready, Base, Places, PlaceOK, AtEntry
  <2> QED BY <1>0, <1>4, <2>1, <2>2, BindGrantKeyBase DEF Stirs
<1>5. ASSUME NEW intent \in Intents, CheckGrant(t, intent)
      PROVE  Base' /\ Stirs
  BY <1>0, <1>5, CheckGrantWorks, WorksStirs
<1>6. ASSUME NEW intent \in Intents, IntentSent(t, intent) \/ ConsentPublished(t, intent)
      PROVE  Base' /\ Stirs
  BY <1>0, <1>6, IntentWorks, WorksStirs
<1>7. CASE BackendVerified(t)
  BY <1>0, <1>7, BackendVerifiedWorks, WorksStirs
<1>8. CASE PublishRequest(t)
  BY <1>0, <1>8, PublishRequestStays, StaysStirs
<1>9. CASE PortAnswered(t)
  BY <1>0, <1>9, PortAnsweredWorks, WorksStirs
<1>10. ASSUME NEW grant \in Grants, GrantObtained(t, grant)
       PROVE  Base' /\ Stirs
  BY <1>0, <1>10, GrantObtainedWorks, WorksStirs
<1>11. ASSUME NEW access \in Accesses, BindAccess(t, access)
       PROVE  Base' /\ Stirs
  BY <1>0, <1>11, BindAccessWorks, WorksStirs
<1>12. CASE PortFailed(t) \/ PortTimeout(t)
  BY <1>0, <1>12, PortEndsWorks, WorksStirs
<1> QED BY <1>1, <1>2, <1>3, <1>4, <1>5, <1>6, <1>7, <1>8, <1>9, <1>10, <1>11, <1>12
        DEF Workflow

\* The steps of the callers' handlers, sorted.
LEMMA CallerStirs ==
    ASSUME Base, NEW t \in Callers, Call(t) \/ Handle(t) \/ DropCaller(t)
    PROVE  Base' /\ Stirs
<1>0. t \in Tasks
  BY CallersAside
<1>1. ASSUME NEW decision \in {"approved", "denied"}, Decide(t, decision)
      PROVE  Base' /\ Stirs
  BY <1>0, <1>1, DecideStrolls, StrollsStirs
<1>2. ASSUME NEW ok \in BOOLEAN, Authorize(t, ok)
      PROVE  Base' /\ Stirs
  BY <1>0, <1>2, AuthorizeStrolls, StrollsStirs
<1>3. CASE StartSweep(t)
  BY <1>0, <1>3, StartSweepStrolls, StrollsStirs
<1>4. ASSUME NEW p \in task[t].todo, SweepEntry(t, p)
      PROVE  Base' /\ Stirs
  BY <1>0, <1>4, SweepEntryStrolls, StrollsStirs
<1>5. CASE EndSweep(t) \/ DropCaller(t)
  BY <1>0, <1>5, StopCallerStrolls, StrollsStirs
<1>6. CASE SpawnCheck(t)
  BY <1>0, <1>6, SpawnCheckStrolls, StrollsStirs
<1>7. ASSUME NEW o \in Owned, Spawn(t, o)
      PROVE  Base' /\ Stirs
  <2>1. UNCHANGED <<registryVars, state, cleanup>>
    BY <1>7 DEF Spawn
  <2> QED BY <1>7, <2>1, SpawnBase DEF Stirs, Still
<1>8. CASE SpawnRefused(t)
  BY <1>0, <1>8, SpawnRefusedStrolls, StrollsStirs
<1>9. ASSUME NEW op \in {"start", "intent"}, NEW i \in Ids, NEW d \in Deadlines,
             NEW r \in Requests, Begin(t, op, i, d, r)
      PROVE  Base' /\ Stirs
  <2>1. PICK k \in TaskRecord :
             /\ k.pc = "lookup" /\ k.op = op /\ k.id = i /\ k.arg = r /\ k.ent = NoEntry
             /\ task' = [task EXCEPT ![t] = k]
             /\ Strolls(t, k) \/ Admits(t, i, Identity(op, d))
    BY <1>9, BeginCases
  <2>2. CASE Strolls(t, k)
    BY <1>0, <2>2, StrollsStirs
  <2>3. CASE Admits(t, i, Identity(op, d))
    <3>1. PICK fresh : fresh = Identity(op, d)
      OBVIOUS
    <3>2. /\ Typed(fresh) /\ fresh.phase = "Created" /\ fresh.bound["Granted"] = None
          /\ Admits(t, i, fresh)
      BY <2>3, <3>1, FreshState
    <3>3. Base'
      BY <2>1, <3>2, AdmitsBase
    <3> QED BY <3>2, <3>3 DEF Stirs, Typed
  <2> QED BY <2>1, <2>2, <2>3
<1>10. ASSUME NEW op \in CallerOps, NEW i \in Ids, Invoke(t, op, i)
       PROVE  Base' /\ Stirs
  BY <1>0, <1>10, InvokeStrolls, StrollsStirs
<1> QED BY <1>1, <1>2, <1>3, <1>4, <1>5, <1>6, <1>7, <1>8, <1>9, <1>10 DEF Call, Handle

\* The steps of the owned tasks, sorted.
LEMMA RunOwnedStirs ==
    ASSUME Base, NEW o \in Owned, RunOwned(o)
    PROVE  Base' /\ Stirs
<1>0. o \in Tasks
  BY OwnedAreTasks
<1>1. ASSUME NEW ok \in BOOLEAN, Claim(o, ok)
      PROVE  Base' /\ Stirs
  BY <1>0, <1>1, ClaimStrolls, StrollsStirs
<1>2. CASE \/ MediaCheck(o)
           \/ \E ok \in BOOLEAN : MediaStart(o, ok) \/ MediaReady(o, ok) \/ Activated(o, ok)
  BY <1>0, <1>2, MediaStrolls, StrollsStirs
<1>3. CASE PeerNegotiated(o) \/ PeerFailed(o)
  BY <1>0, <1>3, PeerStrolls, StrollsStirs
<1>4. CASE CommitCheck(o)
  BY <1>0, <1>4, CommitCheckCases, StrollsStirs, StaysStirs
<1>5. CASE \/ \E proof \in RouteProofs : Installed(o, proof)
           \/ InstallFailed(o)
  <2>1. Acts(o, {"RelayVerified", "Failed"}, "return")
    BY <1>5, InstallActs
  <2>2. {"RelayVerified", "Failed"} \in SUBSET EventKinds
    BY KindFacts
  <2> QED BY <1>0, <1>5, <2>1, <2>2, InstallBase, ActsStirs
<1>6. CASE Committed(o)
  BY <1>0, <1>6, CommittedStrolls, StrollsStirs
<1>7. CASE Recover(o)
  BY <1>0, <1>7, RecoverStrolls, StrollsStirs
<1>8. CASE Cancel(o) \/ NegotiationTimeout(o)
  <2>1. Interrupt(o)
    BY <1>8 DEF Cancel, NegotiationTimeout
  <2> QED BY <1>0, <2>1, InterruptStrolls, StrollsStirs
<1> QED BY <1>1, <1>2, <1>3, <1>4, <1>5, <1>6, <1>7, <1>8 DEF RunOwned

\* Every step keeps types and places and is of one of the six sorts.
LEMMA NextStirs == Base /\ [Next]_vars => Base' /\ Stirs
<1> SUFFICES ASSUME Base, [Next]_vars PROVE Base' /\ Stirs
  OBVIOUS
<1>1. ASSUME NEW t \in Tasks, Operate(t) PROVE Base' /\ Stirs
  BY <1>1, OperateStirs
<1>2. ASSUME NEW t \in Callers, Call(t) \/ Workflow(t) \/ Handle(t) \/ DropCaller(t)
      PROVE  Base' /\ Stirs
  BY <1>2, CallerStirs, WorkflowStirs
<1>3. ASSUME NEW o \in Owned, RunOwned(o) PROVE Base' /\ Stirs
  BY <1>3, RunOwnedStirs
<1>4. ASSUME NEW e \in Entries, Cleanup(e) PROVE Base' /\ Stirs
  BY <1>4, CleanupBase, RetireBase DEF Cleanup, Stirs
<1>5. CASE Tick
  <2>1. UNCHANGED <<registryVars, state, cleanup>>
    BY <1>5 DEF Tick
  <2> QED BY <1>5, <2>1, TickBase DEF Stirs, Still
<1>6. CASE UNCHANGED vars
  <2>1. UNCHANGED <<now, registryVars, state, operation, group, cleanup, gate, task, home,
                    consent, route, media>>
    BY <1>6 DEF vars, worldVars
  <2>2. UNCHANGED <<registryVars, home, task>> /\ now' = now /\ state' = state
        /\ operation' = operation /\ group' = group /\ cleanup' = cleanup /\ gate' = gate
        /\ UNCHANGED worldVars
    BY <2>1 DEF worldVars
  <2>3. WorldTypes'
    BY <2>2, SameWorld DEF Base
  <2>4. Base'
    BY <2>2, <2>3, FixedBase DEF Base, Types, Places, EntriesOK
  <2> QED BY <2>2, <2>4 DEF Stirs, Still
<1> QED BY <1>1, <1>2, <1>3, <1>4, <1>5, <1>6 DEF Next

(* Types and places: a task that names a session, an entry or a home names   *)
(* one that was admitted, under the id it works for, and the places of an    *)
(* owned task match its operation (find, spawn_generation_zero).             *)
THEOREM BaseInvariant == Spec => []Base
<1>1. Base /\ [Next]_vars => Base'
  BY NextStirs
<1> QED BY <1>1, InitBase, PTL DEF Spec

(* Every variable holds what its declaration says, every session is a well-  *)
(* formed WanSessionState and every task is at a known point.                *)
THEOREM WanTypeInvariant == Spec => []TypeOK
<1>1. Base => TypeOK
  <2> SUFFICES ASSUME Base PROVE TypeOK
    OBVIOUS
  <2>1. \A e \in Entries : IsState(state[e])
    <3> SUFFICES ASSUME NEW e \in Entries PROVE IsState(state[e])
      OBVIOUS
    <3>1. Typed(state[e]) /\ state[e] \in Shape
      BY DEF Base, Types, Typed
    <3> QED BY <3>1 DEF IsState, Typed, Shape
  <2>2. \A t \in Tasks : IsTask(task[t])
    <3> SUFFICES ASSUME NEW t \in Tasks PROVE IsTask(task[t])
      OBVIOUS
    <3>1. task[t] \in TaskRecord
      BY DEF Base, Types
    <3> QED BY <3>1 DEF IsTask, TaskRecord, Conts, Ops
  <2>3. group \in [Entries -> [closed: BOOLEAN, handles: SUBSET Owned]]
    BY DEF Base, Types, GroupRecord
  <2>4. cleanup \in [Entries -> [stage: Stages, failed: BOOLEAN,
                                caller: Tasks \cup {None}, by: Ops,
                                err: BOOLEAN, join: SUBSET Owned]]
    BY DEF Base, Types, CleanupRecord
  <2> QED BY <2>1, <2>2, <2>3, <2>4 DEF TypeOK, Base, Types, WorldTypes
<1> QED BY <1>1, BaseInvariant, PTL
-----------------------------------------------------------------------------
(* A session has ended exactly when its cleanup has been started.          *)

\* What apply with the finalize after it does to every entry.
LEMMA AppliedFacts ==
    ASSUME Base, NEW t \in Tasks, NEW e \in Allocated, NEW kind \in EventKinds,
           NEW failed \in BOOLEAN, NEW arg \in Payloads(kind),
           Applied(t, e, kind, arg, failed)
    PROVE  /\ e \in Entries
           /\ \A f \in Entries : f # e => state'[f] = state[f] /\ cleanup'[f] = cleanup[f]
           /\ state'[e] = Apply(state[e], Event(kind, arg), now)
           /\ ApplyFacts(state[e], state'[e], kind, arg, now)
           /\ Terminal(state'[e]) => cleanup'[e].stage # "none"
           /\ ~Terminal(state'[e]) => cleanup' = cleanup
           /\ cleanup[e].stage # "none" => cleanup' = cleanup
           /\ cleanup' = cleanup \/ (cleanup[e].stage = "none" /\ cleanup'[e].stage = "spawned")
<1>1. PICK s : s = Apply(state[e], Event(kind, arg), now)
  OBVIOUS
<1>2. /\ state' = [state EXCEPT ![e] = s]
      /\ cleanup' = IF Terminal(s) THEN Receipt(e, failed, t) ELSE cleanup
  BY <1>1 DEF Applied
<1>3. e \in Entries /\ now \in Nat
  BY CoordinatorAssumption DEF Base, Types, Allocated, Entries
<1>4. ApplyFacts(state[e], s, kind, arg, now)
  BY <1>1, <1>3, ApplyOK DEF Base, Types
<1>5. state'[e] = s /\ \A f \in Entries : f # e => state'[f] = state[f]
  BY <1>2, <1>3 DEF Base, Types
<1>6. \/ cleanup' = cleanup /\ (~Terminal(s) \/ cleanup[e].stage # "none")
      \/ /\ Terminal(s) /\ cleanup[e].stage = "none"
         /\ cleanup' = [cleanup EXCEPT ![e] = [stage |-> "spawned", failed |-> failed,
                                               caller |-> t, by |-> task[t].op,
                                               err |-> FALSE, join |-> {}]]
  BY <1>2 DEF Receipt
<1>7. \/ cleanup' = cleanup /\ (~Terminal(s) \/ cleanup[e].stage # "none")
      \/ /\ Terminal(s) /\ cleanup[e].stage = "none" /\ cleanup'[e].stage = "spawned"
         /\ \A f \in Entries : f # e => cleanup'[f] = cleanup[f]
  BY <1>3, <1>6 DEF Base, Types
<1> QED BY <1>1, <1>3, <1>4, <1>5, <1>7

\* Every sort of step keeps ends and cleanups together.
LEMMA TerminalStep ==
    ASSUME Base, TerminalIffCleanup, Stirs
    PROVE  TerminalIffCleanup'
<1>0. Allocated \subseteq Entries
  BY CoordinatorAssumption DEF Base, Types, Allocated, Entries
<1>1. CASE Still
  BY <1>1 DEF Still, TerminalIffCleanup, registryVars, Allocated
<1>2. ASSUME NEW t \in Callers, NEW i \in Ids, NEW fresh \in Shape,
             fresh.phase = "Created", Admits(t, i, fresh)
      PROVE  TerminalIffCleanup'
  <2>1. /\ used' = used + 1 /\ used + 1 \in Entries /\ cleanup' = cleanup
        /\ state' = [state EXCEPT ![used + 1] = fresh]
    BY <1>2 DEF Admits
  <2>2. Allocated' = Allocated \cup {used + 1} /\ used + 1 \notin Allocated
    BY <2>1 DEF Allocated, Base, Types
  <2>3. ~Terminal(fresh)
    BY <1>2 DEF Terminal, TerminalPhases
  <2>4. cleanup[used + 1].stage = "none"
    BY <2>1, <2>2 DEF Base, Places, EntriesOK
  <2>5. state'[used + 1] = fresh /\ \A e \in Allocated : state'[e] = state[e]
    BY <1>0, <2>1, <2>2 DEF Base, Types
  <2> QED BY <2>1, <2>2, <2>3, <2>4, <2>5 DEF TerminalIffCleanup
<1>3. CASE AppliesSome
  <2>1. PICK t \in Tasks, e \in Allocated, kind \in EventKinds, failed \in BOOLEAN :
           \E arg \in Payloads(kind) : Applied(t, e, kind, arg, failed)
    BY <1>3 DEF AppliesSome
  <2>2. PICK arg \in Payloads(kind) : Applied(t, e, kind, arg, failed)
    BY <2>1
  <2>3. /\ \A f \in Entries : f # e => state'[f] = state[f] /\ cleanup'[f] = cleanup[f]
        /\ Terminal(state[e]) => Terminal(state'[e])
        /\ Terminal(state'[e]) => cleanup'[e].stage # "none"
        /\ ~Terminal(state'[e]) => cleanup' = cleanup
    BY <2>2, AppliedFacts DEF ApplyFacts
  <2>4. Allocated' = Allocated
    BY <1>3 DEF AppliesSome, registryVars, Allocated
  <2> QED BY <1>0, <2>3, <2>4 DEF TerminalIffCleanup
<1>4. ASSUME NEW t \in Tasks, NEW key \in Keys, KeyMove(t, key), task[t].ent \in Allocated
      PROVE  TerminalIffCleanup'
  <2>1. cleanup' = cleanup /\ Allocated' = Allocated
    BY <1>4 DEF KeyMove, registryVars, Allocated
  <2>2. \A e \in Allocated : state'[e].phase = state[e].phase
    <3>1. PICK s : s = BindKey(state[task[t].ent], key)
      OBVIOUS
    <3>2. s.phase = state[task[t].ent].phase
      BY <1>0, <1>4, <3>1, KeyState DEF Base, Types
    <3>3. state' = state \/ state' = [state EXCEPT ![task[t].ent] = s]
      BY <1>4, <3>1 DEF KeyMove
    <3> QED BY <1>0, <3>2, <3>3 DEF Base, Types
  <2> QED BY <2>1, <2>2 DEF TerminalIffCleanup, Terminal
<1>5. ASSUME NEW e \in Entries, Tears(e)
      PROVE  TerminalIffCleanup'
  <2>1. /\ state' = state /\ Allocated' = Allocated
        /\ cleanup[e].stage # "none" /\ cleanup'[e].stage # "none"
        /\ \A f \in Entries : f # e => cleanup'[f] = cleanup[f]
    BY <1>5 DEF Tears, registryVars, Allocated, Base, Types
  <2> QED BY <1>0, <2>1 DEF TerminalIffCleanup
<1>6. ASSUME NEW e \in Entries, Retire(e)
      PROVE  TerminalIffCleanup'
  <2>1. /\ state' = state /\ used' = used /\ cleanup[e].stage = "join"
        /\ \E c \in CleanupRecord : /\ cleanup' = [cleanup EXCEPT ![e] = c]
                                    /\ c.stage = "done"
    BY <1>6, RetireFacts
  <2>2. Allocated' = Allocated
    BY <2>1 DEF Allocated
  <2>3. /\ cleanup'[e].stage # "none"
        /\ \A f \in Entries : f # e => cleanup'[f] = cleanup[f]
    BY <2>1 DEF Base, Types
  <2> QED BY <1>0, <2>1, <2>2, <2>3 DEF TerminalIffCleanup
<1> QED BY <1>1, <1>2, <1>3, <1>4, <1>5, <1>6 DEF Stirs

(* Whichever of the many ways a session ends, its cleanup has been started,  *)
(* and nothing but the end of a session starts it (apply, finalize).         *)
THEOREM TerminalIffCleanupInvariant == Spec => []TerminalIffCleanup
<1>1. Init => TerminalIffCleanup
  <2> SUFFICES ASSUME Init PROVE TerminalIffCleanup
    OBVIOUS
  <2>1. Allocated = {}
    BY DEF Init, Allocated
  <2> QED BY <2>1 DEF TerminalIffCleanup
<1>2. Base /\ TerminalIffCleanup /\ [Next]_vars => TerminalIffCleanup'
  BY NextStirs, TerminalStep
<1> QED BY <1>1, <1>2, BaseInvariant, PTL DEF Spec
-----------------------------------------------------------------------------
(* The registry accounts for every session.                                *)

Live == {e \in Allocated : cleanup[e].stage # "done"}

Listed(i) == \E n \in 1 .. Len(terminalOrder) : terminalOrder[n] = i

\* RegistryExact with what makes it inductive: no id is listed twice.
RegistryInv ==
    /\ activeSessions = Cardinality(Live)
    /\ activeSessions <= MaxSessions
    /\ Len(terminalOrder) <= MaxTerminal
    /\ \A e \in Live : sessions[idOf[e]] = e
    /\ \A i \in Ids : Listed(i) <=> sessions[i] # NoEntry /\ cleanup[sessions[i]].stage = "done"
    /\ \A m, n \in 1 .. Len(terminalOrder) : terminalOrder[m] = terminalOrder[n] => m = n

\* The entries are finitely many, so they can be counted.
LEMMA LiveFinite ==
    ASSUME Base
    PROVE  /\ IsFiniteSet(Live) /\ Live \subseteq Allocated
           /\ Allocated \subseteq Entries /\ IsFiniteSet(Allocated)
<1>1. used \in Nat /\ MaxEntries \in Nat /\ used <= MaxEntries
  BY CoordinatorAssumption DEF Base, Types
<1>2. IsFiniteSet(Allocated)
  BY <1>1, FS_Interval DEF Allocated
<1>3. Live \subseteq Allocated
  BY DEF Live
<1>4. Allocated \subseteq Entries
  BY <1>1 DEF Allocated, Entries
<1> QED BY <1>2, <1>3, <1>4, FS_Subset

\* A step that moves no cleanup to or from its end keeps the registry.
LEMMA SameRegistry ==
    ASSUME Base, RegistryInv, UNCHANGED registryVars,
           \A e \in Entries : cleanup'[e].stage = "done" <=> cleanup[e].stage = "done"
    PROVE  RegistryInv'
<1>1. /\ sessions' = sessions /\ activeSessions' = activeSessions
      /\ terminalOrder' = terminalOrder /\ used' = used /\ idOf' = idOf
  BY DEF registryVars
<1>2. Allocated' = Allocated /\ Allocated \subseteq Entries
  BY <1>1, LiveFinite DEF Allocated
<1>3. Live' = Live
  BY <1>2 DEF Live
<1>4. \A i \in Ids : sessions[i] # NoEntry => sessions[i] \in Entries
  BY <1>2 DEF Base, Places, EntriesOK
<1>5. \A i \in Ids : Listed(i)' <=> Listed(i)
  BY <1>1 DEF Listed
<1>6. \A i \in Ids : Listed(i)' <=> sessions'[i] # NoEntry /\ cleanup'[sessions'[i]].stage = "done"
  BY <1>1, <1>4, <1>5 DEF RegistryInv
<1> QED BY <1>1, <1>3, <1>6 DEF RegistryInv

\* An admission adds one live session and lists nothing.
LEMMA AdmitsRegistry ==
    ASSUME Base, RegistryInv, NEW t \in Callers, NEW i \in Ids, NEW fresh, Admits(t, i, fresh)
    PROVE  RegistryInv'
<1>1. /\ sessions[i] = NoEntry /\ activeSessions < MaxSessions
      /\ used + 1 \in Entries
      /\ sessions' = [sessions EXCEPT ![i] = used + 1]
      /\ activeSessions' = activeSessions + 1
      /\ used' = used + 1
      /\ idOf' = [idOf EXCEPT ![used + 1] = i]
      /\ terminalOrder' = terminalOrder /\ cleanup' = cleanup
  BY DEF Admits
<1>2. /\ Allocated' = Allocated \cup {used + 1} /\ used + 1 \notin Allocated
      /\ used + 1 # NoEntry
  BY <1>1 DEF Allocated, Base, Types, NoEntry
<1>3. cleanup[used + 1].stage = "none"
  BY <1>1, <1>2 DEF Base, Places, EntriesOK
<1>4. Live' = Live \cup {used + 1} /\ used + 1 \notin Live
  BY <1>1, <1>2, <1>3 DEF Live
<1>5. activeSessions' = Cardinality(Live')
  <2>1. Cardinality(Live \cup {used + 1}) = Cardinality(Live) + 1
    BY <1>4, LiveFinite, FS_AddElement
  <2> QED BY <1>1, <1>4, <2>1 DEF RegistryInv
<1>6. activeSessions' <= MaxSessions
  BY <1>1, CoordinatorAssumption DEF Base, Types
<1>7. \A j \in Ids : sessions'[j] = IF j = i THEN used + 1 ELSE sessions[j]
  BY <1>1 DEF Base, Types
<1>8. /\ idOf'[used + 1] = i
      /\ \A e \in Allocated : idOf'[e] = idOf[e]
  BY <1>1, <1>2, LiveFinite DEF Base, Types
<1>9. \A e \in Live' : sessions'[idOf'[e]] = e
  <2> SUFFICES ASSUME NEW e \in Live' PROVE sessions'[idOf'[e]] = e
    OBVIOUS
  <2>1. CASE e = used + 1
    BY <1>7, <1>8, <2>1
  <2>2. CASE e \in Live
    <3>1. e \in Allocated /\ sessions[idOf[e]] = e /\ idOf[e] \in Ids
      BY <2>2, LiveFinite DEF RegistryInv, Base, Places, EntriesOK
    <3>2. e # NoEntry
      BY <3>1 DEF Allocated, NoEntry
    <3> QED BY <1>1, <1>7, <1>8, <3>1, <3>2
  <2> QED BY <1>4, <2>1, <2>2
<1>10. \A j \in Ids : Listed(j)' <=> Listed(j)
  BY <1>1 DEF Listed
<1>11. \A j \in Ids : Listed(j)' <=> sessions'[j] # NoEntry /\ cleanup'[sessions'[j]].stage = "done"
  BY <1>1, <1>2, <1>3, <1>7, <1>10 DEF RegistryInv
<1> QED BY <1>1, <1>5, <1>6, <1>9, <1>11 DEF RegistryInv

\* The end of a cleanup, in the words of the abstract registry.
LEMMA RetireExact ==
    ASSUME Base, RegistryInv, NEW e \in Entries, Retire(e)
    PROVE  /\ sessions[idOf[e]] = e /\ idOf[e] \in Ids /\ e \in Live
           /\ ~Listed(idOf[e])
           /\ \/ /\ Len(terminalOrder) < MaxTerminal
                 /\ terminalOrder' = Append(terminalOrder, idOf[e])
                 /\ sessions' = sessions
              \/ /\ Len(terminalOrder) = MaxTerminal
                 /\ terminalOrder # <<>>
                 /\ terminalOrder' = Append(Tail(terminalOrder), idOf[e])
                 /\ sessions' = [sessions EXCEPT ![Head(terminalOrder)] = NoEntry]
<1> DEFINE order  == Append(terminalOrder, idOf[e])
           excess == IF Len(order) > MaxTerminal THEN Len(order) - MaxTerminal ELSE 0
<1>1. e \in Allocated /\ cleanup[e].stage = "join" /\ idOf[e] \in Ids
  BY RetireFacts
<1>2. e \in Live
  BY <1>1 DEF Live
<1>3. sessions[idOf[e]] = e
  BY <1>2 DEF RegistryInv
<1>4. ~Listed(idOf[e])
  BY <1>1, <1>3 DEF RegistryInv
<1>5. /\ terminalOrder' = SubSeq(order, excess + 1, Len(order))
      /\ sessions' = [i \in Ids |-> IF \E n \in 1 .. excess : order[n] = i
                                    THEN NoEntry ELSE sessions[i]]
  BY DEF Retire
<1>6. /\ terminalOrder \in Seq(Ids) /\ order \in Seq(Ids)
      /\ Len(order) = Len(terminalOrder) + 1 /\ order # <<>>
      /\ Len(terminalOrder) \in Nat /\ MaxTerminal \in Nat \ {0}
  BY <1>1, CoordinatorAssumption, AppendProperties DEF Base, Types
<1>7. Len(terminalOrder) <= MaxTerminal
  BY DEF RegistryInv
<1>8. CASE Len(terminalOrder) < MaxTerminal
  <2>1. excess = 0
    BY <1>6, <1>8
  <2>2. SubSeq(order, 1, Len(order)) = order
    BY <1>6, SubSeqFull
  <2>3. sessions' = sessions
    <3> HIDE DEF order, excess
    <3> QED BY <1>5, <2>1 DEF Base, Types
  <2>4. terminalOrder' = order
    <3> HIDE DEF order, excess
    <3> QED BY <1>5, <2>1, <2>2
  <2> QED BY <1>1, <1>2, <1>3, <1>4, <1>8, <2>3, <2>4
<1>9. CASE Len(terminalOrder) = MaxTerminal
  <2>1. excess = 1 /\ terminalOrder # <<>>
    BY <1>6, <1>9
  <2>2. Tail(order) = SubSeq(order, 2, Len(order))
    BY <1>6, TailIsSubSeq
  <2>3. Tail(order) = Append(Tail(terminalOrder), idOf[e])
    BY <1>6, <2>1, HeadTailAppend
  <2>4. order[1] = Head(terminalOrder) /\ Head(terminalOrder) \in Ids
    BY <1>1, <1>6, <2>1
  <2>5. sessions' = [sessions EXCEPT ![Head(terminalOrder)] = NoEntry]
    <3>0. PICK h : h = Head(terminalOrder)
      OBVIOUS
    <3>1. order[1] = h /\ h \in Ids
      BY <2>4, <3>0
    <3> HIDE DEF order, excess
    <3>2. \A i \in Ids : (\E n \in 1 .. excess : order[n] = i) <=> i = h
      BY <2>1, <3>1
    <3>3. sessions' = [i \in Ids |-> IF i = h THEN NoEntry ELSE sessions[i]]
      BY <1>5, <3>2
    <3>4. sessions' = [sessions EXCEPT ![h] = NoEntry]
      BY <3>1, <3>3 DEF Base, Types
    <3> QED BY <3>0, <3>4
  <2>6. terminalOrder' = Append(Tail(terminalOrder), idOf[e])
    <3> HIDE DEF order, excess
    <3> QED BY <1>5, <2>1, <2>2, <2>3
  <2> QED BY <1>1, <1>2, <1>3, <1>4, <1>9, <2>1, <2>5, <2>6
<1> QED BY <1>6, <1>7, <1>8, <1>9

\* How the list of retained ids changes.
LEMMA ListAppend ==
    ASSUME NEW q \in Seq(Ids), NEW x \in Ids, NEW r, r = Append(q, x),
           \A n \in 1 .. Len(q) : q[n] # x,
           \A m, n \in 1 .. Len(q) : q[m] = q[n] => m = n
    PROVE  /\ Len(r) = Len(q) + 1
           /\ \A j : (\E n \in 1 .. Len(r) : r[n] = j) <=> (\E n \in 1 .. Len(q) : q[n] = j) \/ j = x
           /\ \A m, n \in 1 .. Len(r) : r[m] = r[n] => m = n
<1>1. /\ Len(r) = Len(q) + 1 /\ Len(q) \in Nat
      /\ \A i \in 1 .. Len(q) : r[i] = q[i]
      /\ r[Len(q) + 1] = x
  BY AppendProperties
<1>2. \A n \in 1 .. Len(r) : n \in 1 .. Len(q) \/ n = Len(q) + 1
  BY <1>1
<1>3. \A n \in 1 .. Len(q) : n \in 1 .. Len(r)
  BY <1>1
<1>4. Len(q) + 1 \in 1 .. Len(r)
  BY <1>1
<1>5. \A m, n \in 1 .. Len(r) : r[m] = r[n] => m = n
  BY <1>1, <1>2
<1>6. \A j : (\E n \in 1 .. Len(r) : r[n] = j) <=> (\E n \in 1 .. Len(q) : q[n] = j) \/ j = x
  BY <1>1, <1>2, <1>3, <1>4
<1> QED BY <1>1, <1>5, <1>6

\* Dropping the head of a list without repetitions drops one member.
LEMMA ListTail ==
    ASSUME NEW q \in Seq(Ids), q # <<>>, NEW r, r = Tail(q),
           \A m, n \in 1 .. Len(q) : q[m] = q[n] => m = n
    PROVE  /\ Len(r) = Len(q) - 1 /\ r \in Seq(Ids)
           /\ \A j : (\E n \in 1 .. Len(r) : r[n] = j)
                       <=> (\E n \in 1 .. Len(q) : q[n] = j) /\ j # Head(q)
           /\ \A m, n \in 1 .. Len(r) : r[m] = r[n] => m = n
           /\ Head(q) \in Ids /\ \E n \in 1 .. Len(q) : q[n] = Head(q)
<1>1. /\ Len(r) = Len(q) - 1 /\ r \in Seq(Ids) /\ Head(q) \in Ids
      /\ Len(q) \in Nat /\ Len(q) > 0 /\ Head(q) = q[1]
      /\ \A i \in 1 .. Len(r) : r[i] = q[i + 1]
  BY HeadTailProperties
<1>2. \A n \in 1 .. Len(r) : n + 1 \in 1 .. Len(q) /\ n + 1 # 1
  BY <1>1
<1>3. \A n \in 1 .. Len(q) : n = 1 \/ (n - 1 \in 1 .. Len(r) /\ r[n - 1] = q[n])
  BY <1>1
<1>4. 1 \in 1 .. Len(q)
  BY <1>1
<1>5. \A m, n \in 1 .. Len(r) : r[m] = r[n] => m = n
  BY <1>1, <1>2
<1>6. \A j : (\E n \in 1 .. Len(r) : r[n] = j)
                       <=> (\E n \in 1 .. Len(q) : q[n] = j) /\ j # Head(q)
  <2> SUFFICES ASSUME NEW j
               PROVE  (\E n \in 1 .. Len(r) : r[n] = j)
                       <=> (\E n \in 1 .. Len(q) : q[n] = j) /\ j # Head(q)
    OBVIOUS
  <2>1. ASSUME NEW n \in 1 .. Len(r), r[n] = j
        PROVE  (\E m \in 1 .. Len(q) : q[m] = j) /\ j # Head(q)
    <3>1. q[n + 1] = j /\ n + 1 \in 1 .. Len(q) /\ n + 1 # 1
      BY <1>1, <1>2, <2>1
    <3> QED BY <1>1, <1>4, <3>1
  <2>2. ASSUME NEW n \in 1 .. Len(q), q[n] = j, j # Head(q)
        PROVE  \E m \in 1 .. Len(r) : r[m] = j
    <3>1. n # 1
      BY <1>1, <2>2
    <3> QED BY <1>3, <2>2, <3>1
  <2> QED BY <2>1, <2>2
<1> QED BY <1>1, <1>4, <1>5, <1>6

\* The end of a cleanup moves one session from the live to the listed.
LEMMA RetireRegistry ==
    ASSUME Base, RegistryInv, NEW e \in Entries, Retire(e)
    PROVE  RegistryInv'
<1>1. /\ sessions[idOf[e]] = e /\ idOf[e] \in Ids /\ e \in Live
      /\ ~Listed(idOf[e])
  BY RetireExact
<1>2. /\ e \in Allocated /\ cleanup[e].stage = "join" /\ used' = used /\ idOf' = idOf
      /\ \E c \in CleanupRecord : /\ cleanup' = [cleanup EXCEPT ![e] = c]
                                  /\ c.stage = "done"
  BY RetireFacts
<1>3. /\ cleanup'[e].stage = "done" /\ \A f \in Entries : f # e => cleanup'[f] = cleanup[f]
      /\ Allocated' = Allocated /\ Allocated \subseteq Entries
  BY <1>2, LiveFinite DEF Base, Types, Allocated
<1>4. Live' = Live \ {e}
  BY <1>3 DEF Live
<1>5. activeSessions' = Cardinality(Live') /\ activeSessions' <= MaxSessions
  <2>1. /\ Cardinality(Live \ {e}) = Cardinality(Live) - 1 /\ Cardinality(Live \ {e}) \in Nat
    BY <1>1, LiveFinite, FS_RemoveElement, FS_CardinalityType
  <2>2. activeSessions = Cardinality(Live) /\ activeSessions \in Nat
    BY DEF RegistryInv, Base, Types
  <2>3. activeSessions > 0
    BY <2>1, <2>2
  <2>4. activeSessions' = activeSessions - 1
    BY <2>2, <2>3 DEF Retire
  <2> QED BY <1>4, <2>1, <2>2, <2>4, CoordinatorAssumption DEF RegistryInv
<1>6. /\ terminalOrder \in Seq(Ids)
      /\ \A n \in 1 .. Len(terminalOrder) : terminalOrder[n] # idOf[e]
      /\ \A m, n \in 1 .. Len(terminalOrder) : terminalOrder[m] = terminalOrder[n] => m = n
      /\ \A i \in Ids : Listed(i) <=> sessions[i] # NoEntry /\ cleanup[sessions[i]].stage = "done"
      /\ \A f \in Live : sessions[idOf[f]] = f
      /\ Len(terminalOrder) \in Nat /\ MaxTerminal \in Nat \ {0}
  BY <1>1, CoordinatorAssumption DEF RegistryInv, Listed, Base, Types
<1>7. \A i \in Ids : sessions[i] # NoEntry => sessions[i] \in Entries /\ idOf[sessions[i]] = i
  BY <1>3 DEF Base, Places, EntriesOK
<1>8. CASE /\ Len(terminalOrder) < MaxTerminal
           /\ terminalOrder' = Append(terminalOrder, idOf[e])
           /\ sessions' = sessions
  <2>1. /\ Len(terminalOrder') = Len(terminalOrder) + 1
        /\ \A j : Listed(j)' <=> Listed(j) \/ j = idOf[e]
        /\ \A m, n \in 1 .. Len(terminalOrder') : terminalOrder'[m] = terminalOrder'[n] => m = n
    BY <1>1, <1>6, <1>8, ListAppend DEF Listed
  <2>2. Len(terminalOrder') <= MaxTerminal
    BY <1>6, <1>8, <2>1
  <2>3. \A f \in Live' : sessions'[idOf'[f]] = f
    BY <1>2, <1>4, <1>6, <1>8
  <2>4. \A i \in Ids : Listed(i)' <=> sessions'[i] # NoEntry /\ cleanup'[sessions'[i]].stage = "done"
    <3> SUFFICES ASSUME NEW i \in Ids
                 PROVE  Listed(i)' <=> sessions'[i] # NoEntry /\ cleanup'[sessions'[i]].stage = "done"
      OBVIOUS
    <3>1. CASE i = idOf[e]
      <4>1. sessions'[i] = e /\ e # NoEntry /\ Listed(i)'
        BY <1>1, <1>2, <1>8, <2>1, <3>1 DEF Allocated, NoEntry
      <4> QED BY <1>3, <4>1
    <3>2. CASE i # idOf[e]
      <4>1. sessions'[i] = sessions[i] /\ (Listed(i)' <=> Listed(i))
        BY <1>8, <2>1, <3>2
      <4>2. sessions[i] # NoEntry => sessions[i] \in Entries /\ sessions[i] # e
        BY <1>7, <3>2
      <4> QED BY <1>3, <1>6, <4>1, <4>2
    <3> QED BY <3>1, <3>2
  <2> QED BY <1>5, <2>1, <2>2, <2>3, <2>4 DEF RegistryInv
<1>9. CASE /\ Len(terminalOrder) = MaxTerminal
           /\ terminalOrder # <<>>
           /\ terminalOrder' = Append(Tail(terminalOrder), idOf[e])
           /\ sessions' = [sessions EXCEPT ![Head(terminalOrder)] = NoEntry]
  <2> DEFINE r == Tail(terminalOrder)
             h == Head(terminalOrder)
  <2>1. /\ Len(r) = Len(terminalOrder) - 1 /\ r \in Seq(Ids)
        /\ \A j : (\E n \in 1 .. Len(r) : r[n] = j) <=> Listed(j) /\ j # h
        /\ \A m, n \in 1 .. Len(r) : r[m] = r[n] => m = n
        /\ h \in Ids /\ Listed(h)
    BY <1>6, <1>9, ListTail DEF Listed
  <2> HIDE DEF r, h
  <2>2. \A n \in 1 .. Len(r) : r[n] # idOf[e]
    BY <1>1, <2>1
  <2>3. terminalOrder' = Append(r, idOf[e]) /\ sessions' = [sessions EXCEPT ![h] = NoEntry]
    BY <1>9 DEF r, h
  <2>4. /\ Len(terminalOrder') = Len(r) + 1
        /\ \A j : Listed(j)' <=> (\E n \in 1 .. Len(r) : r[n] = j) \/ j = idOf[e]
        /\ \A m, n \in 1 .. Len(terminalOrder') : terminalOrder'[m] = terminalOrder'[n] => m = n
    BY <1>1, <2>1, <2>2, <2>3, ListAppend, SMTT(60) DEF Listed
  <2>5. Len(terminalOrder') <= MaxTerminal
    BY <1>6, <1>9, <2>1, <2>4
  <2>6. h # idOf[e] /\ sessions[h] # NoEntry /\ cleanup[sessions[h]].stage = "done"
    BY <1>1, <1>6, <2>1
  <2>7. \A i \in Ids : sessions'[i] = IF i = h THEN NoEntry ELSE sessions[i]
    BY <2>1, <2>3 DEF Base, Types
  <2>8. \A f \in Live' : sessions'[idOf'[f]] = f
    <3> SUFFICES ASSUME NEW f \in Live' PROVE sessions'[idOf'[f]] = f
      OBVIOUS
    <3>1. f \in Live /\ sessions[idOf[f]] = f /\ cleanup[f].stage # "done" /\ idOf[f] \in Ids
      BY <1>4, <1>6 DEF Live, Base, Places, EntriesOK
    <3>2. idOf[f] # h
      BY <2>6, <3>1
    <3> QED BY <1>2, <2>7, <3>1, <3>2
  <2>9. \A i \in Ids : Listed(i)' <=> sessions'[i] # NoEntry /\ cleanup'[sessions'[i]].stage = "done"
    <3> SUFFICES ASSUME NEW i \in Ids
                 PROVE  Listed(i)' <=> sessions'[i] # NoEntry /\ cleanup'[sessions'[i]].stage = "done"
      OBVIOUS
    <3>1. CASE i = idOf[e]
      <4>1. sessions'[i] = e /\ e # NoEntry /\ Listed(i)'
        BY <1>1, <1>2, <2>4, <2>6, <2>7, <3>1 DEF Allocated, NoEntry
      <4> QED BY <1>3, <4>1
    <3>2. CASE i = h
      BY <2>1, <2>4, <2>6, <2>7, <3>2
    <3>3. CASE i # idOf[e] /\ i # h
      <4>1. sessions'[i] = sessions[i] /\ (Listed(i)' <=> Listed(i))
        BY <2>1, <2>4, <2>7, <3>3
      <4>2. sessions[i] # NoEntry => sessions[i] \in Entries /\ sessions[i] # e
        BY <1>7, <3>3
      <4> QED BY <1>3, <1>6, <4>1, <4>2
    <3> QED BY <3>1, <3>2, <3>3
  <2> QED BY <1>5, <2>4, <2>5, <2>8, <2>9 DEF RegistryInv
<1> QED BY <1>8, <1>9, RetireExact

\* Every sort of step keeps the registry exact.
LEMMA RegistryStep ==
    ASSUME Base, RegistryInv, Stirs
    PROVE  RegistryInv'
<1>1. CASE Still
  <2>1. UNCHANGED registryVars /\ cleanup' = cleanup
    BY <1>1 DEF Still
  <2> QED BY <2>1, SameRegistry
<1>2. CASE \E t \in Callers, i \in Ids, fresh \in Shape : Admits(t, i, fresh)
  BY <1>2, AdmitsRegistry
<1>3. CASE AppliesSome
  <2>1. PICK t \in Tasks, e \in Allocated, kind \in EventKinds, failed \in BOOLEAN :
           \E arg \in Payloads(kind) : Applied(t, e, kind, arg, failed)
    BY <1>3 DEF AppliesSome
  <2>2. /\ e \in Entries
        /\ \A f \in Entries : f # e => cleanup'[f] = cleanup[f]
        /\ cleanup' = cleanup \/ (cleanup[e].stage = "none" /\ cleanup'[e].stage = "spawned")
    BY <2>1, AppliedFacts
  <2>3. \A f \in Entries : cleanup'[f].stage = "done" <=> cleanup[f].stage = "done"
    BY <2>2
  <2>4. UNCHANGED registryVars
    BY <1>3 DEF AppliesSome
  <2> QED BY <2>3, <2>4, SameRegistry
<1>4. CASE \E t \in Tasks, key \in Keys : KeyMove(t, key)
  <2>1. UNCHANGED registryVars /\ cleanup' = cleanup
    BY <1>4 DEF KeyMove
  <2> QED BY <2>1, SameRegistry
<1>5. ASSUME NEW e \in Entries, Tears(e)
      PROVE  RegistryInv'
  <2>1. /\ UNCHANGED registryVars
        /\ cleanup[e].stage # "done" /\ cleanup'[e].stage # "done"
        /\ \A f \in Entries : f # e => cleanup'[f] = cleanup[f]
    BY <1>5 DEF Tears, Base, Types
  <2>2. \A f \in Entries : cleanup'[f].stage = "done" <=> cleanup[f].stage = "done"
    BY <2>1
  <2> QED BY <2>1, <2>2, SameRegistry
<1>6. CASE \E e \in Entries : Retire(e)
  BY <1>6, RetireRegistry
<1> QED BY <1>1, <1>2, <1>3, <1>4, <1>5, <1>6 DEF Stirs

\* The registry accounts for every session in every reachable state.
LEMMA RegistryInvariant == Spec => []RegistryInv
<1>1. Init => RegistryInv
  <2> SUFFICES ASSUME Init PROVE RegistryInv
    OBVIOUS
  <2>1. Live = {} /\ activeSessions = 0 /\ terminalOrder = <<>> /\ Len(terminalOrder) = 0
    BY DEF Init, Allocated, Live
  <2>2. \A i \in Ids : sessions[i] = NoEntry /\ ~Listed(i)
    BY <2>1 DEF Init, Listed
  <2> QED BY <2>1, <2>2, FS_EmptySet, CoordinatorAssumption DEF RegistryInv
<1>2. Base /\ RegistryInv /\ [Next]_vars => RegistryInv'
  BY NextStirs, RegistryStep
<1> QED BY <1>1, <1>2, BaseInvariant, PTL DEF Spec

(* The registry accounts for every session exactly (begin, run_cleanup): the *)
(* active count, both limits of the configuration, and what is retained.     *)
THEOREM RegistryExactInvariant == Spec => []RegistryExact
<1>1. Base /\ RegistryInv => RegistryExact
  <2> SUFFICES ASSUME Base, RegistryInv PROVE RegistryExact
    OBVIOUS
  <2>1. DOMAIN terminalOrder = 1 .. Len(terminalOrder)
    BY DEF Base, Types
  <2> QED BY <2>1 DEF RegistryInv, RegistryExact, Live, Listed
<1> QED BY <1>1, BaseInvariant, RegistryInvariant, PTL
-----------------------------------------------------------------------------
(* The registry implements WanSessionRegistry.                             *)

\* A slot is one of the four the abstract registry knows.
LEMMA SlotValues ==
    ASSUME Base, NEW i \in Ids
    PROVE  /\ Slot(i) = "vacant" <=> sessions[i] = NoEntry
           /\ Slot(i) \in {"active", "ending"} <=>
                sessions[i] # NoEntry /\ cleanup[sessions[i]].stage # "done"
BY DEF Slot

\* The slots of one id change, all others stay.
LEMMA OneSlot ==
    ASSUME NEW i \in Ids, \A j \in Ids : j # i => Slot(j)' = Slot(j)
    PROVE  [j \in Ids |-> Slot(j)]' = [[j \in Ids |-> Slot(j)] EXCEPT ![i] = Slot(i)']
OBVIOUS

\* An admission is an abstract Begin.
LEMMA AdmitImplements ==
    ASSUME Base, RegistryInv, NEW t \in Callers, NEW i \in Ids, NEW fresh, Admits(t, i, fresh)
    PROVE  Registry!Admit(i)
<1>1. /\ sessions[i] = NoEntry /\ activeSessions < MaxSessions
      /\ used + 1 \in Entries
      /\ sessions' = [sessions EXCEPT ![i] = used + 1]
      /\ terminalOrder' = terminalOrder /\ cleanup' = cleanup /\ used' = used + 1
  BY DEF Admits
<1>2. used + 1 # NoEntry /\ cleanup[used + 1].stage = "none"
  BY <1>1 DEF Base, Types, Places, EntriesOK, Allocated, NoEntry
<1>3. \A j \in Ids : sessions'[j] = IF j = i THEN used + 1 ELSE sessions[j]
  BY <1>1 DEF Base, Types
<1>4. Slot(i) = "vacant" /\ Slot(i)' = "active"
  BY <1>1, <1>2, <1>3 DEF Slot
<1>5. \A j \in Ids : j # i => Slot(j)' = Slot(j)
  BY <1>1, <1>3 DEF Slot
<1>6. [j \in Ids |-> Slot(j)]' = [[j \in Ids |-> Slot(j)] EXCEPT ![i] = "active"]
  BY <1>4, <1>5, OneSlot
<1>7. Cardinality({j \in Ids : [k \in Ids |-> Slot(k)][j] \in {"active", "ending"}}) < MaxSessions
  <2> DEFINE J == {j \in Ids : [k \in Ids |-> Slot(k)][j] \in {"active", "ending"}}
             f == [j \in J |-> sessions[j]]
  <2>1. \A j \in J : j \in Ids /\ sessions[j] # NoEntry /\ cleanup[sessions[j]].stage # "done"
    BY SlotValues
  <2> HIDE DEF J
  <2>2. \A j \in J : sessions[j] \in Live /\ idOf[sessions[j]] = j
    BY <2>1 DEF Live, Base, Places, EntriesOK
  <2>3. f \in Injection(J, Live)
    BY <2>2 DEF Injection, IsInjective
  <2>4. Cardinality(J) <= Cardinality(Live) /\ IsFiniteSet(J)
    BY <2>3, FS_Injection, LiveFinite
  <2>5. Cardinality(J) \in Nat /\ Cardinality(Live) \in Nat
    BY <2>4, LiveFinite, FS_CardinalityType
  <2>6. Cardinality(J) < MaxSessions
    BY <1>1, <2>4, <2>5, CoordinatorAssumption DEF RegistryInv
  <2> QED BY <2>6 DEF J
<1>8. [j \in Ids |-> Slot(j)][i] = "vacant"
  BY <1>4
<1>9. ASSUME NEW S
      PROVE  Registry!Cardinality(S) = Cardinality(S)
  BY DEF Registry!Cardinality, Cardinality
<1> QED BY <1>1, <1>6, <1>7, <1>8, <1>9, Zenon DEF Registry!Admit

\* The start of a cleanup is an abstract End.
LEMMA EndImplements ==
    ASSUME Base, RegistryInv, NEW e \in Live, cleanup[e].stage = "none",
           cleanup'[e].stage = "spawned",
           \A f \in Entries : f # e => cleanup'[f] = cleanup[f],
           UNCHANGED registryVars
    PROVE  Registry!End(idOf[e])
<1>1. e \in Allocated /\ e # NoEntry /\ idOf[e] \in Ids /\ sessions[idOf[e]] = e
  BY LiveFinite DEF Allocated, NoEntry, RegistryInv, Base, Places, EntriesOK
<1>2. sessions' = sessions /\ terminalOrder' = terminalOrder
  BY DEF registryVars
<1>4. \A j \in Ids : j # idOf[e] => Slot(j)' = Slot(j)
  <2> SUFFICES ASSUME NEW j \in Ids, j # idOf[e] PROVE Slot(j)' = Slot(j)
    OBVIOUS
  <2>1. sessions[j] # NoEntry => sessions[j] \in Entries /\ sessions[j] # e
    BY LiveFinite DEF Base, Places, EntriesOK
  <2> QED BY <1>2, <2>1 DEF Slot
<1>5. PICK i \in Ids : i = idOf[e]
  BY <1>1
<1>6. Slot(i) = "active" /\ Slot(i)' = "ending"
  BY <1>1, <1>2, <1>5 DEF Slot
<1>7. [j \in Ids |-> Slot(j)]' = [[j \in Ids |-> Slot(j)] EXCEPT ![i] = "ending"]
  BY <1>4, <1>5, <1>6, OneSlot
<1>8. Registry!End(i)
  BY <1>2, <1>6, <1>7 DEF Registry!End
<1> QED BY <1>5, <1>8

\* The end of a cleanup is an abstract Retire.
LEMMA RetireImplements ==
    ASSUME Base, RegistryInv, NEW e \in Entries, Retire(e)
    PROVE  \E i \in Ids : Registry!Retire(i)
<1>1. PICK i \in Ids : i = idOf[e] /\ sessions[i] = e /\ e \in Live /\ ~Listed(i)
  BY RetireExact
<1>2. /\ cleanup[e].stage = "join"
      /\ \E c \in CleanupRecord : /\ cleanup' = [cleanup EXCEPT ![e] = c]
                                  /\ c.stage = "done"
  BY RetireFacts
<1>3. cleanup'[e].stage = "done" /\ \A f \in Entries : f # e => cleanup'[f] = cleanup[f]
  BY <1>2 DEF Base, Types
<1>4. e # NoEntry
  BY <1>1, LiveFinite DEF Allocated, NoEntry
<1>5. \A j \in Ids : sessions[j] # NoEntry /\ j # i => sessions[j] \in Entries /\ sessions[j] # e
  BY <1>1, LiveFinite DEF Base, Places, EntriesOK
<1>6. Slot(i) = "ending"
  BY <1>1, <1>2, <1>4 DEF Slot
<1>7. terminalOrder \in Seq(Ids) /\ Len(terminalOrder) \in Nat /\ MaxTerminal \in Nat
  BY CoordinatorAssumption DEF Base, Types
<1>8. CASE /\ Len(terminalOrder) < MaxTerminal
           /\ terminalOrder' = Append(terminalOrder, idOf[e])
           /\ sessions' = sessions
  <2>1. Slot(i)' = "retained"
    BY <1>1, <1>3, <1>4, <1>8 DEF Slot
  <2>2. \A j \in Ids : j # i => Slot(j)' = Slot(j)
    BY <1>3, <1>5, <1>8 DEF Slot
  <2>3. [j \in Ids |-> Slot(j)]' = [[j \in Ids |-> Slot(j)] EXCEPT ![i] = "retained"]
    BY <2>1, <2>2, OneSlot
  <2>4. Registry!Retire(i)
    BY <1>1, <1>6, <1>8, <2>3 DEF Registry!Retire
  <2> QED BY <2>4
<1>9. CASE /\ Len(terminalOrder) = MaxTerminal
           /\ terminalOrder # <<>>
           /\ terminalOrder' = Append(Tail(terminalOrder), idOf[e])
           /\ sessions' = [sessions EXCEPT ![Head(terminalOrder)] = NoEntry]
  <2>1. PICK h : h = Head(terminalOrder)
    OBVIOUS
  <2>2. h \in Ids /\ h # i
    <3>1. h \in Ids /\ h = terminalOrder[1] /\ 1 \in 1 .. Len(terminalOrder)
      BY <1>7, <1>9, <2>1
    <3> QED BY <1>1, <3>1 DEF Listed
  <2>3. \A j \in Ids : sessions'[j] = IF j = h THEN NoEntry ELSE sessions[j]
    BY <1>9, <2>1, <2>2 DEF Base, Types
  <2>4. Slot(i)' = "retained" /\ Slot(h)' = "vacant"
    BY <1>1, <1>3, <1>4, <2>2, <2>3 DEF Slot
  <2>5. \A j \in Ids : j # i /\ j # h => Slot(j)' = Slot(j)
    BY <1>3, <1>5, <2>3 DEF Slot
  <2>6. [j \in Ids |-> Slot(j)]'
          = [[j \in Ids |-> Slot(j)] EXCEPT ![i] = "retained", ![h] = "vacant"]
    BY <2>2, <2>4, <2>5
  <2>7. Registry!Retire(i)
    BY <1>1, <1>6, <1>7, <1>9, <2>1, <2>6 DEF Registry!Retire
  <2> QED BY <2>7
<1> QED BY <1>8, <1>9, RetireExact

\* Every step is a step of the abstract registry, or a stutter of it.
LEMMA RegistryStepImplements ==
    ASSUME Base, RegistryInv, Stirs
    PROVE  [Registry!Next]_(Registry!vars)
<1>0. \A j \in Ids : sessions[j] # NoEntry => sessions[j] \in Entries /\ idOf[sessions[j]] = j
  BY LiveFinite DEF Base, Places, EntriesOK
<1>s. ASSUME sessions' = sessions, terminalOrder' = terminalOrder,
             \A f \in Entries :
               /\ cleanup'[f].stage = "none" <=> cleanup[f].stage = "none"
               /\ cleanup'[f].stage = "done" <=> cleanup[f].stage = "done"
      PROVE  UNCHANGED Registry!vars
  <2>1. \A j \in Ids : Slot(j)' = Slot(j)
    BY <1>0, <1>s DEF Slot
  <2>2. [j \in Ids |-> Slot(j)]' = [j \in Ids |-> Slot(j)]
    BY <2>1
  <2> QED BY <1>s, <2>2 DEF Registry!vars
<1>1. CASE Still
  BY <1>1, <1>s DEF Still, registryVars
<1>2. CASE \E t \in Callers, i \in Ids, fresh \in Shape : Admits(t, i, fresh)
  BY <1>2, AdmitImplements DEF Registry!Next
<1>3. CASE AppliesSome
  <2>1. PICK t \in Tasks, e \in Allocated, kind \in EventKinds, failed \in BOOLEAN :
           \E arg \in Payloads(kind) : Applied(t, e, kind, arg, failed)
    BY <1>3 DEF AppliesSome
  <2>2. /\ e \in Entries
        /\ \A f \in Entries : f # e => cleanup'[f] = cleanup[f]
        /\ cleanup' = cleanup \/ (cleanup[e].stage = "none" /\ cleanup'[e].stage = "spawned")
    BY <2>1, AppliedFacts
  <2>3. UNCHANGED registryVars /\ sessions' = sessions /\ terminalOrder' = terminalOrder
    BY <1>3 DEF AppliesSome, registryVars
  <2>4. CASE cleanup' = cleanup
    BY <2>3, <2>4, <1>s
  <2>5. CASE cleanup[e].stage = "none" /\ cleanup'[e].stage = "spawned"
    <3>1. e \in Live /\ idOf[e] \in Ids
      BY <2>5 DEF Live, Base, Places, EntriesOK
    <3>2. Registry!End(idOf[e])
      BY <2>2, <2>3, <2>5, <3>1, EndImplements
    <3> QED BY <3>1, <3>2 DEF Registry!Next
  <2> QED BY <2>2, <2>4, <2>5
<1>4. CASE \E t \in Tasks, key \in Keys : KeyMove(t, key)
  BY <1>4, <1>s DEF KeyMove, registryVars
<1>5. ASSUME NEW e \in Entries, Tears(e)
      PROVE  [Registry!Next]_(Registry!vars)
  <2>1. /\ sessions' = sessions /\ terminalOrder' = terminalOrder
        /\ cleanup[e].stage \notin {"none", "done"} /\ cleanup'[e].stage \notin {"none", "done"}
        /\ \A f \in Entries : f # e => cleanup'[f] = cleanup[f]
    BY <1>5 DEF Tears, Base, Types, registryVars
  <2>2. \A f \in Entries :
               /\ cleanup'[f].stage = "none" <=> cleanup[f].stage = "none"
               /\ cleanup'[f].stage = "done" <=> cleanup[f].stage = "done"
    BY <2>1
  <2> QED BY <2>1, <2>2, <1>s
<1>6. CASE \E e \in Entries : Retire(e)
  BY <1>6, RetireImplements DEF Registry!Next
<1> QED BY <1>1, <1>2, <1>3, <1>4, <1>5, <1>6 DEF Stirs

(* The counter, the deque and the map of the code, with the cleanup that     *)
(* runs between them, behave as the abstract registry does.                  *)
THEOREM RegistryRefinement == Spec => ImplementsRegistry
<1>1. Init => Registry!Init
  <2> SUFFICES ASSUME Init PROVE Registry!Init
    OBVIOUS
  <2>1. \A i \in Ids : Slot(i) = "vacant"
    BY DEF Init, Slot
  <2> QED BY <2>1 DEF Init, Registry!Init
<1>2. Base /\ RegistryInv /\ [Next]_vars => [Registry!Next]_(Registry!vars)
  BY NextStirs, RegistryStepImplements
<1> QED BY <1>1, <1>2, BaseInvariant, RegistryInvariant, PTL
        DEF Spec, ImplementsRegistry, Registry!Spec
-----------------------------------------------------------------------------
(* A route is never verified at or after the moment its authorization ends,  *)
(* however long the installer took (commit_generation_zero).                 *)
THEOREM VerifiedInTimeHolds == Spec => VerifiedInTime
<1>1. Base /\ [Next]_vars =>
        [\A e \in Allocated :
           state[e].phase # "RelayVerified" /\ state'[e].phase = "RelayVerified" =>
              now < EffectiveDeadline(state[e])]_vars
  <2> SUFFICES ASSUME Base, [Next]_vars, NEW e \in Allocated,
                      state[e].phase # "RelayVerified", state'[e].phase = "RelayVerified"
               PROVE  now < EffectiveDeadline(state[e])
    OBVIOUS
  <2>0. Stirs /\ e \in Entries
    BY NextStirs, LiveFinite
  <2>1. CASE Still
    BY <2>1 DEF Still
  <2>2. CASE \E t \in Callers, i \in Ids, fresh \in Shape : Admits(t, i, fresh)
    <3>1. used + 1 \in Entries /\ e # used + 1
      BY <2>2 DEF Admits, Allocated, Base, Types
    <3>2. state'[e] = state[e]
      BY <2>0, <2>2, <3>1 DEF Admits, Base, Types
    <3> QED BY <3>2
  <2>3. CASE AppliesSome
    <3>1. PICK t \in Tasks, f \in Allocated, kind \in EventKinds, failed \in BOOLEAN :
           \E arg \in Payloads(kind) : Fit(t, f, kind) /\ Applied(t, f, kind, arg, failed)
      BY <2>3 DEF AppliesSome
    <3>2. PICK arg \in Payloads(kind) : Fit(t, f, kind) /\ Applied(t, f, kind, arg, failed)
      BY <3>1
    <3>3. /\ e # f => state'[e] = state[e]
          /\ ApplyFacts(state[f], state'[f], kind, arg, now)
      BY <2>0, <3>2, AppliedFacts
    <3>4. e = f /\ kind = "RelayVerified"
      BY <3>3 DEF ApplyFacts
    <3> QED BY <3>2, <3>4 DEF Fit
  <2>4. ASSUME NEW t \in Tasks, NEW key \in Keys, KeyMove(t, key), task[t].ent \in Allocated
        PROVE  FALSE
    <3>1. PICK s : s = BindKey(state[task[t].ent], key)
      OBVIOUS
    <3>2. task[t].ent \in Entries
      BY <2>4, LiveFinite
    <3>3. s.phase = state[task[t].ent].phase
      BY <3>1, <3>2, KeyState DEF Base, Types
    <3>4. state' = state \/ state' = [state EXCEPT ![task[t].ent] = s]
      BY <2>4, <3>1 DEF KeyMove
    <3> QED BY <2>0, <3>2, <3>3, <3>4 DEF Base, Types
  <2>5. CASE \E f \in Entries : Tears(f) \/ Retire(f)
    BY <2>5 DEF Tears, Retire
  <2> QED BY <2>0, <2>1, <2>2, <2>3, <2>4, <2>5 DEF Stirs
<1> QED BY <1>1, BaseInvariant, PTL DEF Spec, VerifiedInTime
-----------------------------------------------------------------------------
(* A session that claims a verified route has the route installed. What    *)
(* could take it away is the rollback of another generation-zero task and  *)
(* the cleanup of another entry of the same id; the ownership lease rules  *)
(* the first out, the registry the second.                                 *)

\* What a step may do to an owned task, as far as the commit cares.
CommitMove(o) ==
    LET k == task[o]
        n == task'[o]
    IN  \/ /\ n.arg = TRUE /\ n.pc = "install" /\ n.ent = home[o] /\ k.pc = "lock"
           /\ state[home[o]].phase = "Negotiating" /\ state' = state
        \/ /\ n.arg = k.arg /\ n.pc # "install"
           /\ n.pc \in {"finalizing", "committed"} => k.pc \in {"install", "finalizing"}
           /\ k.pc = "committed" => Cancelled(o)

OwnedStep(o) ==
    LET k == task[o]
        n == task'[o]
    IN  \/ n = k
        \/ n.op \notin {"claim", "negotiate", "commit"} /\ n.pc # "install"
        \/ n.op = "claim" /\ n.arg # TRUE /\ n.pc # "install"
        \/ /\ k.op \in {"claim", "negotiate"} /\ n.op = k.op /\ n.id = k.id /\ n.arg = k.arg
           /\ n.pc # "install"
        \/ /\ k.op = "claim" /\ n.op = "negotiate" /\ n.id = k.id /\ n.arg = k.arg
           /\ n.pc # "install"
           /\ \A p \in Owned \ {o} : ~(HoldsLease(p) /\ task[p].id = k.id)
        \/ /\ k.op = "negotiate" /\ n.op = "commit" /\ n.id = k.id /\ n.arg = k.arg
           /\ n.pc = "gate"
        \/ k.op = "commit" /\ n.op = "commit" /\ n.id = k.id /\ CommitMove(o)

\* The route of an id goes with a rollback or with a cleanup only.
RouteStep ==
    \/ \A i \in Ids : route[i] => route'[i]
    \/ \E o \in Owned :
         /\ task[o].pc = "failed" /\ task[o].op = "commit" /\ task[o].arg = TRUE
         /\ \A i \in Ids : i # task[o].id => route'[i] = route[i]
         /\ UNCHANGED <<registryVars, state>>
    \/ \E e \in Entries :
         /\ cleanup[e].stage \in CleanupSteps
         /\ \A i \in Ids : i # idOf[e] => route'[i] = route[i]
         /\ UNCHANGED <<registryVars, state>>

GroupStep ==
    \A e \in Entries : group'[e].closed => group[e].closed \/ cleanup'[e].stage = "stop_media"

Parts ==
    /\ \A o \in Owned : OwnedStep(o)
    /\ \A o, p \in Owned : task'[o] # task[o] /\ task'[p] # task[p] => o = p
    /\ \A o \in Owned : home'[o] = home[o] \/ task'[o].op = "claim"
    /\ RouteStep
    /\ GroupStep

\* Only the task t moves.
OnlyTask(t) == \A u \in Tasks : u # t => task'[u] = task[u]

\* A step of a caller leaves owned tasks, routes and groups alone.
LEMMA CallerParts ==
    ASSUME NEW t \in Callers, OnlyTask(t), route' = route, group' = group, home' = home
    PROVE  Parts
<1>1. \A o \in Owned : task'[o] = task[o]
  BY CallersAside, OwnedAreTasks DEF OnlyTask
<1>2. \A o \in Owned : OwnedStep(o)
  BY <1>1 DEF OwnedStep
<1>3. RouteStep /\ GroupStep
  BY DEF RouteStep, GroupStep
<1> QED BY <1>1, <1>2, <1>3 DEF Parts

\* A step of an owned task leaves the other owned tasks alone.
LEMMA OwnedParts ==
    ASSUME NEW o \in Owned, OnlyTask(o), OwnedStep(o), RouteStep, group' = group, home' = home
    PROVE  Parts
<1>1. \A p \in Owned : p # o => task'[p] = task[p]
  BY OwnedAreTasks DEF OnlyTask
<1>2. \A p \in Owned : OwnedStep(p)
  BY <1>1 DEF OwnedStep
<1>3. GroupStep
  BY DEF GroupStep
<1> QED BY <1>1, <1>2, <1>3 DEF Parts

\* The three ways a task moves touch no other.
LEMMA OnlyTaskMoves ==
    ASSUME Base, NEW t \in Tasks
    PROVE  /\ \A k : task' = [task EXCEPT ![t] = k] => OnlyTask(t) /\ task'[t] = k
           /\ \A ok : Return(t, ok) => OnlyTask(t) /\ task'[t] = Resumed(t, ok)
           /\ \A e, ok, cont : Waits(t, e, ok, cont) =>
                /\ OnlyTask(t)
                /\ task'[t].pc = "finalizing" /\ task'[t].op = task[t].op
                /\ task'[t].id = task[t].id /\ task'[t].arg = task[t].arg
                /\ task'[t].ent = task[t].ent
           /\ \A pc : Goto(t, pc) =>
                /\ OnlyTask(t)
                /\ task'[t].pc = pc /\ task'[t].op = task[t].op
                /\ task'[t].id = task[t].id /\ task'[t].arg = task[t].arg
                /\ task'[t].ent = task[t].ent
<1>1. task \in [Tasks -> TaskRecord]
  BY DEF Base, Types
<1>2. \A k : task' = [task EXCEPT ![t] = k] => OnlyTask(t) /\ task'[t] = k
  BY <1>1 DEF OnlyTask
<1>3. \A ok : Return(t, ok) => OnlyTask(t) /\ task'[t] = Resumed(t, ok)
  BY <1>2 DEF Return
<1>4. ASSUME NEW e, NEW ok, NEW cont, Waits(t, e, ok, cont)
      PROVE  /\ OnlyTask(t)
             /\ task'[t].pc = "finalizing" /\ task'[t].op = task[t].op
             /\ task'[t].id = task[t].id /\ task'[t].arg = task[t].arg
             /\ task'[t].ent = task[t].ent
  BY <1>1, <1>4 DEF Waits, OnlyTask, TaskRecord
<1>5. ASSUME NEW pc, Goto(t, pc)
      PROVE  /\ OnlyTask(t)
             /\ task'[t].pc = pc /\ task'[t].op = task[t].op
             /\ task'[t].id = task[t].id /\ task'[t].arg = task[t].arg
             /\ task'[t].ent = task[t].ent
  BY <1>1, <1>5 DEF Goto, OnlyTask, TaskRecord
<1> QED BY <1>2, <1>3, <1>4, <1>5

\* A step of a workflow moves its own task alone.
LEMMA ActsOnly ==
    ASSUME Base, NEW t \in Tasks, NEW K, NEW next, Acts(t, K, next)
    PROVE  /\ OnlyTask(t)
           /\ \/ \E ok \in BOOLEAN : task'[t] = Resumed(t, ok)
              \/ /\ task'[t].op = task[t].op /\ task'[t].id = task[t].id
                 /\ task'[t].arg = task[t].arg /\ task'[t].ent = task[t].ent
                 /\ task'[t].pc = "finalizing" \/ (next # "return" /\ task'[t].pc = next)
BY OnlyTaskMoves DEF Acts

\* Where an owned task goes on when an operation has returned.
LEMMA ResumedOwned ==
    ASSUME Base, NEW o \in Owned, NEW ok \in BOOLEAN
    PROVE  LET n == Resumed(o, ok) IN
           \/ n.op \in {"none", "stream"} /\ n.pc # "install"
           \/ /\ task[o].op \in {"negotiate", "commit"} /\ n.op = task[o].op
              /\ n.id = task[o].id /\ n.arg = task[o].arg
              /\ n.pc \in {"peer", "committed", "failed"}
              /\ n.pc = "committed" => task[o].op = "commit" /\ ok
<1>1. o \in Tasks /\ task[o].op \in OwnedOps
  BY OwnedAreTasks DEF Base, Places, OwnedOK
<1>2. /\ Idle.op = "none" /\ Idle.pc = "idle" /\ Ended.op = "none" /\ Ended.pc = "finished"
  BY IdleRecord
<1>3. ASSUME NEW op \in {"negotiate", "commit", "stream"},
             NEW pc \in {"peer", "committed", "activated", "failed"}
      PROVE  LET k == Then(o, op, pc) IN
             k.pc = pc /\ k.op = op /\ k.id = task[o].id /\ k.arg = task[o].arg
  <2>1. op \in Ops /\ pc \in Pcs
    BY DEF Ops, InnerOps, Pcs
  <2> QED BY <1>1, <2>1, ThenRecord DEF Base
<1>4. PICK n : n = Resumed(o, ok)
  OBVIOUS
<1>5. CASE task[o].op \in {"none", "claim"}
  <2>1. n = Idle
    BY <1>4, <1>5 DEF Resumed, SweepOps
  <2> QED BY <1>2, <1>4, <2>1
<1>6. CASE task[o].op = "owned_fail"
  <2>1. n = Ended
    BY <1>4, <1>6 DEF Resumed, SweepOps
  <2> QED BY <1>2, <1>4, <2>1
<1>7. CASE task[o].op = "negotiate"
  <2>1. n = Then(o, "negotiate", IF ok THEN "peer" ELSE "failed")
    BY <1>4, <1>7 DEF Resumed, SweepOps
  <2> QED BY <1>3, <1>4, <1>7, <2>1
<1>8. CASE task[o].op = "commit"
  <2>1. n = Then(o, "commit", IF ok THEN "committed" ELSE "failed")
    BY <1>4, <1>8 DEF Resumed, SweepOps
  <2> QED BY <1>3, <1>4, <1>8, <2>1
<1>9. CASE task[o].op = "stream"
  <2>1. n = Then(o, "stream", IF ok THEN "activated" ELSE "failed")
    BY <1>4, <1>9 DEF Resumed, SweepOps
  <2> QED BY <1>3, <1>4, <1>9, <2>1
<1> QED BY <1>1, <1>5, <1>6, <1>7, <1>8, <1>9 DEF OwnedOps

\* A step outside the lock moves its own task alone.
LEMMA StrollsOnly ==
    ASSUME Base, NEW t \in Tasks, NEW k, Strolls(t, k)
    PROVE  OnlyTask(t) /\ task'[t] = k /\ group' = group /\ home' = home
BY OnlyTaskMoves DEF Strolls

\* So does a step under the lock.
LEMMA StaysOnly ==
    ASSUME Base, NEW t \in Tasks, NEW k, Stays(t, k)
    PROVE  OnlyTask(t) /\ task'[t] = k /\ group' = group /\ home' = home
BY OnlyTaskMoves DEF Stays

\* A caller's or sweep's workflow leaves the routes alone.
LEMMA WorksOnly ==
    ASSUME Base, NEW t \in Tasks, NEW K, Works(t, K)
    PROVE  OnlyTask(t) /\ group' = group /\ home' = home /\ route' = route
<1>1. PICK next : Acts(t, K, next)
  BY DEF Works
<1>2. UNCHANGED <<now, registryVars, group, home>> /\ UNCHANGED worldVars
  BY <1>1 DEF Acts, Works
<1> QED BY <1>1, <1>2, ActsOnly DEF worldVars

\* Every workflow moves its own task alone and leaves the routes alone.
LEMMA WorkflowOnly ==
    ASSUME Base, NEW t \in Callers, Workflow(t)
    PROVE  OnlyTask(t) /\ group' = group /\ home' = home /\ route' = route
<1>0. t \in Tasks
  BY CallersAside
<1>1. CASE \E K : Works(t, K)
  BY <1>0, <1>1, WorksOnly
<1>2. ASSUME NEW key \in Keys, BindGrantKey(t, key)
      PROVE  OnlyTask(t) /\ group' = group /\ home' = home /\ route' = route
  <2>1. /\ KeyMove(t, key)
        /\ \/ Return(t, FALSE)
           \/ Goto(t, "key_bound") /\ operation' = Held(t) /\ UNCHANGED gate
    BY <1>0, <1>2, BindGrantKeyMoves
  <2>2. group' = group /\ home' = home /\ route' = route
    BY <2>1 DEF KeyMove, worldVars
  <2> QED BY <1>0, <2>1, <2>2, OnlyTaskMoves
<1>3. CASE PublishRequest(t)
  <2>1. (\E k : Stays(t, k)) /\ UNCHANGED <<route, media>>
    BY <1>0, <1>3, PublishRequestStays
  <2> QED BY <1>0, <2>1, StaysOnly
<1>4. CASE CheckDuplicate(t) \/ StartWorkflow(t) \/ StartApproval(t)
  BY <1>0, <1>1, <1>4, CheckDuplicateWorks, StartWorkflowWorks, StartApprovalWorks
<1>5. ASSUME NEW intent \in Intents,
             CheckGrant(t, intent) \/ IntentSent(t, intent) \/ ConsentPublished(t, intent)
      PROVE  OnlyTask(t) /\ group' = group /\ home' = home /\ route' = route
  BY <1>0, <1>1, <1>5, CheckGrantWorks, IntentWorks
<1>6. CASE BackendVerified(t) \/ PortAnswered(t) \/ PortFailed(t) \/ PortTimeout(t)
  BY <1>0, <1>1, <1>6, BackendVerifiedWorks, PortAnsweredWorks, PortEndsWorks
<1>7. ASSUME NEW grant \in Grants, GrantObtained(t, grant)
      PROVE  OnlyTask(t) /\ group' = group /\ home' = home /\ route' = route
  BY <1>0, <1>1, <1>7, GrantObtainedWorks
<1>8. ASSUME NEW access \in Accesses, BindAccess(t, access)
      PROVE  OnlyTask(t) /\ group' = group /\ home' = home /\ route' = route
  BY <1>0, <1>1, <1>8, BindAccessWorks
<1> QED BY <1>2, <1>3, <1>4, <1>5, <1>6, <1>7, <1>8 DEF Workflow

\* So does every handler but the spawn.
LEMMA CallerOnly ==
    ASSUME Base, NEW t \in Callers,
           Call(t) \/ Handle(t) \/ DropCaller(t),
           ~\E o \in Owned : Spawn(t, o)
    PROVE  OnlyTask(t) /\ group' = group /\ home' = home /\ route' = route
<1>0. t \in Tasks
  BY CallersAside
<1>1. ASSUME NEW k, Strolls(t, k), route' = route
      PROVE  OnlyTask(t) /\ group' = group /\ home' = home /\ route' = route
  BY <1>0, <1>1, StrollsOnly
<1>2. ASSUME NEW decision \in {"approved", "denied"}, Decide(t, decision)
      PROVE  OnlyTask(t) /\ group' = group /\ home' = home /\ route' = route
  BY <1>1, <1>2, DecideStrolls
<1>3. ASSUME NEW ok \in BOOLEAN, Authorize(t, ok)
      PROVE  OnlyTask(t) /\ group' = group /\ home' = home /\ route' = route
  BY <1>1, <1>3, AuthorizeStrolls DEF worldVars
<1>4. CASE StartSweep(t)
  BY <1>1, <1>4, StartSweepStrolls DEF worldVars
<1>5. ASSUME NEW p \in task[t].todo, SweepEntry(t, p)
      PROVE  OnlyTask(t) /\ group' = group /\ home' = home /\ route' = route
  BY <1>1, <1>5, SweepEntryStrolls DEF worldVars
<1>6. CASE EndSweep(t) \/ DropCaller(t)
  BY <1>1, <1>6, StopCallerStrolls DEF worldVars
<1>7. CASE SpawnCheck(t)
  BY <1>1, <1>7, SpawnCheckStrolls DEF worldVars
<1>8. CASE SpawnRefused(t)
  BY <1>1, <1>8, SpawnRefusedStrolls DEF worldVars
<1>9. ASSUME NEW op \in {"start", "intent"}, NEW i \in Ids, NEW d \in Deadlines,
             NEW r \in Requests, Begin(t, op, i, d, r)
      PROVE  OnlyTask(t) /\ group' = group /\ home' = home /\ route' = route
  <2>1. \E k : task' = [task EXCEPT ![t] = k]
    BY <1>9, BeginCases
  <2>2. group' = group /\ home' = home /\ route' = route
    BY <1>9 DEF Begin, worldVars
  <2> QED BY <1>0, <2>1, <2>2, OnlyTaskMoves
<1>10. ASSUME NEW op \in CallerOps, NEW i \in Ids, Invoke(t, op, i)
       PROVE  OnlyTask(t) /\ group' = group /\ home' = home /\ route' = route
  <2>1. route' = route
    BY <1>10 DEF Invoke, worldVars
  <2> QED BY <1>1, <1>10, <2>1, InvokeStrolls
<1> QED BY <1>2, <1>3, <1>4, <1>5, <1>6, <1>7, <1>8, <1>9, <1>10 DEF Call, Handle

\* A spawn makes one idle owned task claim.
LEMMA SpawnParts ==
    ASSUME Base, NEW t \in Callers, NEW o \in Owned, Spawn(t, o)
    PROVE  Parts
<1>0. t \in Tasks /\ o \in Tasks /\ t # o /\ t \notin Owned
  BY CallersAside, OwnedAreTasks
<1>1. PICK k \in TaskRecord :
             /\ k.pc = "spawned" /\ k.op = "claim" /\ k.id = task[t].id /\ k.arg = None
             /\ k.ent = NoEntry
             /\ task' = [task EXCEPT ![t] = Idle, ![o] = k]
             /\ home' = [home EXCEPT ![o] = task[t].ent]
             /\ group' = [group EXCEPT ![task[t].ent].handles =
                            {h \in @ : ~Finished(h)} \cup {o}]
             /\ task[t].pc = "spawn" /\ task[o].pc \in {"idle", "finished"}
             /\ task[t].ent \in Allocated /\ idOf[task[t].ent] = task[t].id
             /\ task[t].id \in Ids
             /\ ~group[task[t].ent].closed
             /\ UNCHANGED <<now, registryVars, state, operation, cleanup, gate, worldVars>>
  BY SpawnCases
<1>2. task'[o] = k /\ \A p \in Owned : p # o => task'[p] = task[p]
  BY <1>0, <1>1, OwnedAreTasks DEF Base, Types
<1>3. \A p \in Owned : OwnedStep(p)
  <2>1. k.arg # TRUE
    BY <1>1, PayloadAssumption
  <2> QED BY <1>1, <1>2, <2>1 DEF OwnedStep
<1>4. \A p \in Owned : home'[p] = home[p] \/ task'[p].op = "claim"
  BY <1>1, <1>2 DEF Base, Types
<1>5. RouteStep
  BY <1>1 DEF RouteStep, worldVars
<1>6. GroupStep
  <2>1. \A e \in Entries : group'[e].closed = group[e].closed
    <3>1. PICK hs : hs = {h \in group[task[t].ent].handles : ~Finished(h)} \cup {o}
      OBVIOUS
    <3>2. group' = [group EXCEPT ![task[t].ent].handles = hs]
      BY <1>1, <3>1
    <3> QED BY <3>2 DEF Base, Types, GroupRecord
  <2> QED BY <2>1 DEF GroupStep
<1> QED BY <1>2, <1>3, <1>4, <1>5, <1>6 DEF Parts

\* An operation that returns is one of the steps an owned task may take.
LEMMA ResumedStep ==
    ASSUME Base, NEW o \in Owned, NEW ok \in BOOLEAN, task'[o] = Resumed(o, ok),
           task[o].pc # "committed",
           task[o].op = "commit" /\ ok => task[o].pc \in {"install", "finalizing"}
    PROVE  OwnedStep(o)
<1>1. PICK n : n = Resumed(o, ok)
  OBVIOUS
<1>2. \/ n.op \in {"none", "stream"} /\ n.pc # "install"
      \/ /\ task[o].op \in {"negotiate", "commit"} /\ n.op = task[o].op
         /\ n.id = task[o].id /\ n.arg = task[o].arg
         /\ n.pc \in {"peer", "committed", "failed"}
         /\ n.pc = "committed" => task[o].op = "commit" /\ ok
  BY <1>1, ResumedOwned
<1>3. task'[o] = n
  BY <1>1
<1>4. CASE n.op \in {"none", "stream"} /\ n.pc # "install"
  BY <1>3, <1>4 DEF OwnedStep
<1>5. CASE /\ task[o].op = "negotiate" /\ n.op = task[o].op
           /\ n.id = task[o].id /\ n.arg = task[o].arg
           /\ n.pc \in {"peer", "committed", "failed"}
  BY <1>3, <1>5 DEF OwnedStep
<1>6. CASE /\ task[o].op = "commit" /\ n.op = task[o].op
           /\ n.id = task[o].id /\ n.arg = task[o].arg
           /\ n.pc \in {"peer", "committed", "failed"}
           /\ n.pc = "committed" => ok
  <2>1. CommitMove(o)
    BY <1>3, <1>6 DEF CommitMove
  <2> QED BY <1>3, <1>6, <2>1 DEF OwnedStep
<1> QED BY <1>2, <1>4, <1>5, <1>6

\* An operation run by an owned task.
LEMMA OperateOwnedParts ==
    ASSUME Base, NEW o \in Owned, Operate(o)
    PROVE  Parts
<1>0. o \in Tasks /\ task[o].op \in OwnedOps
  BY OwnedAreTasks DEF Base, Places, OwnedOK
<1>1. CASE Lookup(o)
  <2>1. /\ task[o].pc \in {"lookup", "gate"} /\ route' = route
        /\ \/ Strolls(o, Resumed(o, FALSE))
           \/ \E k : /\ Strolls(o, k)
                     /\ k.pc \in {"lock", "spawn_check"} /\ k.op = task[o].op
                     /\ k.id = task[o].id /\ k.arg = task[o].arg
    BY <1>0, <1>1, LookupStrolls DEF worldVars
  <2>2. CASE Strolls(o, Resumed(o, FALSE))
    <3>1. /\ OnlyTask(o) /\ task'[o] = Resumed(o, FALSE) /\ group' = group /\ home' = home
      BY <1>0, <2>2, StrollsOnly
    <3>2. OwnedStep(o)
      BY <2>1, <3>1, ResumedOwned, ZenonT(60) DEF OwnedStep, CommitMove
    <3> QED BY <2>1, <3>1, <3>2, OwnedParts DEF RouteStep
  <2>3. ASSUME NEW k, Strolls(o, k), k.pc \in {"lock", "spawn_check"}, k.op = task[o].op,
               k.id = task[o].id, k.arg = task[o].arg
        PROVE  Parts
    <3>1. /\ OnlyTask(o) /\ task'[o] = k /\ group' = group /\ home' = home
      BY <1>0, <2>3, StrollsOnly
    <3>2. OwnedStep(o)
      BY <1>0, <2>1, <2>3, <3>1 DEF OwnedStep, CommitMove, OwnedOps
    <3> QED BY <2>1, <3>1, <3>2, OwnedParts DEF RouteStep
  <2> QED BY <2>1, <2>2, <2>3
<1>2. CASE ApplyOperation(o)
  <2>1. Works(o, Plain) /\ task[o].op # "commit"
    BY <1>0, <1>2, ApplyOperationWorks DEF ApplyOperation, SweepOps
  <2>2. PICK next : NextOK(o, next) /\ Acts(o, Plain, next)
    BY <2>1 DEF Works
  <2>3. /\ OnlyTask(o) /\ group' = group /\ home' = home /\ route' = route
    BY <1>0, <2>1, WorksOnly
  <2>4. \/ \E ok \in BOOLEAN : task'[o] = Resumed(o, ok)
        \/ /\ task'[o].op = task[o].op /\ task'[o].id = task[o].id
           /\ task'[o].arg = task[o].arg
           /\ task'[o].pc = "finalizing" \/ (next # "return" /\ task'[o].pc = next)
    BY <1>0, <2>2, ActsOnly
  <2>5. next # "install"
    BY <2>2 DEF NextOK, Ports
  <2>7. task[o].pc # "committed"
    BY <1>2 DEF ApplyOperation, Ready
  <2>6. OwnedStep(o)
    <3>1. CASE \E ok \in BOOLEAN : task'[o] = Resumed(o, ok)
      BY <2>1, <2>7, <3>1, ResumedStep
    <3>2. CASE /\ task'[o].op = task[o].op /\ task'[o].id = task[o].id
               /\ task'[o].arg = task[o].arg /\ task'[o].pc # "install"
      BY <1>0, <2>1, <3>2 DEF OwnedStep, OwnedOps
    <3> QED BY <2>4, <2>5, <3>1, <3>2
  <2> QED BY <2>3, <2>6, OwnedParts DEF RouteStep
<1>3. CASE Finalized(o)
  <2>1. /\ task[o].pc = "finalizing" /\ route' = route
        /\ \/ \E ok \in BOOLEAN : Strolls(o, Resumed(o, ok))
           \/ \E k : Stays(o, k) /\ k.pc \in {"send_intent", "publish", "bind_access"}
                                 /\ k.arg = task[o].arg
    BY <1>0, <1>3, FinalizedCases DEF worldVars
  <2>2. ASSUME NEW ok \in BOOLEAN, Strolls(o, Resumed(o, ok))
        PROVE  Parts
    <3>1. /\ OnlyTask(o) /\ task'[o] = Resumed(o, ok) /\ group' = group /\ home' = home
      BY <1>0, <2>2, StrollsOnly
    <3>2. OwnedStep(o)
      BY <2>1, <3>1, ResumedStep
    <3> QED BY <2>1, <3>1, <3>2, OwnedParts DEF RouteStep
  <2>3. ASSUME NEW k, Stays(o, k), k.pc \in {"send_intent", "publish", "bind_access"},
               k.arg = task[o].arg
        PROVE  Parts
    <3>1. /\ OnlyTask(o) /\ task'[o] = k /\ group' = group /\ home' = home
      BY <1>0, <2>3, StaysOnly
    <3>2. k.op = task[o].op /\ k.id = task[o].id
      BY <2>3 DEF Stays
    <3>3. OwnedStep(o)
      BY <1>0, <2>1, <2>3, <3>1, <3>2 DEF OwnedStep, CommitMove, OwnedOps
    <3> QED BY <2>1, <3>1, <3>3, OwnedParts DEF RouteStep
  <2> QED BY <2>1, <2>2, <2>3
<1> QED BY <1>1, <1>2, <1>3 DEF Operate

\* The fields of an owned task that goes on.
LEMMA ThenFields ==
    ASSUME Base, NEW o \in Owned, NEW op \in OwnedOps, NEW pc \in {"lookup", "gate", "failed"}
    PROVE  LET k == Then(o, op, pc) IN
           k.pc = pc /\ k.op = op /\ k.id = task[o].id /\ k.arg = task[o].arg
<1>1. op \in Ops /\ pc \in Pcs /\ o \in Tasks
  BY OwnedAreTasks DEF Ops, InnerOps, Pcs, OwnedOps
<1> QED BY <1>1, ThenRecord DEF Base

\* The lease is won only where no other task of the id holds it.
LEMMA ClaimParts ==
    ASSUME Base, NEW o \in Owned, NEW ok \in BOOLEAN, Claim(o, ok)
    PROVE  Parts
<1>0. o \in Tasks /\ task[o].pc = "spawned"
  BY OwnedAreTasks DEF Claim
<1>1. task[o].op = "claim"
  BY <1>0, OwnedFacts DEF OwnedOK, Paired
<1>2. group' = group /\ home' = home /\ route' = route
  BY DEF Claim, worldVars
<1>3. CASE ok
  <2>1. task' = [task EXCEPT ![o] = Then(o, "negotiate", "lookup")]
    BY <1>3 DEF Claim
  <2>2. \A p \in Owned \ {o} : ~(HoldsLease(p) /\ task[p].id = task[o].id)
    BY <1>3 DEF Claim
  <2>3. PICK k : k = Then(o, "negotiate", "lookup")
    OBVIOUS
  <2>4. k.pc = "lookup" /\ k.op = "negotiate" /\ k.id = task[o].id /\ k.arg = task[o].arg
    BY <2>3, ThenFields DEF OwnedOps
  <2>5. OnlyTask(o) /\ task'[o] = k
    BY <1>0, <2>1, <2>3, OnlyTaskMoves
  <2>6. OwnedStep(o)
    BY <1>1, <2>2, <2>4, <2>5 DEF OwnedStep
  <2> QED BY <1>2, <2>5, <2>6, OwnedParts DEF RouteStep
<1>4. CASE ~ok
  <2>1. task' = [task EXCEPT ![o] = Then(o, "claim", "failed")]
    BY <1>4 DEF Claim
  <2>3. PICK k : k = Then(o, "claim", "failed")
    OBVIOUS
  <2>4. k.pc = "failed" /\ k.op = "claim" /\ k.id = task[o].id /\ k.arg = task[o].arg
    BY <2>3, ThenFields DEF OwnedOps
  <2>5. OnlyTask(o) /\ task'[o] = k
    BY <1>0, <2>1, <2>3, OnlyTaskMoves
  <2>6. OwnedStep(o)
    BY <1>1, <2>4, <2>5 DEF OwnedStep
  <2> QED BY <1>2, <2>5, <2>6, OwnedParts DEF RouteStep
<1> QED BY <1>3, <1>4

\* The negotiation goes on to the commit, or fails.
LEMMA PeerParts ==
    ASSUME Base, NEW o \in Owned, PeerNegotiated(o) \/ PeerFailed(o)
    PROVE  Parts
<1>0. o \in Tasks /\ task[o].pc = "peer" /\ group' = group /\ home' = home /\ route' = route
  BY OwnedAreTasks DEF PeerNegotiated, PeerFailed, worldVars
<1>1. task[o].op = "negotiate"
  BY <1>0, OwnedFacts DEF OwnedOK, Paired
<1>2. CASE PeerNegotiated(o)
  <2>1. PICK k : k = Then(o, "commit", "gate")
    OBVIOUS
  <2>2. k.pc = "gate" /\ k.op = "commit" /\ k.id = task[o].id /\ k.arg = task[o].arg
    BY <2>1, ThenFields DEF OwnedOps
  <2>3. OnlyTask(o) /\ task'[o] = k
    BY <1>0, <1>2, <2>1, OnlyTaskMoves DEF PeerNegotiated
  <2>4. OwnedStep(o)
    BY <1>1, <2>2, <2>3 DEF OwnedStep
  <2> QED BY <1>0, <2>3, <2>4, OwnedParts DEF RouteStep
<1>3. CASE PeerFailed(o)
  <2>1. Goto(o, "failed")
    BY <1>3 DEF PeerFailed
  <2>2. /\ OnlyTask(o) /\ task'[o].pc = "failed" /\ task'[o].op = task[o].op
        /\ task'[o].id = task[o].id /\ task'[o].arg = task[o].arg
    BY <1>0, <2>1, OnlyTaskMoves
  <2>3. OwnedStep(o)
    BY <1>1, <2>2 DEF OwnedStep
  <2> QED BY <1>0, <2>2, <2>3, OwnedParts DEF RouteStep
<1> QED BY <1>2, <1>3

\* The first check of a commit.
LEMMA CommitCheckParts ==
    ASSUME Base, NEW o \in Owned, CommitCheck(o)
    PROVE  Parts
<1>0. o \in Tasks
  BY OwnedAreTasks
<1>1. /\ UNCHANGED worldVars /\ task[o].op = "commit" /\ task[o].pc = "lock"
      /\ \/ Return(o, FALSE) /\ Strolls(o, Resumed(o, FALSE))
         \/ /\ \E k : Stays(o, k) /\ k.pc = "install" /\ k.arg = TRUE
            /\ task[o].ent = home[o] /\ state[home[o]].phase = "Negotiating"
  BY CommitCheckCases
<1>2. route' = route
  BY <1>1 DEF worldVars
<1>3. CASE Strolls(o, Resumed(o, FALSE))
  <2>1. OnlyTask(o) /\ task'[o] = Resumed(o, FALSE) /\ group' = group /\ home' = home
    BY <1>0, <1>3, StrollsOnly
  <2>2. OwnedStep(o)
    BY <1>1, <2>1, ResumedStep
  <2> QED BY <1>2, <2>1, <2>2, OwnedParts DEF RouteStep
<1>4. ASSUME NEW k, Stays(o, k), k.pc = "install", k.arg = TRUE,
             task[o].ent = home[o], state[home[o]].phase = "Negotiating"
      PROVE  Parts
  <2>1. OnlyTask(o) /\ task'[o] = k /\ group' = group /\ home' = home
    BY <1>0, <1>4, StaysOnly
  <2>2. k.op = task[o].op /\ k.id = task[o].id /\ k.ent = task[o].ent /\ state' = state
    BY <1>4 DEF Stays
  <2>3. CommitMove(o)
    BY <1>1, <1>4, <2>1, <2>2 DEF CommitMove
  <2>4. OwnedStep(o)
    BY <1>1, <2>1, <2>2, <2>3 DEF OwnedStep
  <2> QED BY <1>2, <2>1, <2>4, OwnedParts DEF RouteStep
<1> QED BY <1>1, <1>3, <1>4

\* The end of an installation.
LEMMA InstallParts ==
    ASSUME Base, NEW o \in Owned,
           \/ \E proof \in RouteProofs : Installed(o, proof)
           \/ InstallFailed(o)
    PROVE  Parts
<1>0. o \in Tasks
  BY OwnedAreTasks
<1>1. /\ task[o].pc = "install" /\ task[o].op = "commit"
      /\ Acts(o, {"RelayVerified", "Failed"}, "return")
      /\ route' = route \/ route' = [route EXCEPT ![task[o].id] = TRUE]
  BY InstallActs
<1>2. /\ OnlyTask(o)
      /\ \/ \E ok \in BOOLEAN : task'[o] = Resumed(o, ok)
         \/ /\ task'[o].op = task[o].op /\ task'[o].id = task[o].id
            /\ task'[o].arg = task[o].arg /\ task'[o].ent = task[o].ent
            /\ task'[o].pc = "finalizing"
  BY <1>0, <1>1, ActsOnly
<1>3. group' = group /\ home' = home
  BY <1>1 DEF Acts
<1>4. RouteStep
  BY <1>1 DEF RouteStep, Base, Types, WorldTypes
<1>5. OwnedStep(o)
  <2>1. CASE \E ok \in BOOLEAN : task'[o] = Resumed(o, ok)
    BY <1>1, <2>1, ResumedStep
  <2>2. CASE /\ task'[o].op = task[o].op /\ task'[o].id = task[o].id
             /\ task'[o].arg = task[o].arg /\ task'[o].pc = "finalizing"
    BY <1>1, <2>2 DEF OwnedStep, CommitMove
  <2> QED BY <1>2, <2>1, <2>2
<1> QED BY <1>2, <1>3, <1>4, <1>5, OwnedParts

\* The fence after a commit.
LEMMA CommittedParts ==
    ASSUME Base, NEW o \in Owned, Committed(o)
    PROVE  Parts
<1>0. o \in Tasks /\ task[o].pc = "committed" /\ group' = group /\ home' = home /\ route' = route
  BY OwnedAreTasks DEF Committed, worldVars
<1>1. task[o].op = "commit"
  BY <1>0, OwnedFacts DEF OwnedOK, Paired
<1>2. CASE Cancelled(o)
  <2>1. PICK k : k = Then(o, "commit", "failed")
    OBVIOUS
  <2>2. k.pc = "failed" /\ k.op = "commit" /\ k.id = task[o].id /\ k.arg = task[o].arg
    BY <2>1, ThenFields DEF OwnedOps
  <2>3. OnlyTask(o) /\ task'[o] = k
    BY <1>0, <1>2, <2>1, OnlyTaskMoves DEF Committed
  <2>4. CommitMove(o)
    BY <1>2, <2>2, <2>3 DEF CommitMove
  <2>5. OwnedStep(o)
    BY <1>1, <2>2, <2>3, <2>4 DEF OwnedStep
  <2> QED BY <1>0, <2>3, <2>5, OwnedParts DEF RouteStep
<1>3. CASE ~Cancelled(o)
  <2>1. PICK k : k = Then(o, "stream", "gate")
    OBVIOUS
  <2>2. k.pc = "gate" /\ k.op = "stream"
    BY <2>1, ThenFields DEF OwnedOps
  <2>3. OnlyTask(o) /\ task'[o] = k
    BY <1>0, <1>3, <2>1, OnlyTaskMoves DEF Committed
  <2>4. OwnedStep(o)
    BY <2>2, <2>3 DEF OwnedStep
  <2> QED BY <1>0, <2>3, <2>4, OwnedParts DEF RouteStep
<1> QED BY <1>2, <1>3

\* The media's steps are past the commit.
LEMMA MediaParts ==
    ASSUME Base, NEW o \in Owned,
           \/ MediaCheck(o)
           \/ \E ok \in BOOLEAN : MediaStart(o, ok) \/ MediaReady(o, ok) \/ Activated(o, ok)
    PROVE  Parts
<1>0. o \in Tasks
  BY OwnedAreTasks
<1>1. group' = group /\ home' = home /\ route' = route
  BY DEF MediaCheck, MediaStart, MediaReady, Activated, worldVars
<1>2. task[o].op = "stream"
  <2>1. task[o].op = "stream" \/ task[o].pc \in {"media_start", "media_wait", "activated"}
    BY DEF MediaCheck, MediaStart, MediaReady, Activated
  <2> QED BY <2>1, OwnedFacts DEF OwnedOK, Paired
<1>3. CASE \E pc \in {"media_start", "failed", "media_wait", "lookup"} : Goto(o, pc)
  <2>1. PICK pc \in {"media_start", "failed", "media_wait", "lookup"} : Goto(o, pc)
    BY <1>3
  <2>2. OnlyTask(o) /\ task'[o].pc = pc /\ task'[o].op = task[o].op
    BY <1>0, <2>1, OnlyTaskMoves
  <2>3. OwnedStep(o)
    BY <1>2, <2>2 DEF OwnedStep
  <2> QED BY <1>1, <2>2, <2>3, OwnedParts DEF RouteStep
<1>4. CASE task' = [task EXCEPT ![o] = Ended]
  <2>1. OnlyTask(o) /\ task'[o] = Ended
    BY <1>0, <1>4, OnlyTaskMoves
  <2>2. OwnedStep(o)
    BY <2>1, IdleRecord DEF OwnedStep
  <2> QED BY <1>1, <2>1, <2>2, OwnedParts DEF RouteStep
<1> QED BY <1>3, <1>4 DEF MediaCheck, MediaStart, MediaReady, Activated

\* The rollback takes the route of its own id alone.
LEMMA RecoverParts ==
    ASSUME Base, NEW o \in Owned, Recover(o)
    PROVE  Parts
<1>0. o \in Tasks
  BY OwnedAreTasks
<1>1. PICK k : Strolls(o, k) /\ (k = Ended \/ k = Then(o, "owned_fail", "gate"))
  BY RecoverStrolls
<1>2. /\ task[o].pc = "failed" /\ UNCHANGED <<registryVars, state>>
      /\ \/ UNCHANGED route
         \/ /\ task[o].op = "commit" /\ task[o].arg = TRUE
            /\ route' = [route EXCEPT ![task[o].id] = FALSE]
  BY DEF Recover
<1>3. OnlyTask(o) /\ task'[o] = k /\ group' = group /\ home' = home
  BY <1>0, <1>1, StrollsOnly
<1>4. k.op \in {"none", "owned_fail"} /\ k.pc # "install"
  BY <1>1, IdleRecord, ThenFields DEF OwnedOps
<1>5. OwnedStep(o)
  BY <1>3, <1>4 DEF OwnedStep
<1>6. RouteStep
  <2>1. CASE UNCHANGED route
    BY <2>1 DEF RouteStep
  <2>2. CASE /\ task[o].op = "commit" /\ task[o].arg = TRUE
             /\ route' = [route EXCEPT ![task[o].id] = FALSE]
    <3>1. \A i \in Ids : i # task[o].id => route'[i] = route[i]
      BY <2>2 DEF Base, Types, WorldTypes
    <3> QED BY <1>2, <2>2, <3>1 DEF RouteStep
  <2> QED BY <1>2, <2>1, <2>2
<1> QED BY <1>3, <1>5, <1>6, OwnedParts

\* A cancellation never takes a committed task to its error path.
LEMMA InterruptParts ==
    ASSUME Base, NEW o \in Owned, Interrupt(o)
    PROVE  Parts
<1>0. o \in Tasks
  BY OwnedAreTasks
<1>1. /\ UNCHANGED worldVars
      /\ task[o].op \in {"negotiate", "commit", "stream", "owned_fail"}
      /\ task[o].op = "commit" => task[o].pc \notin {"committed", "failed", "finished"}
      /\ \/ task[o].op # "commit" /\ Strolls(o, Ended)
         \/ Strolls(o, Then(o, task[o].op, "failed"))
  BY InterruptStrolls
<1>2. route' = route
  BY <1>1 DEF worldVars
<1>3. CASE Strolls(o, Ended)
  <2>1. OnlyTask(o) /\ task'[o] = Ended /\ group' = group /\ home' = home
    BY <1>0, <1>3, StrollsOnly
  <2>2. OwnedStep(o)
    BY <2>1, IdleRecord DEF OwnedStep
  <2> QED BY <1>2, <2>1, <2>2, OwnedParts DEF RouteStep
<1>4. CASE Strolls(o, Then(o, task[o].op, "failed"))
  <2>1. PICK k : k = Then(o, task[o].op, "failed")
    OBVIOUS
  <2>2. OnlyTask(o) /\ task'[o] = k /\ group' = group /\ home' = home
    BY <1>0, <1>4, <2>1, StrollsOnly
  <2>3. k.pc = "failed" /\ k.op = task[o].op /\ k.id = task[o].id /\ k.arg = task[o].arg
    BY <1>1, <2>1, ThenFields DEF OwnedOps
  <2>4. task[o].op = "commit" => CommitMove(o)
    BY <1>1, <2>2, <2>3 DEF CommitMove
  <2>5. OwnedStep(o)
    BY <1>1, <2>2, <2>3, <2>4 DEF OwnedStep
  <2> QED BY <1>2, <2>2, <2>5, OwnedParts DEF RouteStep
<1> QED BY <1>1, <1>3, <1>4

\* Every step of an owned task.
LEMMA RunOwnedParts ==
    ASSUME Base, NEW o \in Owned, RunOwned(o)
    PROVE  Parts
<1>1. Cancel(o) \/ NegotiationTimeout(o) => Interrupt(o)
  BY DEF Cancel, NegotiationTimeout
<1> QED BY <1>1, ClaimParts, PeerParts, CommitCheckParts, InstallParts, CommittedParts,
           MediaParts, RecoverParts, InterruptParts DEF RunOwned

\* Every step of a cleanup.
LEMMA CleanupParts ==
    ASSUME Base, NEW e \in Entries, Cleanup(e)
    PROVE  Parts
<1>1. CASE CloseGroup(e)
  <2>1. /\ Tears(e) /\ cleanup[e].stage = "spawned"
        /\ group' = [group EXCEPT ![e] = [closed |-> TRUE, handles |-> {}]]
        /\ task' = task /\ home' = home /\ UNCHANGED worldVars
    BY <1>1, CloseGroupTears DEF CloseGroup
  <2>2. cleanup'[e].stage = "stop_media"
    BY <1>1 DEF CloseGroup, Base, Types, CleanupRecord
  <2>3. GroupStep
    <3>1. \A f \in Entries : f # e => group'[f] = group[f]
      BY <2>1 DEF Base, Types
    <3> QED BY <2>2, <3>1 DEF GroupStep
  <2>4. \A o \in Owned : OwnedStep(o)
    BY <2>1 DEF OwnedStep
  <2> QED BY <2>1, <2>3, <2>4 DEF Parts, RouteStep, worldVars
<1>2. ASSUME NEW ok \in BOOLEAN, CleanupStep(e, ok)
      PROVE  Parts
  <2>1. /\ cleanup[e].stage \in CleanupSteps
        /\ route' = route \/ route' = [route EXCEPT ![idOf[e]] = FALSE]
        /\ task' = task /\ group' = group /\ home' = home
        /\ UNCHANGED <<registryVars, state>>
    BY <1>2 DEF CleanupStep
  <2>2. \A i \in Ids : i # idOf[e] => route'[i] = route[i]
    BY <2>1 DEF Base, Types, WorldTypes
  <2>3. RouteStep
    BY <2>1, <2>2 DEF RouteStep
  <2>4. \A o \in Owned : OwnedStep(o)
    BY <2>1 DEF OwnedStep
  <2> QED BY <2>1, <2>3, <2>4 DEF Parts, GroupStep
<1>3. ASSUME task' = task, group' = group, home' = home, UNCHANGED worldVars
      PROVE  Parts
  <2>1. \A o \in Owned : OwnedStep(o)
    BY <1>3 DEF OwnedStep
  <2> QED BY <1>3, <2>1 DEF Parts, RouteStep, GroupStep, worldVars
<1>4. ASSUME NEW o \in Owned, JoinTask(e, o) PROVE Parts
  BY <1>3, <1>4 DEF JoinTask
<1>5. ASSUME NEW o \in Owned, AbortTask(e, o) PROVE Parts
  <2>1. /\ task' = [task EXCEPT ![o] = Ended] /\ group' = group /\ home' = home
        /\ route' = route
    BY <1>5 DEF AbortTask, worldVars
  <2>2. OnlyTask(o) /\ task'[o] = Ended
    BY <2>1, OwnedAreTasks, OnlyTaskMoves
  <2>3. OwnedStep(o)
    BY <2>2, IdleRecord DEF OwnedStep
  <2> QED BY <2>1, <2>2, <2>3, OwnedParts DEF RouteStep
<1>6. CASE Retire(e)
  BY <1>3, <1>6 DEF Retire
<1> QED BY <1>1, <1>2, <1>4, <1>5, <1>6 DEF Cleanup

\* Every step is one of these for every owned task, route and group.
LEMMA NextParts == Base /\ [Next]_vars => Parts
<1> SUFFICES ASSUME Base, [Next]_vars PROVE Parts
  OBVIOUS
<1>1. ASSUME NEW t \in Callers, Operate(t) PROVE Parts
  <2>0. t \in Tasks
    BY CallersAside
  <2>1. CASE Lookup(t)
    <3>1. route' = route /\ \E k : Strolls(t, k)
      BY <2>0, <2>1, LookupStrolls DEF worldVars
    <3> QED BY <2>0, <3>1, StrollsOnly, CallerParts
  <2>2. CASE ApplyOperation(t)
    BY <2>0, <2>2, ApplyOperationWorks, WorksOnly, CallerParts
  <2>3. CASE Finalized(t)
    <3>1. route' = route /\ ((\E k : Strolls(t, k)) \/ (\E k : Stays(t, k)))
      BY <2>0, <2>3, FinalizedCases DEF worldVars
    <3> QED BY <2>0, <3>1, StrollsOnly, StaysOnly, CallerParts
  <2> QED BY <1>1, <2>1, <2>2, <2>3 DEF Operate
<1>2. ASSUME NEW t \in Callers, Call(t) \/ Workflow(t) \/ Handle(t) \/ DropCaller(t)
      PROVE  Parts
  BY <1>2, CallerOnly, WorkflowOnly, SpawnParts, CallerParts
<1>3. ASSUME NEW o \in Owned, Operate(o) \/ RunOwned(o) PROVE Parts
  BY <1>3, OperateOwnedParts, RunOwnedParts
<1>4. ASSUME NEW e \in Entries, Cleanup(e) PROVE Parts
  BY <1>4, CleanupParts
<1>5. ASSUME task' = task, group' = group, home' = home, route' = route
      PROVE  Parts
  <2>1. \A o \in Owned : OwnedStep(o)
    BY <1>5 DEF OwnedStep
  <2> QED BY <1>5, <2>1 DEF Parts, RouteStep, GroupStep
<1>6. CASE Tick
  BY <1>5, <1>6 DEF Tick, worldVars
<1>7. CASE UNCHANGED vars
  BY <1>5, <1>7 DEF vars, worldVars
<1> QED BY <1>1, <1>2, <1>3, <1>4, <1>6, <1>7 DEF Next, Tasks
-----------------------------------------------------------------------------
(* The invariants behind the route: the group of an entry is closed by its *)
(* cleanup only, one task per id holds the ownership lease, and a task     *)
(* that may still roll back leaves no session of its id verified.          *)

GroupInv == \A e \in Entries : group[e].closed => cleanup[e].stage \notin {"none", "spawned"}

Leased(o) == task[o].op \in {"negotiate", "commit"}

LeaseInv == \A o, p \in Owned : Leased(o) /\ Leased(p) /\ task[o].id = task[p].id => o = p

VerifiedOf(i) == {e \in Allocated : idOf[e] = i /\ state[e].phase \in Verified}

CommitOK(o) ==
    LET k == task[o]
    IN  /\ k.op \in {"claim", "negotiate"} => k.arg # TRUE
        /\ k.pc = "install" => k.ent = home[o]
        /\ k.op = "commit" =>
             /\ k.pc \in {"install", "finalizing", "committed"} => k.arg = TRUE
             /\ k.arg = TRUE /\ k.pc # "committed" => VerifiedOf(k.id) = {}
             /\ k.pc = "committed" => VerifiedOf(k.id) \subseteq {home[o]}

CommitInv == \A o \in Owned : CommitOK(o)

\* A cleanup that has closed its group never goes back.
LEMMA GroupStepInv ==
    ASSUME Base, GroupInv, Stirs, GroupStep
    PROVE  GroupInv'
<1>1. ASSUME NEW e \in Entries, cleanup[e].stage \notin {"none", "spawned"}
      PROVE  cleanup'[e].stage \notin {"none", "spawned"}
  <2>1. CASE Still
    BY <1>1, <2>1 DEF Still
  <2>2. ASSUME NEW t \in Callers, NEW i \in Ids, NEW fresh \in Shape, Admits(t, i, fresh)
        PROVE  cleanup'[e].stage \notin {"none", "spawned"}
    BY <1>1, <2>2 DEF Admits
  <2>3. CASE AppliesSome
    <3>1. PICK t \in Tasks, f \in Allocated, kind \in EventKinds, failed \in BOOLEAN :
             \E arg \in Payloads(kind) : Applied(t, f, kind, arg, failed)
      BY <2>3 DEF AppliesSome
    <3>2. PICK arg \in Payloads(kind) : Applied(t, f, kind, arg, failed)
      BY <3>1
    <3>3. /\ \A g \in Entries : g # f => cleanup'[g] = cleanup[g]
          /\ cleanup[f].stage # "none" => cleanup' = cleanup
      BY <3>2, AppliedFacts
    <3> QED BY <1>1, <3>3
  <2>4. ASSUME NEW t \in Tasks, NEW key \in Keys, KeyMove(t, key)
        PROVE  cleanup'[e].stage \notin {"none", "spawned"}
    BY <1>1, <2>4 DEF KeyMove
  <2>5. ASSUME NEW f \in Entries, Tears(f)
        PROVE  cleanup'[e].stage \notin {"none", "spawned"}
    BY <1>1, <2>5 DEF Tears, Base, Types
  <2>6. ASSUME NEW f \in Entries, Retire(f)
        PROVE  cleanup'[e].stage \notin {"none", "spawned"}
    <3>1. PICK c \in CleanupRecord : cleanup' = [cleanup EXCEPT ![f] = c] /\ c.stage = "done"
      BY <2>6, RetireFacts
    <3> QED BY <1>1, <3>1 DEF Base, Types
  <2> QED BY <2>1, <2>2, <2>3, <2>4, <2>5, <2>6 DEF Stirs
<1> QED BY <1>1 DEF GroupInv, GroupStep

\* No step gives the lease of an id to a second task.
LEMMA LeaseStepInv ==
    ASSUME Base, LeaseInv, Parts
    PROVE  LeaseInv'
<1> SUFFICES ASSUME NEW o \in Owned, NEW p \in Owned, Leased(o)', Leased(p)',
                    task'[o].id = task'[p].id, o # p
             PROVE  FALSE
  BY DEF LeaseInv
<1>1. \A q \in Owned : Leased(q) => HoldsLease(q)
  BY DEF Leased, HoldsLease, Finished, Base, Places, OwnedOK, Paired
<1>2. ASSUME NEW a \in Owned, NEW b \in Owned, a # b, task'[b] = task[b],
             Leased(a)', Leased(b)', task'[a].id = task'[b].id
      PROVE  FALSE
  <2>1. OwnedStep(a)
    BY DEF Parts
  <2>2. Leased(b) /\ HoldsLease(b)
    BY <1>1, <1>2 DEF Leased
  <2>3. task'[a].op \in {"negotiate", "commit"}
    BY <1>2 DEF Leased
  <2>4. (Leased(a) /\ task'[a].id = task[a].id) \/ ~(HoldsLease(b) /\ task[b].id = task'[a].id)
    BY <1>2, <2>1, <2>3 DEF OwnedStep, Leased
  <2> QED BY <1>2, <2>2, <2>4 DEF LeaseInv
<1>3. task'[o] = task[o] \/ task'[p] = task[p]
  BY DEF Parts
<1> QED BY <1>2, <1>3

\* The session that becomes verified is the one its own task commits.
LEMMA FreshVerified ==
    ASSUME Base, Stirs, NEW e \in Allocated', state'[e].phase \in Verified
    PROVE  /\ e \in Allocated /\ idOf'[e] = idOf[e] /\ e \in Entries
           /\ \/ state[e].phase \in Verified
              \/ \E t \in Owned : /\ task[t].pc = "install" /\ task[t].op = "commit"
                                  /\ task[t].ent = e /\ task[t].id = idOf[e]
                                  /\ task'[t].pc = "committed"
                                  /\ route' = [route EXCEPT ![task[t].id] = TRUE]
<1>0. Allocated \subseteq Entries
  BY LiveFinite
<1>1. CASE Still
  BY <1>0, <1>1 DEF Still, registryVars, Allocated
<1>2. ASSUME NEW t \in Callers, NEW i \in Ids, NEW fresh \in Shape, Admits(t, i, fresh),
             fresh.phase = "Created"
      PROVE  e \in Allocated /\ idOf'[e] = idOf[e] /\ state[e].phase \in Verified
  <2>1. /\ used' = used + 1 /\ used + 1 \in Entries
        /\ state' = [state EXCEPT ![used + 1] = fresh]
        /\ idOf' = [idOf EXCEPT ![used + 1] = i]
    BY <1>2 DEF Admits
  <2>2. Allocated' = Allocated \cup {used + 1} /\ used + 1 \notin Allocated
    BY <2>1 DEF Allocated, Base, Types
  <2>3. state'[used + 1].phase \notin Verified
    BY <1>2, <2>1 DEF Verified, Base, Types
  <2>4. e \in Allocated /\ e # used + 1
    BY <2>2, <2>3
  <2> QED BY <1>0, <2>1, <2>4 DEF Base, Types
<1>3. CASE AppliesSome
  <2>1. PICK t \in Tasks, f \in Allocated, kind \in EventKinds, failed \in BOOLEAN :
           \E arg \in Payloads(kind) : Fit(t, f, kind) /\ Applied(t, f, kind, arg, failed)
    BY <1>3 DEF AppliesSome
  <2>2. PICK arg \in Payloads(kind) : Fit(t, f, kind) /\ Applied(t, f, kind, arg, failed)
    BY <2>1
  <2>3. /\ \A g \in Entries : g # f => state'[g] = state[g]
        /\ ApplyFacts(state[f], state'[f], kind, arg, now)
    BY <2>2, AppliedFacts
  <2>4. Allocated' = Allocated /\ idOf' = idOf
    BY <1>3 DEF AppliesSome, registryVars, Allocated
  <2>5. CASE state[e].phase \in Verified
    BY <1>0, <2>4, <2>5
  <2>6. CASE state[e].phase \notin Verified
    <3>1. e = f
      BY <1>0, <2>3, <2>4, <2>6
    <3>2. kind = "RelayVerified" /\ state'[f].phase = "RelayVerified"
      BY <2>3, <2>6, <3>1 DEF ApplyFacts, Verified
    <3>3. /\ t \in Owned /\ task[t].pc = "install" /\ f = task[t].ent
          /\ route' = [route EXCEPT ![task[t].id] = TRUE]
          /\ task'[t].pc = "committed"
      BY <2>2, <3>2 DEF Fit
    <3>4. task[t].op = "commit"
      BY <3>3, OwnedFacts DEF OwnedOK, Paired
    <3>5. task[t].id = idOf[f]
      BY <3>3 DEF Base, Places, PlaceOK, AtEntry
    <3> QED BY <1>0, <2>4, <3>1, <3>3, <3>4, <3>5
  <2> QED BY <2>5, <2>6
<1>4. ASSUME NEW t \in Tasks, NEW key \in Keys, KeyMove(t, key), task[t].ent \in Allocated
      PROVE  e \in Allocated /\ idOf'[e] = idOf[e] /\ state[e].phase \in Verified
  <2>1. Allocated' = Allocated /\ idOf' = idOf
    BY <1>4 DEF KeyMove, registryVars, Allocated
  <2>2. PICK s : s = BindKey(state[task[t].ent], key)
    OBVIOUS
  <2>3. s.phase = state[task[t].ent].phase
    BY <1>0, <1>4, <2>2, KeyState DEF Base, Types
  <2>4. state' = state \/ state' = [state EXCEPT ![task[t].ent] = s]
    BY <1>4, <2>2 DEF KeyMove
  <2> QED BY <1>0, <2>1, <2>3, <2>4 DEF Base, Types
<1>5. ASSUME NEW f \in Entries, Tears(f) \/ Retire(f)
      PROVE  e \in Allocated /\ idOf'[e] = idOf[e] /\ state[e].phase \in Verified
  <2>1. state' = state /\ used' = used /\ idOf' = idOf
    BY <1>5, RetireFacts DEF Tears, registryVars
  <2> QED BY <2>1 DEF Allocated
<1> QED BY <1>0, <1>1, <1>2, <1>3, <1>4, <1>5 DEF Stirs

\* Two sessions of one id are never both alive.
LEMMA OneAlive ==
    ASSUME Base, RegistryInv, TerminalIffCleanup,
           NEW e \in Allocated, NEW f \in Allocated, idOf[e] = idOf[f],
           cleanup[e].stage # "done", cleanup[f].stage # "done"
    PROVE  e = f
BY DEF RegistryInv, Live

\* A session that negotiates or streams is not being cleaned up.
LEMMA AliveStage ==
    ASSUME TerminalIffCleanup, NEW e \in Allocated,
           state[e].phase \in Verified \cup {"Negotiating"}
    PROVE  cleanup[e].stage = "none"
BY DEF TerminalIffCleanup, Terminal, TerminalPhases, Verified

\* For a task that commits, only its own step verifies a session of its id.
LEMMA VerifiedStep ==
    ASSUME Base, Stirs, LeaseInv, NEW o \in Owned, task[o].op = "commit",
           NEW e \in Allocated', idOf'[e] = task[o].id, state'[e].phase \in Verified
    PROVE  \/ e \in VerifiedOf(task[o].id)
           \/ task[o].pc = "install" /\ task'[o].pc = "committed" /\ e = task[o].ent
<1>1. /\ e \in Allocated /\ idOf[e] = task[o].id
      /\ \/ state[e].phase \in Verified
         \/ \E t \in Owned : /\ task[t].pc = "install" /\ task[t].op = "commit"
                             /\ task[t].ent = e /\ task[t].id = idOf[e]
                             /\ task'[t].pc = "committed"
  BY FreshVerified
<1>2. \A t \in Owned : task[t].op = "commit" /\ task[t].id = idOf[e] => t = o
  BY <1>1 DEF LeaseInv, Leased
<1> QED BY <1>1, <1>2 DEF VerifiedOf

\* No step leaves a session verified that a task may still roll back.
LEMMA CommitStepInv ==
    ASSUME Base, RegistryInv, TerminalIffCleanup, GroupInv, LeaseInv, CommitInv, Stirs, Parts
    PROVE  CommitInv'
<1> SUFFICES ASSUME NEW o \in Owned PROVE CommitOK(o)'
  BY DEF CommitInv
<1>0. /\ CommitOK(o) /\ OwnedStep(o) /\ (home'[o] = home[o] \/ task'[o].op = "claim")
  BY DEF CommitInv, Parts
<1>p. /\ task[o].pc = "install" => task[o].op = "commit"
      /\ task[o].pc = "install" => task[o].arg = TRUE /\ task[o].ent = home[o]
  BY <1>0 DEF Base, Places, OwnedOK, Paired, CommitOK
<1>1. CASE task'[o].op # "commit" /\ task'[o].pc # "install"
  BY <1>0, <1>1 DEF CommitOK, OwnedStep
<1>2. CASE task[o].op = "negotiate" /\ task'[o].op = "commit"
  <2>1. task'[o].arg = task[o].arg /\ task'[o].pc = "gate" /\ task[o].arg # TRUE
    BY <1>0, <1>2 DEF OwnedStep, CommitOK
  <2> QED BY <1>2, <2>1 DEF CommitOK
<1>3. CASE task[o].op = "commit" /\ task'[o].op = "commit"
  <2>1. task'[o].id = task[o].id /\ home'[o] = home[o]
    BY <1>0, <1>3 DEF OwnedStep
  <2>2. ASSUME NEW e \in VerifiedOf(task[o].id)'
        PROVE  \/ e \in VerifiedOf(task[o].id)
               \/ task[o].pc = "install" /\ task'[o].pc = "committed" /\ e = home[o]
    <3>1. e \in Allocated' /\ idOf'[e] = task'[o].id /\ state'[e].phase \in Verified
      BY <2>2 DEF VerifiedOf
    <3>2. idOf'[e] = task[o].id
      BY <2>1, <3>1
    <3> QED BY <1>3, <1>p, <3>1, <3>2, VerifiedStep
  <2>3. CASE task'[o] = task[o]
    BY <1>0, <1>3, <1>p, <2>1, <2>2, <2>3 DEF CommitOK
  <2>4. CASE /\ task'[o].arg = TRUE /\ task'[o].pc = "install" /\ task'[o].ent = home[o]
             /\ task[o].pc = "lock"
             /\ state[home[o]].phase = "Negotiating" /\ state' = state
    <3>1. home[o] \in Allocated /\ idOf[home[o]] = task[o].id
      BY <2>4, OwnedFacts
    <3>2. VerifiedOf(task[o].id) = {}
      <4> SUFFICES ASSUME NEW e \in VerifiedOf(task[o].id) PROVE FALSE
        OBVIOUS
      <4>1. e \in Allocated /\ idOf[e] = idOf[home[o]] /\ state[e].phase \in Verified
        BY <3>1 DEF VerifiedOf
      <4>2. cleanup[e].stage = "none" /\ cleanup[home[o]].stage = "none"
        BY <2>4, <3>1, <4>1, AliveStage
      <4>3. e = home[o]
        BY <3>1, <4>1, <4>2, OneAlive
      <4> QED BY <2>4, <4>1, <4>3 DEF Verified
    <3>3. VerifiedOf(task[o].id)' = {}
      BY <2>2, <2>4, <3>2
    <3> QED BY <1>3, <2>1, <2>4, <3>3 DEF CommitOK
  <2>5. CASE /\ task'[o].arg = task[o].arg /\ task'[o].pc # "install"
             /\ task'[o].pc \in {"finalizing", "committed"} =>
                  task[o].pc \in {"install", "finalizing"}
             /\ task[o].pc = "committed" => Cancelled(o)
    <3>1. task'[o].pc \in {"finalizing", "committed"} => task[o].arg = TRUE /\ task[o].pc # "committed"
      BY <1>0, <1>3, <2>5 DEF CommitOK
    <3>2. task[o].arg = TRUE => VerifiedOf(task[o].id) = {}
      <4>1. CASE task[o].pc # "committed"
        BY <1>0, <1>3, <4>1 DEF CommitOK
      <4>2. CASE task[o].pc = "committed"
        <5>1. VerifiedOf(task[o].id) \subseteq {home[o]}
          BY <1>0, <1>3, <4>2 DEF CommitOK
        <5>2. home[o] \in Allocated /\ home[o] \in Entries /\ group[home[o]].closed
          BY <2>5, <4>2, OwnedFacts DEF Cancelled
        <5>3. cleanup[home[o]].stage # "none"
          BY <5>2 DEF GroupInv
        <5>4. state[home[o]].phase \notin Verified
          BY <5>2, <5>3, AliveStage
        <5> QED BY <5>1, <5>4 DEF VerifiedOf
      <4> QED BY <4>1, <4>2
    <3>3. task'[o].arg = TRUE /\ task'[o].pc # "committed" => VerifiedOf(task[o].id)' = {}
      BY <2>2, <2>5, <3>2
    <3>4. task'[o].pc = "committed" => VerifiedOf(task[o].id)' \subseteq {home[o]}
      BY <2>2, <3>1, <3>2
    <3> QED BY <1>3, <2>1, <2>5, <3>1, <3>3, <3>4 DEF CommitOK
  <2> QED BY <1>0, <1>3, <2>3, <2>4, <2>5 DEF OwnedStep, CommitMove
<1>4. CASE task'[o] = task[o] /\ task[o].op # "commit"
  BY <1>0, <1>p, <1>4 DEF CommitOK
<1> QED BY <1>0, <1>1, <1>2, <1>3, <1>4 DEF OwnedStep, CommitMove

RouteInv == RegistryInv /\ TerminalIffCleanup /\ GroupInv /\ LeaseInv /\ CommitInv

\* The invariants behind the route hold in every reachable state.
LEMMA RouteInvariant == Spec => []RouteInv
<1>1. Init => GroupInv /\ LeaseInv /\ CommitInv
  <2> SUFFICES ASSUME Init PROVE GroupInv /\ LeaseInv /\ CommitInv
    OBVIOUS
  <2>1. \A o \in Owned : task[o] = Idle
    BY OwnedAreTasks DEF Init
  <2>2. Idle.op = "none" /\ Idle.pc = "idle"
    BY IdleRecord
  <2>3. \A e \in Entries : group[e].closed = FALSE
    BY DEF Init
  <2> QED BY <2>1, <2>2, <2>3 DEF GroupInv, LeaseInv, Leased, CommitInv, CommitOK
<1>2. /\ Base /\ RegistryInv /\ TerminalIffCleanup /\ GroupInv /\ LeaseInv /\ CommitInv
      /\ [Next]_vars
      => GroupInv' /\ LeaseInv' /\ CommitInv'
  <2>1. Parts => GroupStep
    BY DEF Parts
  <2> QED BY <2>1, NextStirs, NextParts, GroupStepInv, LeaseStepInv, CommitStepInv
<1> QED BY <1>1, <1>2, BaseInvariant, RegistryInvariant, TerminalIffCleanupInvariant, PTL
        DEF Spec, RouteInv

(* A session that claims a verified route, or media on it, has the route     *)
(* installed: no rollback of another task of its id and no cleanup of        *)
(* another entry of it takes the route away (commit_generation_zero against  *)
(* spawn_generation_zero's error path and run_cleanup).                      *)
THEOREM VerifiedRouteInvariant == Spec => []VerifiedRouteInstalled
<1>1. Init => VerifiedRouteInstalled
  <2> SUFFICES ASSUME Init PROVE VerifiedRouteInstalled
    OBVIOUS
  <2>1. Allocated = {}
    BY DEF Init, Allocated
  <2> QED BY <2>1 DEF VerifiedRouteInstalled
<1>2. ASSUME Base, RouteInv, VerifiedRouteInstalled, Stirs, Parts
      PROVE  VerifiedRouteInstalled'
  <2> SUFFICES ASSUME NEW e \in Allocated', state'[e].phase \in Verified
               PROVE  route'[idOf'[e]]
    BY DEF VerifiedRouteInstalled, Verified
  <2>1. /\ e \in Allocated /\ idOf'[e] = idOf[e] /\ idOf[e] \in Ids
        /\ \/ state[e].phase \in Verified
           \/ \E t \in Owned : /\ task[t].id = idOf[e]
                               /\ route' = [route EXCEPT ![task[t].id] = TRUE]
    BY <1>2, FreshVerified DEF Base, Places, EntriesOK
  <2>2. CASE \E t \in Owned : /\ task[t].id = idOf[e]
                              /\ route' = [route EXCEPT ![task[t].id] = TRUE]
    BY <1>2, <2>1, <2>2 DEF Base, Types, WorldTypes
  <2>3. CASE state[e].phase \in Verified
    <3>1. route[idOf[e]]
      BY <1>2, <2>1, <2>3 DEF VerifiedRouteInstalled, Verified
    <3>2. CASE \A i \in Ids : route[i] => route'[i]
      BY <2>1, <3>1, <3>2
    <3>3. ASSUME NEW o \in Owned,
                 task[o].pc = "failed", task[o].op = "commit", task[o].arg = TRUE,
                 \A i \in Ids : i # task[o].id => route'[i] = route[i]
          PROVE  route'[idOf[e]]
      <4>1. VerifiedOf(task[o].id) = {}
        BY <1>2, <3>3 DEF RouteInv, CommitInv, CommitOK
      <4>2. idOf[e] # task[o].id
        BY <2>1, <2>3, <4>1 DEF VerifiedOf
      <4> QED BY <2>1, <3>1, <3>3, <4>2
    <3>4. ASSUME NEW f \in Entries, cleanup[f].stage \in CleanupSteps,
                 \A i \in Ids : i # idOf[f] => route'[i] = route[i]
          PROVE  route'[idOf[e]]
      <4>1. cleanup[f].stage \notin {"none", "done"}
        BY <3>4 DEF CleanupSteps
      <4>2. f \in Allocated
        BY <1>2, <4>1, BusyCleanup
      <4>3. cleanup[e].stage = "none"
        BY <1>2, <2>1, <2>3, AliveStage DEF RouteInv
      <4>4. idOf[e] # idOf[f]
        BY <1>2, <2>1, <4>1, <4>2, <4>3, OneAlive DEF RouteInv
      <4> QED BY <2>1, <3>1, <3>4, <4>4
    <3> QED BY <1>2, <2>1, <3>2, <3>3, <3>4 DEF Parts, RouteStep
  <2> QED BY <2>1, <2>2, <2>3
<1>3. Base /\ RouteInv /\ VerifiedRouteInstalled /\ [Next]_vars => VerifiedRouteInstalled'
  BY <1>2, NextStirs, NextParts
<1> QED BY <1>1, <1>3, BaseInvariant, RouteInvariant, PTL DEF Spec
-----------------------------------------------------------------------------
(* Who moves, under which lock. Every step is the step of one task, or of  *)
(* none, and a task that changes a session, or goes on to the next port,   *)
(* takes or holds the operation lock of the entry it looked up.            *)

Engaged(t) == Ready(t) \/ task[t].pc \in Critical

GrantPorts == {"load_approval", "approve", "inspect_grant", "access", "send_grant"}

Quiet ==
    /\ \A u \in Tasks : task'[u] = task[u]
    /\ operation' = operation
    /\ \A e \in Allocated : state'[e] = state[e]

Moves(t) ==
    /\ \A u \in Tasks : u # t => task'[u] = task[u] \/ task'[u].pc = "spawned"
    /\ \A e \in Allocated : state'[e] # state[e] =>
         /\ Engaged(t) /\ task[t].pc \in AtEntry
         /\ idOf[e] = task[t].id /\ task'[t].pc # task[t].pc
    /\ \/ /\ task'[t].pc \notin Critical
          /\ operation' = operation \/ operation' = Unlocked(t)
       \/ /\ Engaged(t) /\ task[t].pc \in AtEntry
          /\ operation' = Held(t) \/ (operation' = operation /\ task[t].pc \in Critical)
          /\ task'[t].ent = task[t].ent /\ task'[t].op = task[t].op
          /\ task'[t].id = task[t].id
          /\ task'[t].pc \in GrantPorts => NextOK(t, task'[t].pc)

Moved == Quiet \/ \E t \in Tasks : Moves(t)

\* A step outside the lock.
LEMMA StrollsMoves ==
    ASSUME Base, NEW t \in Tasks, NEW k, Strolls(t, k)
    PROVE  Moves(t)
<1>1. /\ OnlyTask(t) /\ task'[t] = k
  BY StrollsOnly
<1>2. /\ state' = state /\ k.pc \notin Critical
      /\ operation' = operation \/ operation' = Unlocked(t)
  BY DEF Strolls
<1> QED BY <1>1, <1>2 DEF Moves, OnlyTask

\* A step that stays under the lock and calls no port of a grant.
LEMMA StaysMoves ==
    ASSUME Base, NEW t \in Tasks, NEW k, Stays(t, k), k.pc \notin GrantPorts
    PROVE  Moves(t)
<1>1. /\ OnlyTask(t) /\ task'[t] = k
  BY StaysOnly
<1>2. /\ state' = state
      /\ k.ent = task[t].ent /\ k.op = task[t].op /\ k.id = task[t].id
      /\ task[t].pc \in AtEntry
      /\ \/ operation' = Held(t) /\ Ready(t)
         \/ operation' = operation /\ task[t].pc \in Critical
  BY DEF Stays
<1> QED BY <1>1, <1>2 DEF Moves, OnlyTask, Engaged

\* A step of a workflow, made with the lock.
LEMMA ActsMoves ==
    ASSUME Base, NEW t \in Tasks, NEW K \in SUBSET EventKinds, NEW next, Acts(t, K, next), NextOK(t, next),
           Engaged(t), task[t].pc \in AtEntry \ {"finalizing"}
    PROVE  Moves(t)
<1>1. OnlyTask(t)
  BY ActsOnly
<1>2. ASSUME NEW e \in Allocated, state'[e] # state[e]
      PROVE  idOf[e] = task[t].id
  <2>1. PICK f \in Allocated, kind \in K, failed \in BOOLEAN : \E arg \in Payloads(kind) :
           idOf[f] = task[t].id /\ Applied(t, f, kind, arg, failed)
    BY <1>2 DEF Acts, Turns
  <2>2. PICK arg \in Payloads(kind) : idOf[f] = task[t].id /\ Applied(t, f, kind, arg, failed)
    BY <2>1
  <2>3. \A g \in Entries : g # f => state'[g] = state[g]
    BY <2>2, AppliedFacts
  <2>4. e = f
    BY <1>2, <2>3, LiveFinite
  <2> QED BY <2>2, <2>4
<1>3. task[t].pc = "lock" \/ task[t].pc \in Critical
  BY DEF Engaged, Ready
<1>4. ASSUME NEW ok \in BOOLEAN, Return(t, ok)
      PROVE  Moves(t)
  <2>1. PICK k : k = Resumed(t, ok)
    OBVIOUS
  <2>2. k.pc \in ResumePcs
    BY <2>1, ResumedRecord DEF Base
  <2>3. task'[t] = k /\ operation' = Unlocked(t)
    BY <1>4, <2>1, OnlyTaskMoves DEF Return
  <2>4. k.pc \notin Critical /\ k.pc # "lock"
    BY <2>2 DEF ResumePcs, Critical, Ports
  <2> QED BY <1>1, <1>2, <1>3, <2>3, <2>4 DEF Moves, OnlyTask
<1>5. ASSUME NEW e \in Allocated, NEW ok \in BOOLEAN, NEW cont \in Conts, Waits(t, e, ok, cont)
      PROVE  Moves(t)
  <2>1. /\ task'[t].pc = "finalizing" /\ task'[t].op = task[t].op
        /\ task'[t].id = task[t].id /\ task'[t].ent = task[t].ent
    BY <1>5, OnlyTaskMoves
  <2>2. operation' = Held(t)
    BY <1>5 DEF Waits
  <2>3. task'[t].pc \notin GrantPorts
    BY <2>1 DEF GrantPorts
  <2> QED BY <1>1, <1>2, <2>1, <2>2, <2>3 DEF Moves, OnlyTask
<1>6. ASSUME next # "return", Goto(t, next), operation' = Held(t)
      PROVE  Moves(t)
  <2>1. /\ task'[t].pc = next /\ task'[t].op = task[t].op
        /\ task'[t].id = task[t].id /\ task'[t].ent = task[t].ent
    BY <1>6, OnlyTaskMoves
  <2>2. next # task[t].pc
    BY <1>6 DEF NextOK
  <2> QED BY <1>1, <1>2, <1>6, <2>1, <2>2 DEF Moves, OnlyTask
<1> QED BY <1>4, <1>5, <1>6 DEF Acts

\* The same for every workflow.
LEMMA WorksMoves ==
    ASSUME Base, NEW t \in Tasks, NEW K \in SUBSET EventKinds, Works(t, K), Engaged(t)
    PROVE  Moves(t)
<1>1. PICK next : NextOK(t, next) /\ Acts(t, K, next)
  BY DEF Works
<1>2. task[t].pc \in AtEntry \ {"finalizing"}
  BY DEF Works
<1> QED BY <1>1, <1>2, ActsMoves

\* The key is bound to the entry that is held.
LEMMA BindGrantKeyLocked ==
    ASSUME Base, NEW t \in Tasks, NEW key \in Keys, BindGrantKey(t, key)
    PROVE  Moves(t)
<1>1. /\ KeyMove(t, key)
      /\ \/ Return(t, FALSE)
         \/ Goto(t, "key_bound") /\ operation' = Held(t) /\ UNCHANGED gate
  BY BindGrantKeyMoves
<1>2. Ready(t) /\ task[t].pc = "lock" /\ Engaged(t) /\ task[t].pc \in AtEntry
  BY <1>1 DEF KeyMove, Ready, Engaged, AtEntry
<1>3. task[t].ent \in Allocated /\ idOf[task[t].ent] = task[t].id
  BY <1>2 DEF Base, Places, PlaceOK
<1>4. \A e \in Allocated : state'[e] # state[e] => idOf[e] = task[t].id
  <2>1. PICK s : s = BindKey(state[task[t].ent], key)
    OBVIOUS
  <2>2. state' = state \/ state' = [state EXCEPT ![task[t].ent] = s]
    BY <1>1, <2>1 DEF KeyMove
  <2> QED BY <1>3, <2>2, LiveFinite DEF Base, Types
<1>5. CASE Return(t, FALSE)
  <2>1. PICK k : k = Resumed(t, FALSE)
    OBVIOUS
  <2>2. k.pc \in ResumePcs
    BY <2>1, ResumedRecord DEF Base
  <2>3. OnlyTask(t) /\ task'[t] = k /\ operation' = Unlocked(t)
    BY <1>5, <2>1, OnlyTaskMoves DEF Return
  <2>4. k.pc \notin Critical /\ k.pc # "lock"
    BY <2>2 DEF ResumePcs, Critical, Ports
  <2> QED BY <1>2, <1>4, <2>3, <2>4 DEF Moves, OnlyTask
<1>6. CASE Goto(t, "key_bound") /\ operation' = Held(t)
  <2>1. /\ OnlyTask(t) /\ task'[t].pc = "key_bound" /\ task'[t].op = task[t].op
        /\ task'[t].id = task[t].id /\ task'[t].ent = task[t].ent
    BY <1>6, OnlyTaskMoves
  <2>2. "key_bound" \notin GrantPorts
    BY DEF GrantPorts
  <2> QED BY <1>2, <1>4, <1>6, <2>1, <2>2 DEF Moves, OnlyTask
<1> QED BY <1>1, <1>5, <1>6

\* An operation, whoever runs it.
LEMMA OperateMoves ==
    ASSUME Base, NEW t \in Tasks, Operate(t)
    PROVE  Moves(t)
<1>1. CASE Lookup(t)
  BY <1>1, LookupStrolls, StrollsMoves
<1>2. CASE ApplyOperation(t)
  <2>1. Engaged(t)
    BY <1>2 DEF ApplyOperation, Engaged
  <2> QED BY <1>2, <2>1, ApplyOperationWorks, WorksMoves, KindFacts
<1>3. CASE Finalized(t)
  <2>1. \/ \E k : Strolls(t, k)
        \/ \E k : Stays(t, k) /\ k.pc \in {"send_intent", "publish", "bind_access"}
    BY <1>3, FinalizedCases
  <2>2. {"send_intent", "publish", "bind_access"} \cap GrantPorts = {}
    BY DEF GrantPorts
  <2> QED BY <2>1, <2>2, StrollsMoves, StaysMoves
<1> QED BY <1>1, <1>2, <1>3 DEF Operate

\* The workflows of the callers.
LEMMA WorkflowMoves ==
    ASSUME Base, NEW t \in Callers, Workflow(t)
    PROVE  Moves(t)
<1>0. t \in Tasks /\ Plain \in SUBSET EventKinds /\ {"Granted"} \in SUBSET EventKinds
  BY CallersAside, KindFacts
<1>1. CASE CheckDuplicate(t) \/ StartWorkflow(t) \/ StartApproval(t)
  <2>1. Engaged(t)
    BY <1>1 DEF CheckDuplicate, StartWorkflow, StartApproval, Engaged
  <2> QED BY <1>0, <1>1, <2>1, CheckDuplicateWorks, StartWorkflowWorks, StartApprovalWorks,
             WorksMoves
<1>2. ASSUME NEW key \in Keys, BindGrantKey(t, key)
      PROVE  Moves(t)
  BY <1>0, <1>2, BindGrantKeyLocked
<1>3. ASSUME NEW intent \in Intents,
             CheckGrant(t, intent) \/ IntentSent(t, intent) \/ ConsentPublished(t, intent)
      PROVE  Moves(t)
  <2>1. Engaged(t)
    BY <1>3 DEF CheckGrant, IntentSent, ConsentPublished, Engaged, Critical, Ports
  <2> QED BY <1>0, <1>3, <2>1, CheckGrantWorks, IntentWorks, WorksMoves
<1>4. CASE BackendVerified(t) \/ PortAnswered(t) \/ PortFailed(t) \/ PortTimeout(t)
  <2>1. Engaged(t)
    BY <1>4 DEF BackendVerified, PortAnswered, PortFailed, PortTimeout, Engaged, Critical, Ports
  <2> QED BY <1>0, <1>4, <2>1, BackendVerifiedWorks, PortAnsweredWorks, PortEndsWorks, WorksMoves
<1>5. CASE PublishRequest(t)
  <2>1. "published" \notin GrantPorts
    BY DEF GrantPorts
  <2> QED BY <1>0, <1>5, <2>1, PublishRequestStays, StaysMoves
<1>6. ASSUME NEW grant \in Grants, GrantObtained(t, grant)
      PROVE  Moves(t)
  <2>1. Engaged(t)
    BY <1>6 DEF GrantObtained, Engaged, Critical, Ports
  <2> QED BY <1>0, <1>6, <2>1, GrantObtainedWorks, WorksMoves
<1>7. ASSUME NEW access \in Accesses, BindAccess(t, access)
      PROVE  Moves(t)
  <2>1. Engaged(t)
    BY <1>7 DEF BindAccess, Engaged, Critical
  <2> QED BY <1>0, <1>7, <2>1, BindAccessWorks, WorksMoves
<1> QED BY <1>1, <1>2, <1>3, <1>4, <1>5, <1>6, <1>7 DEF Workflow

\* The handlers of the callers.
LEMMA CallerMoves ==
    ASSUME Base, NEW t \in Callers, Call(t) \/ Handle(t) \/ DropCaller(t)
    PROVE  Moves(t)
<1>0. t \in Tasks
  BY CallersAside
<1>1. ASSUME NEW decision \in {"approved", "denied"}, Decide(t, decision)
      PROVE  Moves(t)
  BY <1>0, <1>1, DecideStrolls, StrollsMoves
<1>2. ASSUME NEW ok \in BOOLEAN, Authorize(t, ok)
      PROVE  Moves(t)
  BY <1>0, <1>2, AuthorizeStrolls, StrollsMoves
<1>3. CASE StartSweep(t) \/ EndSweep(t) \/ DropCaller(t)
  BY <1>0, <1>3, StartSweepStrolls, StopCallerStrolls, StrollsMoves
<1>4. ASSUME NEW p \in task[t].todo, SweepEntry(t, p)
      PROVE  Moves(t)
  BY <1>0, <1>4, SweepEntryStrolls, StrollsMoves
<1>5. CASE SpawnCheck(t) \/ SpawnRefused(t)
  BY <1>0, <1>5, SpawnCheckStrolls, SpawnRefusedStrolls, StrollsMoves
<1>6. ASSUME NEW o \in Owned, Spawn(t, o)
      PROVE  Moves(t)
  <2>1. PICK k \in TaskRecord :
             /\ k.pc = "spawned" /\ k.op = "claim" /\ k.id = task[t].id /\ k.arg = None
             /\ k.ent = NoEntry
             /\ task' = [task EXCEPT ![t] = Idle, ![o] = k]
             /\ home' = [home EXCEPT ![o] = task[t].ent]
             /\ group' = [group EXCEPT ![task[t].ent].handles =
                            {h \in @ : ~Finished(h)} \cup {o}]
             /\ task[t].pc = "spawn" /\ task[o].pc \in {"idle", "finished"}
             /\ task[t].ent \in Allocated /\ idOf[task[t].ent] = task[t].id
             /\ task[t].id \in Ids
             /\ ~group[task[t].ent].closed
             /\ UNCHANGED <<now, registryVars, state, operation, cleanup, gate, worldVars>>
    BY <1>6, SpawnCases
  <2>2. o \in Tasks /\ o # t
    BY CallersAside, OwnedAreTasks
  <2>3. /\ task'[t] = Idle /\ task'[o] = k
        /\ \A u \in Tasks : u # t /\ u # o => task'[u] = task[u]
    BY <1>0, <2>1, <2>2 DEF Base, Types
  <2>4. Idle.pc \notin Critical
    BY IdleRecord DEF Critical, Ports
  <2> QED BY <2>1, <2>3, <2>4 DEF Moves
<1>7. ASSUME NEW op \in {"start", "intent"}, NEW i \in Ids, NEW d \in Deadlines,
             NEW r \in Requests, Begin(t, op, i, d, r)
      PROVE  Moves(t)
  <2>1. PICK k \in TaskRecord :
             /\ k.pc = "lookup" /\ k.op = op /\ k.id = i /\ k.arg = r /\ k.ent = NoEntry
             /\ task' = [task EXCEPT ![t] = k]
             /\ task[t].pc = "idle"
             /\ Strolls(t, k) \/ Admits(t, i, Identity(op, d))
             /\ UNCHANGED <<operation, gate, worldVars>>
    BY <1>7, BeginCases
  <2>2. OnlyTask(t) /\ task'[t] = k
    BY <1>0, <2>1, OnlyTaskMoves
  <2>3. \A e \in Allocated : state'[e] = state[e]
    <3>1. CASE Strolls(t, k)
      BY <3>1 DEF Strolls
    <3>2. CASE Admits(t, i, Identity(op, d))
      <4>1. used + 1 \notin Allocated
        BY DEF Allocated, Base, Types
      <4>2. state' = [state EXCEPT ![used + 1] = Identity(op, d)]
        BY <3>2 DEF Admits
      <4> QED BY <4>1, <4>2, LiveFinite DEF Base, Types
    <3> QED BY <2>1, <3>1, <3>2
  <2>4. k.pc \notin Critical
    BY <2>1 DEF Critical, Ports
  <2> QED BY <2>1, <2>2, <2>3, <2>4 DEF Moves, OnlyTask
<1>8. ASSUME NEW op \in CallerOps, NEW i \in Ids, Invoke(t, op, i)
      PROVE  Moves(t)
  BY <1>0, <1>8, InvokeStrolls, StrollsMoves
<1> QED BY <1>1, <1>2, <1>3, <1>4, <1>5, <1>6, <1>7, <1>8 DEF Call, Handle

\* The owned tasks.
LEMMA RunOwnedMoves ==
    ASSUME Base, NEW o \in Owned, RunOwned(o)
    PROVE  Moves(o)
<1>0. o \in Tasks
  BY OwnedAreTasks
<1>1. ASSUME NEW ok \in BOOLEAN, Claim(o, ok)
      PROVE  Moves(o)
  BY <1>0, <1>1, ClaimStrolls, StrollsMoves
<1>2. CASE \/ MediaCheck(o)
           \/ \E ok \in BOOLEAN : MediaStart(o, ok) \/ MediaReady(o, ok) \/ Activated(o, ok)
  BY <1>0, <1>2, MediaStrolls, StrollsMoves
<1>3. CASE PeerNegotiated(o) \/ PeerFailed(o)
  BY <1>0, <1>3, PeerStrolls, StrollsMoves
<1>4. CASE CommitCheck(o)
  <2>1. "install" \notin GrantPorts
    BY DEF GrantPorts
  <2> QED BY <1>0, <1>4, <2>1, CommitCheckCases, StrollsMoves, StaysMoves
<1>5. CASE \/ \E proof \in RouteProofs : Installed(o, proof)
           \/ InstallFailed(o)
  <2>1. task[o].pc = "install" /\ Acts(o, {"RelayVerified", "Failed"}, "return")
    BY <1>5, InstallActs
  <2>2. {"RelayVerified", "Failed"} \in SUBSET EventKinds
    BY KindFacts
  <2>3. Engaged(o) /\ task[o].pc \in AtEntry \ {"finalizing"}
    BY <2>1 DEF Engaged, Critical, AtEntry
  <2> QED BY <1>0, <2>1, <2>2, <2>3, ReturnOK, ActsMoves
<1>6. CASE Committed(o)
  BY <1>0, <1>6, CommittedStrolls, StrollsMoves
<1>7. CASE Recover(o)
  BY <1>0, <1>7, RecoverStrolls, StrollsMoves
<1>8. CASE Cancel(o) \/ NegotiationTimeout(o)
  <2>1. Interrupt(o)
    BY <1>8 DEF Cancel, NegotiationTimeout
  <2> QED BY <1>0, <2>1, InterruptStrolls, StrollsMoves
<1> QED BY <1>1, <1>2, <1>3, <1>4, <1>5, <1>6, <1>7, <1>8 DEF RunOwned

\* Every step is a step of one task, or of none.
LEMMA NextMoves == Base /\ [Next]_vars => Moved
<1> SUFFICES ASSUME Base, [Next]_vars PROVE Moved
  OBVIOUS
<1>1. ASSUME NEW t \in Tasks, Operate(t) PROVE Moved
  BY <1>1, OperateMoves DEF Moved
<1>2. ASSUME NEW t \in Callers, Call(t) \/ Workflow(t) \/ Handle(t) \/ DropCaller(t)
      PROVE  Moved
  BY <1>2, CallersAside, CallerMoves, WorkflowMoves DEF Moved
<1>3. ASSUME NEW o \in Owned, RunOwned(o) PROVE Moved
  BY <1>3, OwnedAreTasks, RunOwnedMoves DEF Moved
<1>4. ASSUME NEW e \in Entries, Cleanup(e) PROVE Moved
  <2>1. CASE \/ CloseGroup(e)
             \/ \E ok \in BOOLEAN : CleanupStep(e, ok)
             \/ \E o \in Owned : JoinTask(e, o)
             \/ Retire(e)
    BY <2>1 DEF CloseGroup, CleanupStep, JoinTask, Retire, Moved, Quiet
  <2>2. ASSUME NEW o \in Owned, AbortTask(e, o) PROVE Moved
    <3>1. task' = [task EXCEPT ![o] = Ended] /\ operation' = Unlocked(o) /\ state' = state
      BY <2>2 DEF AbortTask
    <3>2. o \in Tasks /\ OnlyTask(o) /\ task'[o] = Ended
      BY <3>1, OwnedAreTasks, OnlyTaskMoves
    <3>3. Ended.pc \notin Critical
      BY IdleRecord DEF Critical, Ports
    <3> QED BY <3>1, <3>2, <3>3 DEF Moved, Moves, OnlyTask
  <2> QED BY <1>4, <2>1, <2>2 DEF Cleanup
<1>5. CASE Tick
  BY <1>5 DEF Tick, Moved, Quiet
<1>6. CASE UNCHANGED vars
  BY <1>6 DEF vars, Moved, Quiet
<1> QED BY <1>1, <1>2, <1>3, <1>4, <1>5, <1>6 DEF Next
-----------------------------------------------------------------------------
(* The operation lock. apply looks the session up by its id again, under   *)
(* the lock of the entry the task found first; as long as an id names one  *)
(* entry only, the two are the same.                                       *)

IdsUsedOnce == \A e, f \in Allocated : idOf[e] = idOf[f] => e = f

LockInv == \A t \in Tasks : task[t].pc \in Critical => operation[task[t].ent] = t

\* A task inside its operation holds the lock of an entry that exists.
LEMMA LockStepInv ==
    ASSUME Base, LockInv, Moved
    PROVE  LockInv'
<1>0. \A t \in Tasks : task[t].pc \in AtEntry =>
        task[t].ent \in Entries /\ idOf[task[t].ent] = task[t].id
  BY LiveFinite DEF Base, Places, PlaceOK
<1>a. Critical \subseteq AtEntry /\ "spawned" \notin Critical
  BY DEF Critical, AtEntry, Ports
<1>b. None \notin Tasks /\ operation \in [Entries -> Tasks \cup {None}]
  BY CoordinatorAssumption DEF Base, Types, Tasks
<1>1. CASE Quiet
  BY <1>1 DEF Quiet, LockInv
<1>2. ASSUME NEW t \in Tasks, Moves(t) PROVE LockInv'
  <2> SUFFICES ASSUME NEW u \in Tasks, task'[u].pc \in Critical
               PROVE  operation'[task'[u].ent] = u
    BY DEF LockInv
  <2>1. CASE u = t
    <3>1. /\ Engaged(t) /\ task[t].pc \in AtEntry
          /\ operation' = Held(t) \/ (operation' = operation /\ task[t].pc \in Critical)
          /\ task'[t].ent = task[t].ent
      BY <1>2, <2>1 DEF Moves
    <3> QED BY <1>0, <1>b, <2>1, <3>1 DEF Held, LockInv
  <2>2. CASE u # t
    <3>1. task'[u] = task[u] /\ operation[task[u].ent] = u /\ task[u].ent \in Entries
      BY <1>0, <1>2, <1>a, <2>2 DEF Moves, LockInv
    <3>2. CASE operation' = operation
      BY <3>1, <3>2
    <3>3. CASE operation' = Unlocked(t)
      BY <2>2, <3>1, <3>3 DEF Unlocked
    <3>4. CASE operation' = Held(t) /\ Engaged(t)
      <4>1. operation[task[t].ent] \in {None, t}
        BY <3>4 DEF Engaged, Ready, LockInv
      <4>2. task[t].ent # task[u].ent
        BY <1>b, <2>2, <3>1, <4>1
      <4> QED BY <1>b, <3>1, <3>4, <4>2 DEF Held
    <3> QED BY <1>2, <3>2, <3>3, <3>4 DEF Moves
  <2> QED BY <2>1, <2>2
<1> QED BY <1>1, <1>2 DEF Moved

\* The lock in every reachable state.
LEMMA LockInvariant == Spec => []LockInv
<1>1. Init => LockInv
  <2> SUFFICES ASSUME Init, NEW t \in Tasks PROVE task[t].pc \notin Critical
    BY DEF LockInv
  <2>1. task[t] = Idle
    BY DEF Init
  <2> QED BY <2>1, IdleRecord DEF Critical, Ports
<1>2. Base /\ LockInv /\ [Next]_vars => LockInv'
  BY NextMoves, LockStepInv
<1> QED BY <1>1, <1>2, BaseInvariant, PTL DEF Spec

(* As long as no id is begun again after the registry has forgotten it,      *)
(* every change of a session is made by the task that holds, or has just     *)
(* been given, the operation lock of its entry: the checks a workflow made   *)
(* before an await still hold after it (apply_with_operation, run_port).     *)
THEOREM OnlyLockHolderHolds == Spec /\ []IdsUsedOnce => OnlyLockHolderChanges
<1>1. ASSUME Base, LockInv, IdsUsedOnce, Moved, NEW e \in Allocated, state'[e] # state[e]
      PROVE  \E t \in Tasks : /\ task[t].ent = e /\ operation[e] \in {t, None}
                              /\ task'[t] # task[t]
  <2>1. PICK t \in Tasks : Moves(t)
    BY <1>1 DEF Moved, Quiet
  <2>2. /\ Engaged(t) /\ task[t].pc \in AtEntry
        /\ idOf[e] = task[t].id /\ task'[t].pc # task[t].pc
    BY <1>1, <2>1 DEF Moves
  <2>3. task[t].ent \in Allocated /\ idOf[task[t].ent] = task[t].id
    BY <1>1, <2>2 DEF Base, Places, PlaceOK
  <2>4. task[t].ent = e
    BY <1>1, <2>2, <2>3 DEF IdsUsedOnce
  <2>5. operation[e] \in {t, None}
    BY <1>1, <2>2, <2>4 DEF Engaged, Ready, LockInv
  <2> QED BY <2>2, <2>4, <2>5
<1>2. Base /\ LockInv /\ IdsUsedOnce /\ [Next]_vars =>
        [\A e \in Allocated :
           state'[e] # state[e] =>
              \E t \in Tasks : /\ task[t].ent = e /\ operation[e] \in {t, None}
                              /\ task'[t] # task[t]]_vars
  BY <1>1, NextMoves
<1> QED BY <1>2, BaseInvariant, LockInvariant, PTL DEF Spec, OnlyLockHolderChanges
-----------------------------------------------------------------------------
(* The grant of a target. The grant handler checks the role of the session *)
(* when it starts, and apply looks the session up by its id at the end; as *)
(* long as the sessions of one id have one role, the check still holds.    *)

OneRole == \A e, f \in Allocated : idOf[e] = idOf[f] => state[e].role = state[f].role

\* The ports of an approval are reached with the user's approval, those of a
\* grant for a controller.
ConsentOK(t) ==
    LET k == task[t]
        approving == k.pc \in {"approve", "send_grant"} \/ (k.pc = "access" /\ k.op = "approve")
        granting == k.pc = "inspect_grant" \/ (k.pc = "access" /\ k.op = "grant")
    IN  /\ k.pc \in {"load_approval", "approve", "send_grant"} => k.op = "approve"
        /\ k.pc = "inspect_grant" => k.op = "grant"
        /\ k.pc = "access" => k.op \in {"approve", "grant"}
        /\ approving => consent[k.id] = "approved"
        /\ granting => state[k.ent].role = "Controller"

ConsentInv == \A t \in Tasks : ConsentOK(t)

\* An approval, once recorded, stays.
Approves == \A i \in Ids : consent[i] = "approved" => consent'[i] = "approved"

\* The steps of the workflows keep an approval.
LEMMA WorkflowApproves ==
    ASSUME Base, NEW t \in Callers, Workflow(t)
    PROVE  Approves
<1>0. t \in Tasks
  BY CallersAside
<1>1. CASE CheckDuplicate(t) \/ StartWorkflow(t) \/ StartApproval(t) \/ BackendVerified(t)
  BY <1>1 DEF CheckDuplicate, StartWorkflow, StartApproval, BackendVerified, worldVars, Approves
<1>2. CASE PortAnswered(t) \/ PortFailed(t) \/ PortTimeout(t)
  BY <1>2 DEF PortAnswered, PortFailed, PortTimeout, worldVars, Approves
<1>3. CASE PublishRequest(t)
  BY <1>0, <1>3, PublishRequestStays DEF Approves, Base, Types, WorldTypes
<1>4. ASSUME NEW key \in Keys, BindGrantKey(t, key) PROVE Approves
  BY <1>4 DEF BindGrantKey, worldVars, Approves
<1>5. ASSUME NEW intent \in Intents,
             CheckGrant(t, intent) \/ IntentSent(t, intent) \/ ConsentPublished(t, intent)
      PROVE  Approves
  BY <1>5 DEF CheckGrant, IntentSent, ConsentPublished, worldVars, Approves
<1>6. ASSUME NEW grant \in Grants, GrantObtained(t, grant) PROVE Approves
  BY <1>6 DEF GrantObtained, worldVars, Approves
<1>7. ASSUME NEW access \in Accesses, BindAccess(t, access) PROVE Approves
  BY <1>7 DEF BindAccess, worldVars, Approves
<1> QED BY <1>1, <1>2, <1>3, <1>4, <1>5, <1>6, <1>7 DEF Workflow

\* The handlers keep an approval: a decision is recorded over a pending one only.
LEMMA CallerApproves ==
    ASSUME Base, NEW t \in Callers, Call(t) \/ Handle(t) \/ DropCaller(t)
    PROVE  Approves
<1>1. ASSUME NEW decision \in {"approved", "denied"}, Decide(t, decision) PROVE Approves
  BY <1>1, DecideStrolls DEF Approves, Base, Types, WorldTypes
<1>2. ASSUME NEW ok \in BOOLEAN, Authorize(t, ok) PROVE Approves
  BY <1>2 DEF Authorize, worldVars, Approves
<1>3. CASE StartSweep(t) \/ EndSweep(t) \/ DropCaller(t)
  BY <1>3 DEF StartSweep, EndSweep, DropCaller, worldVars, Approves
<1>4. ASSUME NEW p \in task[t].todo, SweepEntry(t, p) PROVE Approves
  BY <1>4 DEF SweepEntry, worldVars, Approves
<1>5. CASE SpawnCheck(t) \/ SpawnRefused(t)
  BY <1>5 DEF SpawnCheck, SpawnRefused, worldVars, Approves
<1>6. ASSUME NEW o \in Owned, Spawn(t, o) PROVE Approves
  BY <1>6 DEF Spawn, worldVars, Approves
<1>7. ASSUME NEW op \in {"start", "intent"}, NEW i \in Ids, NEW d \in Deadlines,
             NEW r \in Requests, Begin(t, op, i, d, r)
      PROVE  Approves
  BY <1>7 DEF Begin, worldVars, Approves
<1>8. ASSUME NEW op \in CallerOps, NEW i \in Ids, Invoke(t, op, i) PROVE Approves
  BY <1>8 DEF Invoke, worldVars, Approves
<1> QED BY <1>1, <1>2, <1>3, <1>4, <1>5, <1>6, <1>7, <1>8 DEF Call, Handle

\* The owned tasks keep an approval.
LEMMA RunOwnedApproves ==
    ASSUME NEW o \in Owned, RunOwned(o)
    PROVE  Approves
<1>1. ASSUME NEW ok \in BOOLEAN,
             Claim(o, ok) \/ MediaStart(o, ok) \/ MediaReady(o, ok) \/ Activated(o, ok)
      PROVE  Approves
  BY <1>1 DEF Claim, MediaStart, MediaReady, Activated, worldVars, Approves
<1>2. CASE MediaCheck(o) \/ PeerNegotiated(o) \/ PeerFailed(o) \/ CommitCheck(o)
  BY <1>2 DEF MediaCheck, PeerNegotiated, PeerFailed, CommitCheck, worldVars, Approves
<1>3. ASSUME NEW proof \in RouteProofs, Installed(o, proof) PROVE Approves
  BY <1>3 DEF Installed, Approves
<1>4. CASE InstallFailed(o) \/ Committed(o) \/ Recover(o)
  BY <1>4 DEF InstallFailed, Committed, Recover, worldVars, Approves
<1>5. CASE Cancel(o) \/ NegotiationTimeout(o)
  BY <1>5 DEF Cancel, NegotiationTimeout, Interrupt, worldVars, Approves
<1> QED BY <1>1, <1>2, <1>3, <1>4, <1>5 DEF RunOwned

\* Every step keeps an approval.
LEMMA NextApproves == Base /\ [Next]_vars => Approves
<1> SUFFICES ASSUME Base, [Next]_vars PROVE Approves
  OBVIOUS
<1>1. ASSUME NEW t \in Tasks, Operate(t) PROVE Approves
  BY <1>1 DEF Operate, Lookup, ApplyOperation, Finalized, worldVars, Approves
<1>2. ASSUME NEW t \in Callers, Call(t) \/ Workflow(t) \/ Handle(t) \/ DropCaller(t)
      PROVE  Approves
  BY <1>2, CallerApproves, WorkflowApproves
<1>3. ASSUME NEW o \in Owned, RunOwned(o) PROVE Approves
  BY <1>3, RunOwnedApproves
<1>4. ASSUME NEW e \in Entries, Cleanup(e) PROVE Approves
  BY <1>4 DEF Cleanup, CloseGroup, CleanupStep, JoinTask, AbortTask, Retire, worldVars, Approves
<1>5. CASE Tick
  BY <1>5 DEF Tick, worldVars, Approves
<1>6. CASE UNCHANGED vars
  BY <1>6 DEF vars, worldVars, Approves
<1> QED BY <1>1, <1>2, <1>3, <1>4, <1>5, <1>6 DEF Next

\* What a step keeps of a session, and how a session gets a grant.
LEMMA FreshGranted ==
    ASSUME Base, Stirs
    PROVE  /\ \A e \in Allocated : /\ e \in Allocated' /\ idOf'[e] = idOf[e]
                                   /\ state'[e].role = state[e].role
           /\ \A e \in Allocated' : state'[e].bound["Granted"] # None =>
                /\ e \in Allocated
                /\ \/ state[e].bound["Granted"] # None
                   \/ \E t \in Tasks : GrantsNow(t) /\ idOf[e] = task[t].id
<1>0. Allocated \subseteq Entries
  BY LiveFinite
<1>1. CASE Still
  BY <1>1 DEF Still, registryVars, Allocated
<1>2. ASSUME NEW t \in Callers, NEW i \in Ids, NEW fresh \in Shape, Admits(t, i, fresh),
             fresh.bound["Granted"] = None
      PROVE  /\ \A e \in Allocated : /\ e \in Allocated' /\ idOf'[e] = idOf[e]
                                     /\ state'[e] = state[e]
             /\ \A e \in Allocated' : state'[e].bound["Granted"] # None => e \in Allocated
  <2>1. /\ used' = used + 1 /\ used + 1 \in Entries
        /\ state' = [state EXCEPT ![used + 1] = fresh]
        /\ idOf' = [idOf EXCEPT ![used + 1] = i]
    BY <1>2 DEF Admits
  <2>2. Allocated' = Allocated \cup {used + 1} /\ used + 1 \notin Allocated
    BY <2>1 DEF Allocated, Base, Types
  <2>3. state'[used + 1] = fresh
    BY <2>1 DEF Base, Types
  <2>4. \A e \in Allocated : e # used + 1 /\ idOf'[e] = idOf[e] /\ state'[e] = state[e]
    BY <1>0, <2>1, <2>2 DEF Base, Types
  <2> QED BY <1>2, <2>2, <2>3, <2>4
<1>3. CASE AppliesSome
  <2>1. PICK t \in Tasks, f \in Allocated, kind \in EventKinds, failed \in BOOLEAN :
           \E arg \in Payloads(kind) : Fit(t, f, kind) /\ Applied(t, f, kind, arg, failed)
    BY <1>3 DEF AppliesSome
  <2>2. PICK arg \in Payloads(kind) : Fit(t, f, kind) /\ Applied(t, f, kind, arg, failed)
    BY <2>1
  <2>3. /\ \A g \in Entries : g # f => state'[g] = state[g]
        /\ ApplyFacts(state[f], state'[f], kind, arg, now)
    BY <2>2, AppliedFacts
  <2>4. Allocated' = Allocated /\ idOf' = idOf
    BY <1>3 DEF AppliesSome, registryVars, Allocated
  <2>5. /\ state'[f].role = state[f].role
        /\ state'[f].bound["Granted"] # state[f].bound["Granted"] =>
             GrantsNow(t) /\ idOf[f] = task[t].id
    BY <2>2, <2>3 DEF ApplyFacts, Fit
  <2>6. \A e \in Allocated : state'[e].role = state[e].role
    BY <1>0, <2>3, <2>5
  <2>7. ASSUME NEW e \in Allocated, state'[e].bound["Granted"] # None,
               state[e].bound["Granted"] = None
        PROVE  GrantsNow(t) /\ idOf[e] = task[t].id
    <3>1. e = f
      BY <1>0, <2>3, <2>7
    <3> QED BY <2>5, <2>7, <3>1
  <2> QED BY <2>4, <2>6, <2>7
<1>4. ASSUME NEW t \in Tasks, NEW key \in Keys, KeyMove(t, key), task[t].ent \in Allocated
      PROVE  /\ Allocated' = Allocated /\ idOf' = idOf
             /\ \A e \in Allocated : /\ state'[e].role = state[e].role
                                     /\ state'[e].bound = state[e].bound
  <2>1. Allocated' = Allocated /\ idOf' = idOf
    BY <1>4 DEF KeyMove, registryVars, Allocated
  <2>2. PICK s : s = BindKey(state[task[t].ent], key)
    OBVIOUS
  <2>3. s.role = state[task[t].ent].role /\ s.bound = state[task[t].ent].bound
    BY <1>0, <1>4, <2>2, KeyState DEF Base, Types
  <2>4. state' = state \/ state' = [state EXCEPT ![task[t].ent] = s]
    BY <1>4, <2>2 DEF KeyMove
  <2> QED BY <1>0, <2>1, <2>3, <2>4 DEF Base, Types
<1>5. ASSUME NEW f \in Entries, Tears(f) \/ Retire(f)
      PROVE  Allocated' = Allocated /\ idOf' = idOf /\ state' = state
  <2>1. state' = state /\ used' = used /\ idOf' = idOf
    BY <1>5, RetireFacts DEF Tears, registryVars
  <2> QED BY <2>1 DEF Allocated
<1>6. CASE \E t \in Callers, i \in Ids, fresh \in Shape :
             /\ Typed(fresh) /\ fresh.phase = "Created" /\ fresh.bound["Granted"] = None
             /\ Admits(t, i, fresh)
  <2>1. /\ \A e \in Allocated : /\ e \in Allocated' /\ idOf'[e] = idOf[e]
                                /\ state'[e] = state[e]
        /\ \A e \in Allocated' : state'[e].bound["Granted"] # None => e \in Allocated
    BY <1>2, <1>6
  <2> QED BY <2>1
<1>7. CASE \E t \in Tasks, key \in Keys : KeyMove(t, key) /\ task[t].ent \in Allocated
  <2>1. /\ Allocated' = Allocated /\ idOf' = idOf
        /\ \A e \in Allocated : /\ state'[e].role = state[e].role
                                /\ state'[e].bound = state[e].bound
    BY <1>4, <1>7
  <2> QED BY <2>1
<1>8. CASE \E f \in Entries : Tears(f) \/ Retire(f)
  <2>1. Allocated' = Allocated /\ idOf' = idOf /\ state' = state
    BY <1>5, <1>8
  <2> QED BY <2>1
<1> QED BY <1>1, <1>3, <1>6, <1>7, <1>8 DEF Stirs

\* A step of a task that reaches a port of a grant has seen what the port needs.
LEMMA PortConsent ==
    ASSUME Base, OneRole, NEW t \in Tasks, ConsentOK(t), NEW next \in GrantPorts,
           NextOK(t, next), task[t].pc \in AtEntry
    PROVE  /\ next \in {"load_approval", "approve", "send_grant"} => task[t].op = "approve"
           /\ next = "inspect_grant" => task[t].op = "grant"
           /\ next = "access" => task[t].op \in {"approve", "grant"}
           /\ next \in {"approve", "send_grant"} \/ (next = "access" /\ task[t].op = "approve")
                => consent[task[t].id] = "approved"
           /\ next = "inspect_grant" \/ (next = "access" /\ task[t].op = "grant")
                => state[task[t].ent].role = "Controller"
<1>1. /\ task[t].ent \in Allocated /\ idOf[task[t].ent] = task[t].id /\ task[t].id \in Ids
  BY DEF Base, Places, PlaceOK, EntriesOK
<1>2. CASE next = "load_approval"
  BY <1>2 DEF NextOK
<1>3. CASE next = "approve"
  <2>1. task[t].pc = "load_approval" /\ consent[task[t].id] = "approved"
    BY <1>3 DEF NextOK
  <2> QED BY <1>3, <2>1 DEF ConsentOK
<1>4. CASE next = "inspect_grant"
  <2>1. /\ task[t].op = "grant" /\ sessions[task[t].id] # NoEntry
        /\ state[sessions[task[t].id]].role = "Controller"
    BY <1>4 DEF NextOK
  <2>2. sessions[task[t].id] \in Allocated /\ idOf[sessions[task[t].id]] = task[t].id
    BY <1>1, <2>1 DEF Base, Places, EntriesOK
  <2>3. state[task[t].ent].role = "Controller"
    BY <1>1, <2>1, <2>2 DEF OneRole
  <2> QED BY <1>4, <2>1, <2>3
<1>5. CASE next = "access"
  <2>1. task[t].pc \in {"approve", "inspect_grant"}
    BY <1>5 DEF NextOK
  <2> QED BY <1>5, <2>1 DEF ConsentOK
<1>6. CASE next = "send_grant"
  <2>1. task[t].pc = "access" /\ task[t].op = "approve"
    BY <1>6 DEF NextOK
  <2> QED BY <1>6, <2>1 DEF ConsentOK
<1> QED BY <1>2, <1>3, <1>4, <1>5, <1>6 DEF GrantPorts

\* The consent and the role behind every port of a grant survive every step.
LEMMA ConsentStepInv ==
    ASSUME Base, OneRole, ConsentInv, Moved, Stirs, Approves
    PROVE  ConsentInv'
<1>0. \A t \in Tasks : task[t].pc \in AtEntry =>
        task[t].ent \in Allocated /\ task[t].id \in Ids
  BY DEF Base, Places, PlaceOK, EntriesOK
<1>a. GrantPorts \subseteq Critical /\ GrantPorts \subseteq AtEntry /\ "spawned" \notin GrantPorts
  BY DEF Critical, AtEntry, Ports, GrantPorts
<1>b. \A e \in Allocated : state'[e].role = state[e].role
  BY FreshGranted
<1> SUFFICES ASSUME NEW u \in Tasks PROVE ConsentOK(u)'
  BY DEF ConsentInv
<1>1. CASE task'[u].pc \notin GrantPorts
  BY <1>1 DEF ConsentOK, GrantPorts
<1>2. CASE task'[u].pc \in GrantPorts /\ task'[u] = task[u]
  <2>1. task[u].ent \in Allocated /\ task[u].id \in Ids
    BY <1>0, <1>2, <1>a
  <2>2. /\ state'[task'[u].ent].role = state[task[u].ent].role
        /\ consent[task[u].id] = "approved" => consent'[task'[u].id] = "approved"
    BY <1>2, <1>b, <2>1 DEF Approves
  <2>3. ConsentOK(u)
    BY DEF ConsentInv
  <2> QED BY <1>2, <2>2, <2>3 DEF ConsentOK
<1>3. CASE task'[u].pc \in GrantPorts /\ task'[u] # task[u]
  <2>1. Moves(u)
    BY <1>3, <1>a DEF Moved, Quiet, Moves
  <2>2. /\ task[u].pc \in AtEntry
        /\ task'[u].ent = task[u].ent /\ task'[u].op = task[u].op /\ task'[u].id = task[u].id
        /\ NextOK(u, task'[u].pc)
    BY <1>3, <1>a, <2>1 DEF Moves
  <2>3. PICK next \in GrantPorts : next = task'[u].pc
    BY <1>3
  <2>4. /\ next \in {"load_approval", "approve", "send_grant"} => task[u].op = "approve"
        /\ next = "inspect_grant" => task[u].op = "grant"
        /\ next = "access" => task[u].op \in {"approve", "grant"}
        /\ next \in {"approve", "send_grant"} \/ (next = "access" /\ task[u].op = "approve")
             => consent[task[u].id] = "approved"
        /\ next = "inspect_grant" \/ (next = "access" /\ task[u].op = "grant")
             => state[task[u].ent].role = "Controller"
    BY <2>2, <2>3, PortConsent DEF ConsentInv
  <2>5. /\ state'[task'[u].ent].role = state[task[u].ent].role
        /\ consent[task[u].id] = "approved" => consent'[task'[u].id] = "approved"
    BY <1>0, <1>b, <2>2 DEF Approves
  <2> QED BY <2>2, <2>3, <2>4, <2>5 DEF ConsentOK
<1> QED BY <1>1, <1>2, <1>3

(* As long as an id is not begun again in the other role after the registry  *)
(* has forgotten it, no target ever holds a grant that the local user did    *)
(* not approve: not through a second handler, a duplicate or a decision that *)
(* arrives late (approve_target, install_controller_grant,                   *)
(* respond_to_consent).                                                      *)
THEOREM GrantNeedsConsentHolds == Spec /\ []OneRole => []GrantNeedsConsent
<1>1. Init => ConsentInv /\ GrantNeedsConsent
  <2> SUFFICES ASSUME Init PROVE ConsentInv /\ GrantNeedsConsent
    OBVIOUS
  <2>1. Allocated = {}
    BY DEF Init, Allocated
  <2>2. ASSUME NEW t \in Tasks PROVE ConsentOK(t)
    <3>1. task[t] = Idle
      BY DEF Init
    <3> QED BY <3>1, IdleRecord DEF ConsentOK
  <2> QED BY <2>1, <2>2 DEF ConsentInv, GrantNeedsConsent
<1>2. Base /\ OneRole /\ ConsentInv /\ [Next]_vars => ConsentInv'
  BY NextMoves, NextStirs, NextApproves, ConsentStepInv
<1>3. Base /\ OneRole /\ ConsentInv /\ GrantNeedsConsent /\ [Next]_vars => GrantNeedsConsent'
  <2> SUFFICES ASSUME Base, OneRole, ConsentInv, GrantNeedsConsent, [Next]_vars,
                      NEW e \in Allocated', state'[e].role = "Target",
                      state'[e].bound["Granted"] # None
               PROVE  consent'[idOf'[e]] = "approved"
    BY DEF GrantNeedsConsent
  <2>1. Stirs /\ Approves
    BY NextStirs, NextApproves
  <2>2. /\ e \in Allocated
        /\ \/ state[e].bound["Granted"] # None
           \/ \E t \in Tasks : GrantsNow(t) /\ idOf[e] = task[t].id
    BY <2>1, FreshGranted
  <2>3. idOf'[e] = idOf[e] /\ state[e].role = "Target" /\ idOf[e] \in Ids
    BY <2>1, <2>2, FreshGranted DEF Base, Places, EntriesOK
  <2>4. CASE state[e].bound["Granted"] # None
    BY <2>1, <2>2, <2>3, <2>4 DEF GrantNeedsConsent, Approves
  <2>5. ASSUME NEW t \in Tasks, GrantsNow(t), idOf[e] = task[t].id
        PROVE  consent[idOf[e]] = "approved"
    <3>1. CASE task[t].pc = "send_grant"
      BY <2>5, <3>1 DEF ConsentInv, ConsentOK
    <3>2. CASE task[t].pc = "access" /\ task[t].op = "grant"
      <4>1. state[task[t].ent].role = "Controller"
        BY <3>2 DEF ConsentInv, ConsentOK
      <4>2. task[t].ent \in Allocated /\ idOf[task[t].ent] = task[t].id
        BY <3>2 DEF Base, Places, PlaceOK, AtEntry, Ports
      <4> QED BY <2>2, <2>3, <2>5, <4>1, <4>2 DEF OneRole
    <3> QED BY <2>5, <3>1, <3>2 DEF GrantsNow
  <2> QED BY <2>1, <2>2, <2>3, <2>4, <2>5 DEF Approves
<1> QED BY <1>1, <1>2, <1>3, BaseInvariant, PTL DEF Spec
=============================================================================
