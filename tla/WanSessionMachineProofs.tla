----------------------- MODULE WanSessionMachineProofs -----------------------
(* Proofs about the phase machine of a WAN session, for every set of         *)
(* requests, intents, grants, accesses, keys and deadlines.                  *)
(*                                                                           *)
(* A call of apply leaves the session alone, ends it, or advances it by one  *)
(* phase (ApplyCases). The invariant is preserved by each of the three, and  *)
(* the action properties are read off them.                                  *)
EXTENDS WanSessionMachine, TLAPS

(* IsState as a set of records, which is the form the provers work with. *)
AnyPayload == (UNION {Payloads(k) : k \in EventKinds}) \cup {None}

Shape ==
    [role: Roles, deadline: Nat, key: Keys \cup {None}, phase: Phases,
     bound: [EventKinds -> AnyPayload]]

Typed(st) ==
    /\ st \in Shape
    /\ \A k \in EventKinds : st.bound[k] \in Payloads(k) \cup {None}

(* An event that ends a session is accepted only when it does. *)
EndedOnce == \A k \in TerminalPhases : s.bound[k] # None => Terminal(s)

Inv ==
    /\ Typed(s)
    /\ now \in 0 .. MaxTime
    /\ PhaseChain
    /\ AuthorityChain
    /\ EndedOnce

(* The two ways in which apply changes a session. *)
Ends(st, nst, time) ==
    \E k \in TerminalPhases : \E arg \in Payloads(k) :
        /\ ~Terminal(st)
        /\ time >= st.deadline => k = "Failed"
        /\ nst = Accept(st, Event(k, arg))

Advances(st, nst, kind, arg, time) ==
    /\ ~Terminal(st)
    /\ kind \notin TerminalPhases
    /\ time < st.deadline
    /\ Rank[kind] = Rank[st.phase] + 1
    /\ Permitted(st, Event(kind, arg), time)
    /\ nst = Accept(st, Event(kind, arg))
-----------------------------------------------------------------------------
(* Rank maps the phases to the numbers from 0 to 9. *)
LEMMA RankType == \A p \in Phases : Rank[p] \in 0 .. 9
BY DEF Rank, Phases

(* The phases in the order in which WanSessionPhase declares them. *)
LEMMA RankOrder ==
    /\ Rank["Created"] = 0 /\ Rank["BackendBound"] = 1
    /\ Rank["AwaitingConsent"] = 2 /\ Rank["Granted"] = 3
    /\ Rank["AccessBound"] = 4 /\ Rank["Negotiating"] = 5
    /\ Rank["RelayVerified"] = 6 /\ Rank["Streaming"] = 7
    /\ Rank["Closed"] = 8 /\ Rank["Failed"] = 9
BY DEF Rank

(* No payload of an event is the absent value. *)
LEMMA PayloadPresent ==
    ASSUME NEW kind \in EventKinds, NEW arg \in Payloads(kind)
    PROVE  arg # None /\ arg \in AnyPayload
<1>1. arg # None
  BY PayloadAssumption DEF Payloads
<1>2. arg \in AnyPayload
  BY DEF AnyPayload
<1> QED BY <1>1, <1>2

(* The record set is as good as IsState. *)
LEMMA TypedIsState ==
    ASSUME NEW st, Typed(st)
    PROVE  IsState(st)
<1>1. st = [role |-> st.role, deadline |-> st.deadline, key |-> st.key,
            phase |-> st.phase, bound |-> st.bound]
  BY DEF Typed, Shape
<1>2. st.bound = [k \in EventKinds |-> st.bound[k]]
  BY DEF Typed, Shape
<1> QED BY <1>1, <1>2 DEF Typed, Shape, IsState

(* What Accept does to each field. *)
LEMMA AcceptFields ==
    ASSUME NEW st, Typed(st), NEW kind \in EventKinds, NEW arg \in Payloads(kind),
           NEW nst, nst = Accept(st, Event(kind, arg))
    PROVE  /\ nst.role = st.role /\ nst.deadline = st.deadline
           /\ nst.key = st.key /\ nst.phase = kind
           /\ nst.bound[kind] = arg
           /\ \A k \in EventKinds \ {kind} : nst.bound[k] = st.bound[k]
           /\ Typed(nst)
<1> DEFINE b == [st.bound EXCEPT ![kind] = arg]
<1>1. nst = [st EXCEPT !.phase = kind, !.bound = b]
  BY DEF Accept, Event
<1>2. /\ b \in [EventKinds -> AnyPayload]
      /\ b[kind] = arg
      /\ \A k \in EventKinds \ {kind} : b[k] = st.bound[k]
  BY PayloadPresent DEF Typed, Shape
<1> HIDE DEF b
<1>3. st \in Shape
  BY DEF Typed
<1>4. kind \in Phases
  BY DEF EventKinds
<1>5. nst \in Shape
  BY <1>1, <1>2, <1>3, <1>4, Zenon DEF Shape
<1>6. /\ nst.role = st.role /\ nst.deadline = st.deadline
      /\ nst.key = st.key /\ nst.phase = kind /\ nst.bound = b
  BY <1>1, <1>3 DEF Shape
<1>7. \A k \in EventKinds : nst.bound[k] \in Payloads(k) \cup {None}
  BY <1>2, <1>6 DEF Typed
<1> QED BY <1>2, <1>5, <1>6, <1>7 DEF Typed

(* The early returns of apply, sorted into three cases. *)
LEMMA ApplyCases ==
    ASSUME NEW st, Typed(st), NEW kind \in EventKinds, NEW arg \in Payloads(kind),
           NEW time \in Nat, NEW nst, nst = Apply(st, Event(kind, arg), time)
    PROVE  \/ nst = st
           \/ Ends(st, nst, time)
           \/ Advances(st, nst, kind, arg, time)
<1> DEFINE ev == Event(kind, arg)
           result == Outcome(st, ev, time)
<1>0. ev.kind = kind /\ ev.arg = arg /\ ev = Event(kind, arg)
  BY DEF Event
<1>1. result \in {"Duplicate", "Terminal", "Applied"} \cup Failures
  BY DEF Outcome, SemanticFailure, Failures
<1>2. CASE result \in {"Duplicate", "Terminal"}
  BY <1>2 DEF Apply
<1>3. CASE result = "Applied"
  <2>1. nst = Accept(st, ev)
    BY <1>3 DEF Apply
  <2>2. ~Terminal(st) /\ time < st.deadline
    BY <1>3 DEF Outcome, Typed, Shape
  <2>3. CASE kind \in TerminalPhases
    BY <2>1, <2>2, <2>3 DEF Ends, Typed, Shape
  <2>4. CASE kind \notin TerminalPhases
    <3>1. Rank[kind] = Rank[st.phase] + 1 /\ Permitted(st, ev, time)
      BY <1>0, <1>3, <2>4 DEF Outcome, SemanticFailure
    <3> QED BY <2>1, <2>2, <2>4, <3>1 DEF Advances
  <2> QED BY <2>3, <2>4
<1>4. CASE result \in Failures
  <2>1. nst = Accept(st, Event("Failed", result))
    BY <1>4 DEF Apply, FailWith, Failures
  <2>2. ~Terminal(st)
    BY <1>4 DEF Outcome, Failures
  <2>3. result \in Payloads("Failed") /\ "Failed" \in TerminalPhases
    BY <1>4 DEF Payloads, TerminalPhases
  <2> QED BY <2>1, <2>2, <2>3 DEF Ends
<1> QED BY <1>1, <1>2, <1>3, <1>4
-----------------------------------------------------------------------------
(* A new session (WanSessionState::new) satisfies the invariant. *)
LEMMA InitInv == Init => Inv
<1> SUFFICES ASSUME Init PROVE Inv
  OBVIOUS
<1>1. PICK role \in Roles, deadline \in Deadlines, key \in Keys :
        s = NewState(role, deadline, IF role = "Target" THEN key ELSE None)
  BY DEF Init
<1>2. /\ s.phase = "Created" /\ s.role \in Roles /\ s.deadline \in Nat
      /\ s.key \in Keys \cup {None} /\ s.bound = [k \in EventKinds |-> None]
      /\ s \in Shape
  <2>1. deadline \in Nat
    BY MachineAssumption
  <2>2. [k \in EventKinds |-> None] \in [EventKinds -> AnyPayload]
    BY DEF AnyPayload
  <2> QED BY <1>1, <2>1, <2>2 DEF NewState, Shape, Phases
<1>3. \A k \in EventKinds : s.bound[k] = None
  BY <1>2
<1>4. Typed(s)
  BY <1>2, <1>3 DEF Typed
<1>5. now \in 0 .. MaxTime
  BY MachineAssumption DEF Init
<1>6. PhaseChain
  <2>1. \A k \in EventKinds : Rank[k] > 0
    BY RankOrder DEF EventKinds, Phases
  <2> QED BY <1>2, <1>3, <2>1, RankOrder, RankType DEF PhaseChain, EventKinds
<1>7. AuthorityChain
  BY <1>3 DEF AuthorityChain, EventKinds, Phases
<1>8. EndedOnce
  BY <1>3 DEF EndedOnce, EventKinds, Phases, TerminalPhases
<1> QED BY <1>4, <1>5, <1>6, <1>7, <1>8 DEF Inv

(* A terminal event is added to the bindings of a live session. *)
LEMMA EndsInv ==
    ASSUME Inv, Ends(s, s', now), now' = now
    PROVE  Inv'
<1>0. PICK k \in TerminalPhases : \E arg \in Payloads(k) :
        ~Terminal(s) /\ s' = Accept(s, Event(k, arg))
  BY DEF Ends
<1>1. PICK arg \in Payloads(k) :
        ~Terminal(s) /\ s' = Accept(s, Event(k, arg))
  BY <1>0
<1>2. k \in EventKinds /\ k \in {"Closed", "Failed"}
  BY DEF EventKinds, TerminalPhases, Phases
<1>3. /\ s'.deadline = s.deadline /\ s'.phase = k
      /\ s'.bound[k] = arg
      /\ \A j \in EventKinds \ {k} : s'.bound[j] = s.bound[j]
      /\ Typed(s')
  BY <1>1, <1>2, AcceptFields DEF Inv
<1>4. arg # None
  BY <1>1, <1>2, PayloadPresent
<1>5. Terminal(s')
  BY <1>3 DEF Terminal
<1>6. PhaseChain'
  BY <1>2, <1>3, <1>4, <1>5 DEF Inv, PhaseChain
<1>7. AuthorityChain'
  BY <1>2, <1>3 DEF Inv, AuthorityChain, EventKinds, Phases
<1>8. EndedOnce'
  BY <1>5 DEF EndedOnce
<1> QED BY <1>3, <1>6, <1>7, <1>8 DEF Inv

(* Of a live session, what is not bound yet is what lies ahead. *)
LEMMA LiveBound ==
    ASSUME Inv, ~Terminal(s), NEW k \in EventKinds
    PROVE  s.bound[k] # None <=> Rank[k] <= Rank[s.phase]
<1>1. CASE k \in TerminalPhases
  <2>1. s.bound[k] = None
    BY <1>1 DEF Inv, EndedOnce
  <2>2. s.phase \in Phases \ TerminalPhases
    BY DEF Inv, Typed, Shape, Terminal
  <2>3. Rank[k] > Rank[s.phase]
    BY <1>1, <2>2, RankOrder DEF TerminalPhases, Phases
  <2>4. Rank[k] \in Nat /\ Rank[s.phase] \in Nat
    BY <2>2, RankType DEF EventKinds
  <2> QED BY <2>1, <2>3, <2>4
<1>2. CASE k \notin TerminalPhases
  BY <1>2 DEF Inv, PhaseChain
<1> QED BY <1>1, <1>2

(* The next phase of a live session is bound to what the code has checked. *)
LEMMA AdvancesInv ==
    ASSUME Inv, NEW kind \in EventKinds, NEW arg \in Payloads(kind),
           Advances(s, s', kind, arg, now), now' = now
    PROVE  Inv' /\ s.bound[kind] = None
<1>1. /\ s'.deadline = s.deadline /\ s'.phase = kind
      /\ s'.bound[kind] = arg
      /\ \A j \in EventKinds \ {kind} : s'.bound[j] = s.bound[j]
      /\ Typed(s')
  BY AcceptFields DEF Advances, Inv
<1>2. /\ ~Terminal(s) /\ kind \notin TerminalPhases
      /\ Rank[kind] = Rank[s.phase] + 1
      /\ s.phase \in Phases
  BY DEF Advances, Inv, Typed, Shape
<1>3. \A k \in EventKinds : Rank[k] \in Nat
  BY RankType DEF EventKinds
<1>4. Rank[s.phase] \in Nat
  BY <1>2, RankType
<1>5. \A k \in EventKinds : s.bound[k] # None <=> Rank[k] <= Rank[s.phase]
  BY <1>2, LiveBound
<1>6. s.bound[kind] = None
  BY <1>2, <1>3, <1>4, <1>5
<1>7. \A k \in EventKinds : Rank[k] = Rank[kind] => k = kind
  BY RankOrder DEF EventKinds, Phases
<1>8. arg # None
  BY PayloadPresent
<1>9. \A k \in EventKinds : s'.bound[k] # None <=> Rank[k] <= Rank[kind]
  <2> SUFFICES ASSUME NEW k \in EventKinds
               PROVE  s'.bound[k] # None <=> Rank[k] <= Rank[kind]
    OBVIOUS
  <2>1. CASE k = kind
    BY <1>1, <1>3, <1>8, <2>1
  <2>2. CASE k # kind
    <3>1. Rank[k] # Rank[kind]
      BY <1>7, <2>2
    <3> QED BY <1>1, <1>2, <1>3, <1>4, <1>5, <2>2, <3>1
  <2> QED BY <2>1, <2>2
<1>10. PhaseChain'
  <2>1. ~Terminal(s')
    BY <1>1, <1>2 DEF Terminal
  <2>2. Rank[kind] \in Nat
    BY <1>3
  <2>3. ASSUME NEW k \in EventKinds, s'.bound[k] # None,
               NEW j \in EventKinds, Rank[j] < Rank[k]
        PROVE  s'.bound[j] # None
    BY <1>3, <1>9, <2>2, <2>3
  <2> QED BY <1>1, <1>9, <2>1, <2>3 DEF PhaseChain
<1>11. EndedOnce'
  BY <1>1, <1>2 DEF Inv, EndedOnce, Terminal, EventKinds, TerminalPhases, Phases
<1>12. AuthorityChain'
  <2> DEFINE ev == Event(kind, arg)
  <2>1. ev.kind = kind /\ ev.arg = arg /\ Permitted(s, ev, now)
    BY DEF Event, Advances
  <2>2. /\ \A j \in EventKinds : j # kind => s'.bound[j] = s.bound[j]
        /\ "BackendBound" \in EventKinds /\ "Granted" \in EventKinds
        /\ "AccessBound" \in EventKinds /\ "RelayVerified" \in EventKinds
        /\ "Streaming" \in EventKinds
    BY <1>1 DEF EventKinds, Phases
  <2>3. \/ kind = "BackendBound" /\ s.bound["Granted"] = None
        \/ kind = "Granted" /\ s.bound["AccessBound"] = None
        \/ kind = "AccessBound" /\ s.bound["RelayVerified"] = None
        \/ kind = "RelayVerified" /\ s.bound["Streaming"] = None
        \/ kind = "Streaming"
        \/ kind \in {"AwaitingConsent", "Negotiating"}
    BY <1>2, <1>4, <1>5, <2>2, RankOrder DEF EventKinds, Phases, TerminalPhases
  <2>4. \A k \in EventKinds : s.bound[k] # None =>
          \A j \in EventKinds : Rank[j] <= Rank[k] => s.bound[j] # None
    BY <1>3, <1>4, <1>5
  <2>5. AuthorityChain
    BY DEF Inv
  <2>6. CASE kind = "BackendBound"
    <3>1. /\ s.bound["Granted"] = None /\ s.bound["AccessBound"] = None
          /\ s.bound["RelayVerified"] = None /\ s.bound["Streaming"] = None
      BY <2>2, <2>3, <2>4, <2>6, RankOrder
    <3> QED BY <2>2, <2>6, <3>1 DEF AuthorityChain
  <2>7. CASE kind = "Granted"
    <3>1. /\ s.bound["BackendBound"] = arg.request
          /\ arg.expires <= s.deadline
      BY <2>1, <2>7 DEF Permitted
    <3>2. arg \in Grants
      BY <2>7 DEF Payloads
    <3>3. arg.expires <= arg.policyExpires
      BY <3>2, PayloadAssumption DEF IsGrant
    <3>4. /\ s.bound["AccessBound"] = None
          /\ s.bound["RelayVerified"] = None /\ s.bound["Streaming"] = None
      BY <2>2, <2>3, <2>4, <2>7, RankOrder
    <3> QED BY <1>1, <2>2, <2>7, <3>1, <3>3, <3>4 DEF AuthorityChain
  <2>8. CASE kind = "AccessBound"
    <3>1. s.bound["Granted"].revision = arg.revision
      BY <2>1, <2>8 DEF Permitted
    <3>2. s.bound["RelayVerified"] = None /\ s.bound["Streaming"] = None
      BY <2>2, <2>3, <2>4, <2>8, RankOrder
    <3> QED BY <1>1, <2>2, <2>5, <2>8, <3>1, <3>2 DEF AuthorityChain
  <2>9. CASE kind = "RelayVerified"
    <3>1. /\ s.bound["Granted"].route = arg.route
          /\ arg.route = "DirectFirst" \/ arg.relayed
          /\ s.bound["AccessBound"] = arg.access
      BY <2>1, <2>9 DEF Permitted
    <3> QED BY <1>1, <1>8, <2>2, <2>5, <2>9, <3>1 DEF AuthorityChain
  <2>10. CASE kind = "Streaming"
    <3>1. s.bound["RelayVerified"] # None
      BY <2>1, <2>10 DEF Permitted
    <3> QED BY <1>1, <2>2, <2>5, <2>10, <3>1 DEF AuthorityChain
  <2>11. CASE kind \in {"AwaitingConsent", "Negotiating"}
    BY <1>1, <2>2, <2>5, <2>11 DEF AuthorityChain
  <2> QED BY <2>3, <2>6, <2>7, <2>8, <2>9, <2>10, <2>11
<1> QED BY <1>1, <1>6, <1>10, <1>11, <1>12 DEF Inv

(* Binding the target's key touches neither the phase nor what is bound. *)
LEMMA BindKeyInv ==
    ASSUME Inv, NEW key \in Keys, BindTargetKey(key)
    PROVE  /\ Inv'
           /\ s'.phase = s.phase /\ s'.bound = s.bound
           /\ s.key # None => s'.key = s.key
<1>1. s \in Shape
  BY DEF Inv, Typed
<1>2. /\ s'.role = s.role /\ s'.deadline = s.deadline /\ s'.phase = s.phase
      /\ s'.bound = s.bound /\ s'.key = key
  BY <1>1 DEF BindTargetKey, BindKey, Shape
<1>3. s' \in Shape
  BY <1>1 DEF BindTargetKey, BindKey, Shape
<1>4. Typed(s') /\ PhaseChain' /\ AuthorityChain' /\ EndedOnce'
  BY <1>2, <1>3 DEF Inv, Typed, PhaseChain, AuthorityChain, EndedOnce, Terminal
<1>5. now' \in 0 .. MaxTime
  BY DEF Inv, BindTargetKey
<1>6. s.key # None => s'.key = s.key
  BY <1>2 DEF BindTargetKey, CanBindKey
<1> QED BY <1>2, <1>4, <1>5, <1>6 DEF Inv

(* What one step does: nothing, the end of the session, its next phase, the  *)
(* target's key, or the passing of time.                                     *)
LEMMA StepCases ==
    ASSUME Inv, [Next]_vars
    PROVE  \/ s' = s /\ now' \in 0 .. MaxTime
           \/ Ends(s, s', now) /\ now' = now
           \/ \E kind \in EventKinds : \E arg \in Payloads(kind) :
                 Advances(s, s', kind, arg, now) /\ now' = now
           \/ \E key \in Keys : BindTargetKey(key)
<1>1. ASSUME NEW kind \in EventKinds, NEW arg \in Payloads(kind),
             ApplyEvent(kind, arg)
      PROVE  /\ now' = now
             /\ \/ s' = s
                \/ Ends(s, s', now)
                \/ Advances(s, s', kind, arg, now)
  <2>1. now \in Nat /\ Typed(s)
    BY MachineAssumption DEF Inv
  <2> QED BY <1>1, <2>1, ApplyCases DEF ApplyEvent
<1>2. ASSUME Tick
      PROVE  s' = s /\ now' \in 0 .. MaxTime
  BY <1>2, MachineAssumption DEF Tick, Inv
<1>3. CASE UNCHANGED vars
  BY <1>3 DEF vars, Inv
<1>4. CASE Next
  BY <1>1, <1>2, <1>4 DEF Next, Inv
<1> QED BY <1>3, <1>4

(* Every step preserves the invariant. *)
LEMMA StepInv == Inv /\ [Next]_vars => Inv'
<1> SUFFICES ASSUME Inv, [Next]_vars PROVE Inv'
  OBVIOUS
<1>1. CASE s' = s /\ now' \in 0 .. MaxTime
  BY <1>1 DEF Inv, PhaseChain, AuthorityChain, EndedOnce
<1>2. CASE Ends(s, s', now) /\ now' = now
  BY <1>2, EndsInv
<1>3. CASE \E kind \in EventKinds : \E arg \in Payloads(kind) :
             Advances(s, s', kind, arg, now) /\ now' = now
  BY <1>3, AdvancesInv
<1>4. CASE \E key \in Keys : BindTargetKey(key)
  BY <1>4, BindKeyInv
<1> QED BY <1>1, <1>2, <1>3, <1>4, StepCases

(* The inductive invariant holds in every reachable state. *)
THEOREM Invariance == Spec => []Inv
BY InitInv, StepInv, PTL DEF Spec
-----------------------------------------------------------------------------
(* Every event of every kind leaves a well-formed session state. *)
THEOREM TypeCorrect == Spec => []TypeOK
<1>1. Inv => TypeOK
  BY TypedIsState DEF Inv, TypeOK
<1> QED BY <1>1, Invariance, PTL

(* apply never skips a phase: what is bound is what the phase stands for. *)
THEOREM PhasesInOrder == Spec => []PhaseChain
<1>1. Inv => PhaseChain
  BY DEF Inv
<1> QED BY <1>1, Invariance, PTL

(* The grant, the relay access and the proven route of a session belong      *)
(* together, for every grant a backend may issue and every order of events.  *)
THEOREM AuthorityHolds == Spec => []AuthorityChain
<1>1. Inv => AuthorityChain
  BY DEF Inv
<1> QED BY <1>1, Invariance, PTL

(* No sequence of calls of apply and bind_controller_target_key rebinds what *)
(* has been bound.                                                           *)
THEOREM BoundForGood == Spec => BoundOnce
<1> DEFINE Keeps == /\ \A k \in EventKinds : s.bound[k] # None => s'.bound[k] = s.bound[k]
                    /\ s.key # None => s'.key = s.key
<1>1. ASSUME Inv, [Next]_vars
      PROVE  Keeps
  <2>1. CASE s' = s
    BY <2>1
  <2>2. CASE Ends(s, s', now)
    <3>0. PICK k \in TerminalPhases : \E arg \in Payloads(k) :
            ~Terminal(s) /\ s' = Accept(s, Event(k, arg))
      BY <2>2 DEF Ends
    <3>1. PICK arg \in Payloads(k) : s' = Accept(s, Event(k, arg))
      BY <3>0
    <3>2. k \in EventKinds
      BY DEF EventKinds, TerminalPhases, Phases
    <3>3. /\ s'.key = s.key
          /\ \A j \in EventKinds \ {k} : s'.bound[j] = s.bound[j]
      BY <1>1, <3>1, <3>2, AcceptFields DEF Inv
    <3>4. s.bound[k] = None
      BY <1>1, <3>0 DEF Inv, EndedOnce
    <3> QED BY <3>3, <3>4
  <2>3. ASSUME NEW kind \in EventKinds, NEW arg \in Payloads(kind),
               Advances(s, s', kind, arg, now), now' = now
        PROVE  Keeps
    <3>1. s.bound[kind] = None
      BY <1>1, <2>3, AdvancesInv
    <3>2. /\ s'.key = s.key
          /\ \A j \in EventKinds \ {kind} : s'.bound[j] = s.bound[j]
      BY <1>1, <2>3, AcceptFields DEF Inv, Advances
    <3> QED BY <3>1, <3>2
  <2>4. ASSUME NEW key \in Keys, BindTargetKey(key)
        PROVE  Keeps
    BY <1>1, <2>4, BindKeyInv
  <2> QED BY <1>1, <2>1, <2>2, <2>3, <2>4, StepCases
<1>2. Inv /\ [Next]_vars => [Keeps]_vars
  BY <1>1
<1>3. Spec => [][Keeps]_vars
  BY <1>2, Invariance, PTL DEF Spec
<1> QED BY <1>3 DEF BoundOnce

(* Nothing changes a session after it was closed or has failed. *)
THEOREM NothingAfterTheEnd == Spec => TerminalIsFinal
<1>1. ASSUME Inv, [Next]_vars, Terminal(s)
      PROVE  s' = s
  <2>1. ~Ends(s, s', now)
    BY <1>1 DEF Ends
  <2>2. ASSUME NEW key \in Keys, BindTargetKey(key)
        PROVE  FALSE
    BY <1>1, <2>2 DEF BindTargetKey, CanBindKey, Terminal, TerminalPhases
  <2> QED BY <1>1, <2>1, <2>2, StepCases DEF Advances
<1>2. Inv /\ [Next]_vars => [Terminal(s) => s' = s]_vars
  BY <1>1
<1>3. Spec => [][Terminal(s) => s' = s]_vars
  BY <1>2, Invariance, PTL DEF Spec
<1> QED BY <1>3 DEF TerminalIsFinal

(* Past its deadline a session can only fail. *)
THEOREM OnlyFailurePastDeadline == Spec => NoProgressPastDeadline
<1> DEFINE Late == now >= s.deadline => s'.phase \in {s.phase, "Failed"}
<1>1. ASSUME Inv, [Next]_vars, now >= s.deadline
      PROVE  s'.phase \in {s.phase, "Failed"}
  <2>1. now \in Nat /\ s.deadline \in Nat
    BY <1>1, MachineAssumption DEF Inv, Typed, Shape
  <2>2. CASE Ends(s, s', now)
    <3>1. PICK arg \in Payloads("Failed") : s' = Accept(s, Event("Failed", arg))
      BY <1>1, <2>2 DEF Ends
    <3> QED BY <1>1, <3>1, AcceptFields DEF Inv, EventKinds, Phases
  <2>3. ASSUME NEW key \in Keys, BindTargetKey(key)
        PROVE  s'.phase = s.phase
    BY <1>1, <2>3, BindKeyInv
  <2> QED BY <1>1, <2>1, <2>2, <2>3, StepCases DEF Advances
<1>2. Inv /\ [Next]_vars => [Late]_vars
  BY <1>1
<1>3. Spec => [][Late]_vars
  BY <1>2, Invariance, PTL DEF Spec
<1> QED BY <1>3 DEF NoProgressPastDeadline
=============================================================================
