------------------------- MODULE ControlInputProofs -------------------------
(***************************************************************************)
(* The holder counts, the physical state and the release loops of          *)
(* ControlInput, for every finite set of sessions and every set of keys    *)
(* and buttons; and that the registry implements HeldInputs.               *)
(***************************************************************************)
EXTENDS ControlInput, FiniteSetTheorems, TLAPS

\* The sessions that hold input i.
HoldersOf(i) == {s \in Sessions : i \in pressed[s]}

IInv == TypeOK /\ CountsExact /\ DownIffHeld /\ SweepClears

\* A set of sessions is finite, so its cardinality is a natural number, zero
\* only for the empty set, and one only for a singleton.
LEMMA HolderCount ==
  ASSUME NEW A \in SUBSET Sessions
  PROVE  /\ IsFiniteSet(A)
         /\ Cardinality(A) \in Nat
         /\ Cardinality(A) = 0 <=> A = {}
         /\ Cardinality(A) = 1 <=> \E s \in A : A = {s}
         /\ \A s \in Sessions \ A : Cardinality(A \cup {s}) = Cardinality(A) + 1
         /\ \A s \in A : Cardinality(A \ {s}) = Cardinality(A) - 1
<1>1. IsFiniteSet(A)
  BY SessionsFinite, FS_Subset
<1>2. Cardinality(A) \in Nat /\ (Cardinality(A) = 0 <=> A = {})
  BY <1>1, FS_CardinalityType, FS_EmptySet
<1>3. Cardinality(A) = 1 <=> \E s \in A : A = {s}
  BY <1>1, FS_Singleton
<1>4. \A s \in Sessions \ A : Cardinality(A \cup {s}) = Cardinality(A) + 1
  BY <1>1, FS_AddElement
<1>5. \A s \in A : Cardinality(A \ {s}) = Cardinality(A) - 1
  BY <1>1, FS_RemoveElement
<1> QED
  BY <1>1, <1>2, <1>3, <1>4, <1>5

\* In a state whose counts and physical state are exact, an input is down
\* exactly when its count is positive, and whoever holds an input with one
\* holder is that holder.
LEMMA CountsMean ==
  ASSUME TypeOK, CountsExact, DownIffHeld, NEW i \in Inputs
  PROVE  /\ i \in down <=> holders[i] # 0
         /\ \A s \in Sessions : i \in pressed[s] =>
              /\ holders[i] \in Nat \ {0}
              /\ holders[i] = 1 <=> \A p \in Sessions : i \in pressed[p] => p = s
<1>1. HoldersOf(i) \in SUBSET Sessions
  BY DEF HoldersOf
<1>2. holders[i] = Cardinality(HoldersOf(i))
  BY DEF CountsExact, HoldersOf
<1>3. i \in down <=> HoldersOf(i) # {}
  BY DEF DownIffHeld, HoldersOf
<1>4. i \in down <=> holders[i] # 0
  BY <1>1, <1>2, <1>3, HolderCount
<1>5. ASSUME NEW s \in Sessions, i \in pressed[s]
      PROVE  /\ holders[i] \in Nat \ {0}
             /\ holders[i] = 1 <=> \A p \in Sessions : i \in pressed[p] => p = s
  <2>1. s \in HoldersOf(i)
    BY <1>5 DEF HoldersOf
  <2>2. holders[i] \in Nat \ {0}
    BY <1>1, <1>2, <2>1, HolderCount
  <2>3. holders[i] = 1 <=> \E p \in HoldersOf(i) : HoldersOf(i) = {p}
    BY <1>1, <1>2, HolderCount
  <2>4. (\E p \in HoldersOf(i) : HoldersOf(i) = {p}) <=> HoldersOf(i) = {s}
    BY <2>1
  <2>5. HoldersOf(i) = {s} <=> \A p \in Sessions : i \in pressed[p] => p = s
    BY <2>1 DEF HoldersOf
  <2> QED
    BY <2>2, <2>3, <2>4, <2>5
<1> QED
  BY <1>4, <1>5

\* Pressing keeps the counts and the physical state exact.
LEMMA PressExact ==
  ASSUME TypeOK, CountsExact, DownIffHeld,
         NEW s \in Sessions, NEW i \in Inputs, Press(s, i)
  PROVE  /\ pressed' \in [Sessions -> SUBSET Inputs]
         /\ holders' \in [Inputs -> Nat]
         /\ down' \in SUBSET Inputs
         /\ CountsExact'
         /\ DownIffHeld'
<1>1. pressed' \in [Sessions -> SUBSET Inputs]
  BY DEF TypeOK, Press
<1>2. holders' \in [Inputs -> Nat]
  BY DEF TypeOK, Press
<1>3. down' = down \cup {i}
  <2>1. CASE holders[i] = 0
    BY <2>1 DEF Press
  <2>2. CASE holders[i] # 0
    BY <2>2, CountsMean DEF Press
  <2> QED
    BY <2>1, <2>2
<1>4. ASSUME NEW j \in Inputs
      PROVE  holders'[j] = Cardinality({p \in Sessions : j \in pressed'[p]})
  <2>1. holders[j] = Cardinality(HoldersOf(j)) /\ HoldersOf(j) \in SUBSET Sessions
    BY DEF CountsExact, HoldersOf
  <2>2. CASE j = i
    <3>1. {p \in Sessions : j \in pressed'[p]} = HoldersOf(j) \cup {s}
      BY <2>2 DEF TypeOK, Press, HoldersOf
    <3>2. s \in Sessions \ HoldersOf(j)
      BY <2>2 DEF Press, HoldersOf
    <3>3. holders'[j] = holders[j] + 1
      BY <2>2 DEF TypeOK, Press
    <3> QED
      BY <2>1, <3>1, <3>2, <3>3, HolderCount
  <2>3. CASE j # i
    <3>1. {p \in Sessions : j \in pressed'[p]} = HoldersOf(j)
      BY <2>3 DEF TypeOK, Press, HoldersOf
    <3>2. holders'[j] = holders[j]
      BY <2>3 DEF TypeOK, Press
    <3> QED
      BY <2>1, <3>1, <3>2
  <2> QED
    BY <2>2, <2>3
<1>5. DownIffHeld'
  <2>1. UNION {pressed'[p] : p \in Sessions} = (UNION {pressed[p] : p \in Sessions}) \cup {i}
    BY DEF TypeOK, Press
  <2> QED
    BY <1>3, <2>1 DEF DownIffHeld
<1> QED
  BY <1>1, <1>2, <1>3, <1>4, <1>5 DEF CountsExact, TypeOK

\* Letting go of any part of what a session holds keeps them exact, and lifts
\* precisely what nobody holds any more.
LEMMA LetGoExact ==
  ASSUME TypeOK, CountsExact, DownIffHeld,
         NEW s \in Sessions, NEW R \in SUBSET pressed[s], LetGo(s, R)
  PROVE  /\ pressed' \in [Sessions -> SUBSET Inputs]
         /\ holders' \in [Inputs -> Nat]
         /\ down' \in SUBSET Inputs
         /\ CountsExact'
         /\ DownIffHeld'
         /\ down' = {i \in down : \E p \in Sessions : i \in pressed'[p]}
<1>1. pressed' \in [Sessions -> SUBSET Inputs]
  BY DEF TypeOK, LetGo
<1>2. R \in SUBSET Inputs
  BY DEF TypeOK
<1>3. ASSUME NEW j \in Inputs
      PROVE  /\ holders'[j] \in Nat
             /\ holders'[j] = Cardinality({p \in Sessions : j \in pressed'[p]})
  <2>1. /\ holders[j] = Cardinality(HoldersOf(j))
        /\ HoldersOf(j) \in SUBSET Sessions
        /\ holders[j] \in Nat
    BY DEF CountsExact, HoldersOf, TypeOK
  <2>2. CASE j \in R
    <3>1. {p \in Sessions : j \in pressed'[p]} = HoldersOf(j) \ {s}
      BY <2>2 DEF TypeOK, LetGo, HoldersOf
    <3>2. s \in HoldersOf(j)
      BY <2>2 DEF HoldersOf
    <3>3. holders'[j] = holders[j] - 1
      BY <2>2 DEF LetGo
    <3>4. holders[j] # 0
      BY <2>1, <3>2, HolderCount
    <3> QED
      BY <2>1, <3>1, <3>2, <3>3, <3>4, HolderCount
  <2>3. CASE j \notin R
    <3>1. {p \in Sessions : j \in pressed'[p]} = HoldersOf(j)
      BY <2>3 DEF TypeOK, LetGo, HoldersOf
    <3>2. holders'[j] = holders[j]
      BY <2>3 DEF LetGo
    <3> QED
      BY <2>1, <3>1, <3>2
  <2> QED
    BY <2>2, <2>3
<1>4. ASSUME NEW j \in Inputs
      PROVE  j \in down' <=> \E p \in Sessions : j \in pressed'[p]
  <2>1. CASE j \in R
    <3>1. j \in pressed[s]
      BY <2>1
    <3>2. j \in down
      BY <3>1 DEF DownIffHeld
    <3>3. j \in down' <=> holders[j] # 1
      BY <2>1, <3>2 DEF LetGo
    <3>4. (\E p \in Sessions : j \in pressed'[p]) <=> \E p \in Sessions : p # s /\ j \in pressed[p]
      BY <2>1 DEF LetGo, TypeOK
    <3>5. holders[j] = 1 <=> \A p \in Sessions : j \in pressed[p] => p = s
      BY <3>1, CountsMean
    <3> QED
      BY <3>3, <3>4, <3>5
  <2>2. CASE j \notin R
    <3>1. j \in down' <=> j \in down
      BY <2>2 DEF LetGo
    <3>2. (\E p \in Sessions : j \in pressed'[p]) <=> \E p \in Sessions : j \in pressed[p]
      BY <2>2 DEF LetGo, TypeOK
    <3> QED
      BY <3>1, <3>2 DEF DownIffHeld
  <2> QED
    BY <2>1, <2>2
<1>5. down' \in SUBSET down /\ down' \in SUBSET Inputs
  BY DEF LetGo, TypeOK
<1>6. holders' \in [Inputs -> Nat]
  BY <1>3 DEF LetGo
<1>7. CountsExact'
  BY <1>3 DEF CountsExact
<1>8. DownIffHeld'
  BY <1>1, <1>4, <1>5 DEF DownIffHeld
<1>9. down' = {i \in down : \E p \in Sessions : i \in pressed'[p]}
  BY <1>4, <1>5 DEF TypeOK
<1> QED
  BY <1>1, <1>5, <1>6, <1>7, <1>8, <1>9

\* What a release of both scopes does: it lets go of some part of what the
\* session holds, of all of it when it reports success.
LEMMA ReleaseAllMeans ==
  ASSUME TypeOK, NEW s \in Sessions, NEW ok \in BOOLEAN, ReleaseAll(s, ok)
  PROVE  /\ \E R \in SUBSET pressed[s] : LetGo(s, R)
         /\ ok => pressed'[s] = {}
         /\ \A p \in Sessions : p # s => pressed'[p] = pressed[p]
         /\ lastMove' \in [Sessions -> Points \cup {NoPoint}]
         /\ lastMove'[s] = NoPoint
         /\ \A p \in Sessions : p # s => lastMove'[p] = lastMove[p]
<1>1. \E R \in SUBSET pressed[s] : LetGo(s, R)
  BY DEF ReleaseAll
<1>2. ok => pressed'[s] = {}
  BY DEF ReleaseAll, LetGo, TypeOK
<1>3. \A p \in Sessions : p # s => pressed'[p] = pressed[p]
  BY <1>1 DEF LetGo, TypeOK
<1>4. /\ lastMove' \in [Sessions -> Points \cup {NoPoint}]
      /\ lastMove'[s] = NoPoint
      /\ \A p \in Sessions : p # s => lastMove'[p] = lastMove[p]
  BY DEF ReleaseAll, TypeOK
<1> QED
  BY <1>1, <1>2, <1>3, <1>4

-----------------------------------------------------------------------------
LEMMA InitIInv == Init => IInv
<1> SUFFICES ASSUME Init PROVE IInv
  OBVIOUS
<1>1. TypeOK
  BY DEF Init, TypeOK, Idle, Attempts
<1>2. CountsExact
  <2> SUFFICES ASSUME NEW i \in Inputs
               PROVE  holders[i] = Cardinality({s \in Sessions : i \in pressed[s]})
    BY DEF CountsExact
  <2>1. {s \in Sessions : i \in pressed[s]} = {}
    BY DEF Init
  <2> QED
    BY <2>1, FS_EmptySet DEF Init
<1>3. DownIffHeld
  BY DEF Init, DownIffHeld
<1>4. SweepClears
  BY DEF Init, SweepClears, Idle
<1> QED
  BY <1>1, <1>2, <1>3, <1>4 DEF IInv

\* One step of the registry preserves the inductive invariant.
LEMMA NextIInv == IInv /\ [Next]_vars => IInv'
<1> SUFFICES ASSUME IInv, [Next]_vars PROVE IInv'
  OBVIOUS
<1> USE DEF IInv
<1>1. ASSUME NEW s \in Sessions, NEW i \in Inputs, KeyDown(s, i) PROVE IInv'
  <2>1. Press(s, i) /\ UNCHANGED <<frozen, lastMove, sweep>> /\ Free
    BY <1>1 DEF KeyDown, Admitted
  <2>2. SweepClears'
    BY <2>1 DEF Free, Idle, SweepClears
  <2> QED
    BY <2>1, <2>2, PressExact DEF TypeOK
<1>2. ASSUME NEW s \in Sessions, NEW i \in Inputs, KeyUp(s, i) PROVE IInv'
  <2>1. LetGo(s, {i}) /\ {i} \in SUBSET pressed[s] /\ UNCHANGED <<frozen, lastMove, sweep>> /\ Free
    BY <1>2 DEF KeyUp, Admitted
  <2>2. SweepClears'
    BY <2>1 DEF Free, Idle, SweepClears
  <2> QED
    BY <2>1, <2>2, LetGoExact DEF TypeOK
<1>3. ASSUME NEW s \in Sessions, NEW p \in Points, Move(s, p) PROVE IInv'
  <2>1. TypeOK'
    BY <1>3 DEF Move, TypeOK
  <2>2. CountsExact' /\ DownIffHeld'
    BY <1>3 DEF Move, CountsExact, DownIffHeld
  <2>3. SweepClears'
    BY <1>3 DEF Move, Admitted, Free, Idle, SweepClears
  <2> QED
    BY <2>1, <2>2, <2>3
<1>4. ASSUME NEW s \in Sessions, ReleaseEvent(s) PROVE IInv'
  <2>1. PICK R \in SUBSET pressed[s] : LetGo(s, R)
    BY <1>4 DEF ReleaseEvent, ReleaseAll, ReleaseScope
  <2>2. lastMove' \in [Sessions -> Points \cup {NoPoint}] /\ UNCHANGED <<frozen, sweep>> /\ Free
    BY <1>4 DEF ReleaseEvent, ReleaseAll, ReleaseScope, TypeOK
  <2>3. SweepClears'
    BY <2>2 DEF Free, Idle, SweepClears
  <2> QED
    BY <2>1, <2>2, <2>3, LetGoExact DEF TypeOK
<1>5. ASSUME NEW s \in Sessions, Freeze(s) PROVE IInv'
  <2>1. PICK ok \in BOOLEAN : ReleaseAll(s, ok)
    BY <1>5 DEF Freeze
  <2>2. PICK R \in SUBSET pressed[s] : LetGo(s, R)
    BY <2>1, ReleaseAllMeans
  <2>3. lastMove' \in [Sessions -> Points \cup {NoPoint}]
    BY <2>1, ReleaseAllMeans
  <2>4. frozen' \in SUBSET Sessions /\ UNCHANGED sweep /\ Free
    BY <1>5 DEF Freeze, TypeOK
  <2>5. SweepClears'
    BY <2>4 DEF Free, Idle, SweepClears
  <2> QED
    BY <2>2, <2>3, <2>4, <2>5, LetGoExact DEF TypeOK
<1>6. ASSUME NEW s \in Sessions, Thaw(s) PROVE IInv'
  BY <1>6 DEF Thaw, TypeOK, CountsExact, DownIffHeld, SweepClears
<1>7. ASSUME NEW scope \in SUBSET Sessions, NEW S \in SUBSET Sessions, SweepFrom(scope, S),
             \A s \in scope \ S : s \notin Touched
      PROVE  IInv'
  <2>1. sweep' = [scope |-> scope, pending |-> S, retry |-> {}, round |-> 1]
        /\ UNCHANGED <<pressed, holders, frozen, lastMove, down>>
    BY <1>7 DEF SweepFrom
  <2>2. TypeOK'
    BY <2>1 DEF TypeOK, Attempts
  <2>3. CountsExact' /\ DownIffHeld'
    BY <2>1 DEF CountsExact, DownIffHeld
  <2>4. SweepClears'
    BY <1>7, <2>1 DEF SweepClears, Touched
  <2> QED
    BY <2>2, <2>3, <2>4
<1>8. ASSUME NEW s \in Sessions, SweepOne(s) PROVE IInv'
  <2>1. PICK ok \in BOOLEAN :
          /\ ReleaseAll(s, ok)
          /\ sweep' = [sweep EXCEPT !.pending = @ \ {s},
                                    !.retry = IF ok THEN @ ELSE @ \cup {s}]
    BY <1>8 DEF SweepOne
  <2>2. PICK R \in SUBSET pressed[s] : LetGo(s, R)
    BY <2>1, ReleaseAllMeans
  <2>3. TypeOK'
    <3>1. sweep' \in [scope : SUBSET Sessions, pending : SUBSET Sessions,
                      retry : SUBSET Sessions, round : 0..Attempts]
      BY <2>1 DEF TypeOK
    <3>2. frozen' = frozen
      BY <1>8 DEF SweepOne
    <3> QED
      BY <2>1, <2>2, <3>1, <3>2, LetGoExact, ReleaseAllMeans DEF TypeOK
  <2>4. SweepClears'
    <3> SUFFICES ASSUME NEW p \in sweep.scope, p \notin sweep'.pending, p \notin sweep'.retry
                 PROVE  pressed'[p] = {} /\ lastMove'[p] = NoPoint
      BY <2>1 DEF SweepClears, TypeOK
    <3>0. p \in Sessions
      BY DEF TypeOK
    <3>1. CASE p = s
      <4>1. ok
        BY <2>1, <3>1 DEF TypeOK
      <4> QED
        BY <2>1, <3>1, <4>1, ReleaseAllMeans
    <3>2. CASE p # s
      <4>1. p \notin sweep.pending /\ p \notin sweep.retry
        BY <2>1, <3>2 DEF TypeOK
      <4>2. pressed[p] = {} /\ lastMove[p] = NoPoint
        BY <4>1 DEF SweepClears
      <4> QED
        BY <2>1, <3>0, <3>2, <4>2, ReleaseAllMeans
    <3> QED
      BY <3>1, <3>2
  <2> QED
    BY <2>2, <2>3, <2>4, LetGoExact
<1>9. CASE SweepAgain
  <2>1. TypeOK'
    <3>1. sweep' = [scope |-> sweep.scope, pending |-> sweep.retry,
                    retry |-> {}, round |-> sweep.round + 1]
      BY <1>9 DEF SweepAgain, TypeOK
    <3>2. sweep.round + 1 \in 0..Attempts
      BY <1>9 DEF SweepAgain, TypeOK, Attempts
    <3>3. sweep.scope \in SUBSET Sessions /\ sweep.retry \in SUBSET Sessions
      BY DEF TypeOK
    <3> QED
      BY <1>9, <3>1, <3>2, <3>3 DEF SweepAgain, TypeOK
  <2>2. CountsExact' /\ DownIffHeld'
    BY <1>9 DEF SweepAgain, CountsExact, DownIffHeld
  <2>3. SweepClears'
    BY <1>9 DEF SweepAgain, SweepClears, TypeOK
  <2> QED
    BY <2>1, <2>2, <2>3
<1>10. CASE SweepEnd
  BY <1>10 DEF SweepEnd, TypeOK, CountsExact, DownIffHeld, SweepClears, Idle, Attempts
<1>11. CASE UNCHANGED vars
  BY <1>11 DEF vars, TypeOK, CountsExact, DownIffHeld, SweepClears
<1>12. CASE ReleaseEverySession
  <2>1. Touched \in SUBSET Sessions
    BY DEF Touched
  <2> QED
    BY <1>7, <1>12, <2>1 DEF ReleaseEverySession
<1>13. ASSUME NEW s \in Sessions, ReleaseEndedSession(s) PROVE IInv'
  BY <1>7, <1>13 DEF ReleaseEndedSession
<1> QED
  BY <1>1, <1>2, <1>3, <1>4, <1>5, <1>6, <1>8, <1>9, <1>10, <1>11, <1>12, <1>13 DEF Next

\* The inductive invariant holds in every reachable state.
LEMMA InductiveInvariant == Spec => []IInv
  BY InitIInv, NextIInv, PTL DEF Spec

\* Every variable of the registry keeps its type; in particular a holder count
\* never goes below zero.
THEOREM InputTypeCorrect == Spec => []TypeOK
  BY InductiveInvariant, PTL DEF IInv

\* The holder counts are exact (transition_session_button, transition_session_key).
THEOREM InputCountsExact == Spec => []CountsExact
  BY InductiveInvariant, PTL DEF IInv

\* An input is down exactly while a session holds it, whatever the platform
\* refuses.
THEOREM InputDownIffHeld == Spec => []DownIffHeld
  BY InductiveInvariant, PTL DEF IInv

\* A release loop forgets no session (release_all_sessions).
THEOREM InputSweepClears == Spec => []SweepClears
  BY InductiveInvariant, PTL DEF IInv

-----------------------------------------------------------------------------
\* A fenced session gains nothing (handle_event_inner, freeze_session_for_migration).
THEOREM InputFenceHolds == Spec => FenceHolds
<1> DEFINE F == \A s \in frozen : /\ pressed'[s] \subseteq pressed[s]
                                  /\ lastMove'[s] \in {lastMove[s], NoPoint}
<1>1. ASSUME TypeOK, Next PROVE F
  <2> USE <1>1
  <2>1. ASSUME NEW s \in Sessions, NEW i \in Inputs, KeyDown(s, i) PROVE F
    BY <2>1 DEF KeyDown, Admitted, Press, TypeOK
  <2>2. ASSUME NEW s \in Sessions, NEW i \in Inputs, KeyUp(s, i) PROVE F
    BY <2>2 DEF KeyUp, LetGo, TypeOK
  <2>3. ASSUME NEW s \in Sessions, NEW p \in Points, Move(s, p) PROVE F
    BY <2>3 DEF Move, Admitted, TypeOK
  <2>4. ASSUME NEW s \in Sessions, NEW R \in SUBSET pressed[s], LetGo(s, R),
               lastMove' = lastMove \/ lastMove' = [lastMove EXCEPT ![s] = NoPoint]
        PROVE  F
    BY <2>4 DEF LetGo, TypeOK
  <2>5. ASSUME NEW s \in Sessions, ReleaseEvent(s) \/ Freeze(s) \/ SweepOne(s) PROVE F
    <3>1. PICK R \in SUBSET pressed[s] :
            LetGo(s, R) /\ (lastMove' = lastMove \/ lastMove' = [lastMove EXCEPT ![s] = NoPoint])
      BY <2>5 DEF ReleaseEvent, Freeze, SweepOne, ReleaseAll, ReleaseScope
    <3> QED
      BY <2>4, <3>1
  <2>6. CASE UNCHANGED <<pressed, lastMove>>
    BY <2>6
  <2> QED
    BY <1>1, <2>1, <2>2, <2>3, <2>5, <2>6
    DEF Next, Thaw, ReleaseEndedSession, ReleaseEverySession, SweepFrom, SweepAgain, SweepEnd
<1>2. TypeOK /\ [Next]_vars => [F]_vars
  BY <1>1
<1> QED
  BY <1>2, InputTypeCorrect, PTL DEF Spec, FenceHolds

\* Every behaviour of the registry is one of HeldInputs: two sessions that
\* share a key never lift it from each other, and a half-finished release keeps
\* what is still down in its owner's name.
THEOREM RegistryImplementsHeldInputs == Spec => ImplementsHeld
<1>1. Init => Held!Init
  BY DEF Init, Held!Init
<1>2. ASSUME IInv, [Next]_vars PROVE [Held!Next]_<<pressed, down>>
  <2> USE <1>2 DEF IInv
  <2>1. ASSUME NEW s \in Sessions, NEW i \in Inputs, KeyDown(s, i) PROVE Held!Next
    <3>1. Press(s, i)
      BY <2>1 DEF KeyDown
    <3>2. down' = down \cup {i}
      <4>1. CASE holders[i] = 0
        BY <3>1, <4>1 DEF Press
      <4>2. CASE holders[i] # 0
        BY <3>1, <4>2, CountsMean DEF Press
      <4> QED
        BY <4>1, <4>2
    <3>3. Held!Press(s, i)
      BY <3>1, <3>2 DEF Press, Held!Press
    <3> QED
      BY <3>3 DEF Held!Next
  <2>2. ASSUME NEW s \in Sessions, NEW R \in SUBSET pressed[s], LetGo(s, R) PROVE Held!Next
    <3>1. down' = {i \in down : \E p \in Sessions : i \in pressed'[p]}
      BY <2>2, LetGoExact
    <3>2. Held!Release(s, R)
      BY <2>2, <3>1 DEF LetGo, Held!Release
    <3> QED
      BY <3>2 DEF Held!Next
  <2>3. ASSUME NEW s \in Sessions, NEW i \in Inputs, KeyUp(s, i) PROVE Held!Next
    <3>1. {i} \in SUBSET pressed[s] /\ LetGo(s, {i})
      BY <2>3 DEF KeyUp
    <3> QED
      BY <2>2, <3>1
  <2>4. ASSUME NEW s \in Sessions, ReleaseEvent(s) \/ Freeze(s) \/ SweepOne(s) PROVE Held!Next
    <3>1. PICK R \in SUBSET pressed[s] : LetGo(s, R)
      BY <2>4 DEF ReleaseEvent, Freeze, SweepOne, ReleaseAll, ReleaseScope
    <3> QED
      BY <2>2, <3>1
  <2> QED
    BY <2>1, <2>3, <2>4
    DEF Next, vars, Move, Thaw, ReleaseEndedSession, ReleaseEverySession, SweepFrom,
        SweepAgain, SweepEnd
<1> QED
  BY <1>1, <1>2, InductiveInvariant, PTL DEF Spec, ImplementsHeld, Held!Spec
=============================================================================
