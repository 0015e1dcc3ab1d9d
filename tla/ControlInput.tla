---------------------------- MODULE ControlInput ----------------------------
(***************************************************************************)
(* The service's ControlInputRegistry: the keys and buttons every session  *)
(* holds, the number of holders of each, the fence of a relay migration    *)
(* and the coalescing of pointer moves.  Every entry point runs under the  *)
(* registry's mutex, so one call is one step; the sweeps that retry        *)
(* failed releases three times keep the mutex over several steps.          *)
(*                                                                         *)
(* The injector is the platform's and may refuse any single event; a       *)
(* refused event has no effect.  HashSet iteration order is any order.     *)
(***************************************************************************)
EXTENDS Naturals, FiniteSets

CONSTANTS Sessions,   \* session ids
          Buttons,    \* mouse buttons
          Keys,       \* virtual keys
          Points,     \* pointer positions
          NoPoint     \* no position remembered

ASSUME SessionsFinite == IsFiniteSet(Sessions)
ASSUME InputsApart == Buttons \cap Keys = {}
ASSUME NoPointApart == NoPoint \notin Points

Inputs == Buttons \cup Keys
Attempts == 3

VARIABLES pressed,   \* pressed_by_session; an empty set is an absent entry
          holders,   \* button_holder_counts and key_holder_counts; 0 is absent
          frozen,    \* migration_frozen_sessions
          lastMove,  \* last_realtime_mouse_move_by_session
          down,      \* the inputs the platform has down
          sweep      \* the running release loop, which holds the mutex

vars == <<pressed, holders, frozen, lastMove, down, sweep>>

Idle == [scope |-> {}, pending |-> {}, retry |-> {}, round |-> 0]
Free == sweep = Idle

TypeOK == /\ pressed \in [Sessions -> SUBSET Inputs]
          /\ holders \in [Inputs -> Nat]
          /\ frozen \subseteq Sessions
          /\ lastMove \in [Sessions -> Points \cup {NoPoint}]
          /\ down \subseteq Inputs
          /\ sweep \in [scope : SUBSET Sessions, pending : SUBSET Sessions,
                        retry : SUBSET Sessions, round : 0..Attempts]

Init == /\ pressed = [s \in Sessions |-> {}]
        /\ holders = [i \in Inputs |-> 0]
        /\ frozen = {}
        /\ lastMove = [s \in Sessions |-> NoPoint]
        /\ down = {}
        /\ sweep = Idle

-----------------------------------------------------------------------------
(* Key and button transitions *)

\* An input goes down when its first holder presses it.
Press(s, i) ==
  /\ i \notin pressed[s]
  /\ pressed' = [pressed EXCEPT ![s] = @ \cup {i}]
  /\ holders' = [holders EXCEPT ![i] = @ + 1]
  /\ down' = IF holders[i] = 0 THEN down \cup {i} ELSE down

LetGoAlways(s, R) ==        \* FAULT: lifts what another session still holds
  /\ pressed' = [pressed EXCEPT ![s] = @ \ R]
  /\ holders' = [i \in Inputs |-> IF i \in R THEN holders[i] - 1 ELSE holders[i]]
  /\ down' = down \ R

\* Inputs of R are lifted when their last holder lets go; the entries go in
\* the same order, so a prefix R of a failing release is fully accounted for.
LetGo(s, R) ==
  /\ pressed' = [pressed EXCEPT ![s] = @ \ R]
  /\ holders' = [i \in Inputs |-> IF i \in R THEN holders[i] - 1 ELSE holders[i]]
  /\ down' = down \ {i \in R : holders[i] = 1}

\* A release loop over a set stops at the first refused event, and only an
\* event that is really injected can be refused.
Refusable(S, R) == \E i \in S \ R : holders[i] = 1

\* The pointer scope is released before the keyboard scope, and a refusal in
\* the first leaves the second alone.
Partial(s, R) ==
  LET B == pressed[s] \cap Buttons
      K == pressed[s] \cap Keys
  IN \/ R \subseteq B /\ Refusable(B, R)
     \/ \E L \in SUBSET K : R = B \cup L /\ Refusable(K, L)

\* release_session_all: the outcome is ok only when everything was released.
ReleaseAll(s, ok) ==
  /\ lastMove' = [lastMove EXCEPT ![s] = NoPoint]
  /\ IF ok THEN LetGo(s, pressed[s])
           ELSE \E R \in SUBSET pressed[s] : Partial(s, R) /\ LetGo(s, R)

\* release_session_scope: one scope only; the pointer scope also forgets the
\* last move.
ReleaseScope(s, S, pointer, ok) ==
  /\ lastMove' = IF pointer THEN [lastMove EXCEPT ![s] = NoPoint] ELSE lastMove
  /\ IF ok THEN LetGo(s, pressed[s] \cap S)
           ELSE \E R \in SUBSET (pressed[s] \cap S) :
                   Refusable(pressed[s] \cap S, R) /\ LetGo(s, R)

-----------------------------------------------------------------------------
(* Events *)

AdmittedAlways(s) == Free    \* FAULT: the fence is not consulted
\* A frozen session's events are dropped, all but ReleaseAll.
Admitted(s) == Free /\ s \notin frozen

KeyDown(s, i) == /\ Admitted(s)
                 /\ Press(s, i)
                 /\ UNCHANGED <<frozen, lastMove, sweep>>

\* Refused key-ups and key-downs change nothing and are stutters.
KeyUp(s, i) == /\ Admitted(s)
               /\ i \in pressed[s]
               /\ LetGo(s, {i})
               /\ UNCHANGED <<frozen, lastMove, sweep>>

\* A move to where this session last moved is coalesced and injects nothing.
Coalesced(s, p) == lastMove[s] = p

Move(s, p) == /\ Admitted(s)
              /\ ~Coalesced(s, p)
              /\ lastMove' = [lastMove EXCEPT ![s] = p]
              /\ UNCHANGED <<pressed, holders, frozen, down, sweep>>

\* ReleaseAll from a local caller releases both scopes, from a network
\* receiver the scope of its envelope.
ReleaseEvent(s) ==
  /\ Free
  /\ \E ok \in BOOLEAN : \/ ReleaseAll(s, ok)
                         \/ ReleaseScope(s, Buttons, TRUE, ok)
                         \/ ReleaseScope(s, Keys, FALSE, ok)
  /\ UNCHANGED <<frozen, sweep>>

-----------------------------------------------------------------------------
(* The migration fence *)

FreezeEveryone(s) == \* FAULT: releases every session, fences one
  /\ Free
  /\ pressed' = [x \in Sessions |-> {}]
  /\ holders' = [i \in Inputs |-> 0]
  /\ down' = {}
  /\ lastMove' = [x \in Sessions |-> NoPoint]
  /\ frozen' = frozen \cup {s}
  /\ UNCHANGED sweep

\* The fence is raised even when the release fails half way.
Freeze(s) == /\ Free
             /\ \E ok \in BOOLEAN : ReleaseAll(s, ok)
             /\ frozen' = frozen \cup {s}
             /\ UNCHANGED sweep

Thaw(s) == /\ Free
           /\ s \in frozen
           /\ frozen' = frozen \ {s}
           /\ UNCHANGED <<pressed, holders, lastMove, down, sweep>>

-----------------------------------------------------------------------------
(* Release loops that retry: one ended LAN session, or every session when   *)
(* the security state became unhealthy                                      *)

TouchedByMoves == {s \in Sessions : lastMove[s] # NoPoint}  \* FAULT
\* Whoever holds something or has moved the pointer.
Touched == {s \in Sessions : pressed[s] # {} \/ lastMove[s] # NoPoint}

SweepFrom(scope, S) ==
  /\ Free
  /\ S # {}
  /\ sweep' = [scope |-> scope, pending |-> S, retry |-> {}, round |-> 1]
  /\ UNCHANGED <<pressed, holders, frozen, lastMove, down>>

ReleaseEverySession == SweepFrom(Sessions, Touched)
ReleaseEndedSession(s) == SweepFrom({s}, {s})

SweepOne(s) ==
  /\ s \in sweep.pending
  /\ \E ok \in BOOLEAN :
       /\ ReleaseAll(s, ok)
       /\ sweep' = [sweep EXCEPT !.pending = @ \ {s},
                                 !.retry = IF ok THEN @ ELSE @ \cup {s}]
  /\ UNCHANGED frozen

SweepAgain ==
  /\ sweep.pending = {} /\ sweep.retry # {} /\ sweep.round < Attempts
  /\ sweep' = [sweep EXCEPT !.pending = sweep.retry, !.retry = {}, !.round = @ + 1]
  /\ UNCHANGED <<pressed, holders, frozen, lastMove, down>>

SweepEnd ==
  /\ ~Free /\ sweep.pending = {}
  /\ sweep.retry = {} \/ sweep.round = Attempts
  /\ sweep' = Idle
  /\ UNCHANGED <<pressed, holders, frozen, lastMove, down>>

-----------------------------------------------------------------------------
Next ==
  \/ \E s \in Sessions :
       \/ \E i \in Inputs : KeyDown(s, i) \/ KeyUp(s, i)
       \/ \E p \in Points : Move(s, p)
       \/ ReleaseEvent(s)
       \/ Freeze(s)
       \/ Thaw(s)
       \/ ReleaseEndedSession(s)
       \/ SweepOne(s)
  \/ ReleaseEverySession
  \/ SweepAgain
  \/ SweepEnd

Spec == Init /\ [][Next]_vars

-----------------------------------------------------------------------------
(* Properties *)

\* The holder counts are exactly the number of sessions that hold the input:
\* a count too low lifts a key another session holds, one too high leaves it
\* down for ever (transition_session_button and transition_session_key).
CountsExact == \A i \in Inputs :
  holders[i] = Cardinality({s \in Sessions : i \in pressed[s]})

\* An input is physically down exactly while some session holds it, across
\* refused injections and half-finished releases.
DownIffHeld == down = UNION {pressed[s] : s \in Sessions}

\* A release loop never loses a session: whoever it is to release and has
\* neither still to visit nor noted for the next attempt holds nothing and
\* remembers no move, so an unhealthy service that ends the loop without an
\* error leaves nothing down (release_all_sessions).
SweepClears == \A s \in sweep.scope \ (sweep.pending \cup sweep.retry) :
  pressed[s] = {} /\ lastMove[s] = NoPoint

\* While a session is fenced it gains no input and moves no pointer, whatever
\* part of what it held the freeze failed to release.
FenceHolds ==
  [][\A s \in frozen : /\ pressed'[s] \subseteq pressed[s]
                       /\ lastMove'[s] \in {lastMove[s], NoPoint}]_vars

\* The registry implements the promise of HeldInputs.
Held == INSTANCE HeldInputs WITH Owners <- Sessions, held <- pressed
ImplementsHeld == Held!Spec
=============================================================================
