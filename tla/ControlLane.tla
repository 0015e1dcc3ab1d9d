----------------------------- MODULE ControlLane -----------------------------
(***************************************************************************)
(* Authenticated control input between the two ends of one session: the    *)
(* controller numbers and signs every event, repeats it until it is        *)
(* acknowledged or its attempts are used up, and the target admits each    *)
(* number once, injects the event and caches the answer.                   *)
(*                                                                         *)
(* Two senders share one receiver.  On a LAN events travel in datagrams,   *)
(* which are lost, repeated, delayed and reordered; the number advances    *)
(* before the event is sent, and a reliable event that fails ends the      *)
(* session after a ReleaseAll for every granted input scope.  On a WAN     *)
(* route the reliable lane is an ordered channel and the realtime lane is  *)
(* not; the number advances when the event is acknowledged, and a failure  *)
(* is returned to the caller.                                              *)
(*                                                                         *)
(* Signatures, grants and scopes are checked by both ends on every         *)
(* message; a message that fails them is refused without effect.           *)
(***************************************************************************)
EXTENDS Naturals, Sequences, FiniteSets, SequencesExt, FiniteSetsExt

CONSTANTS Routes,     \* the senders of the instance: "lan", "wan" or both
          Lanes,      \* {"reliable", "realtime"} or one of them
          Scopes,     \* how many input scopes the grant has: pointer, keyboard
          MaxEvents,  \* bound on the events a controller sends
          Window,     \* CONTROL_INPUT_REPLAY_WINDOW_WIDTH
          Faults      \* whether the target may refuse or drop what it could take

ASSUME RoutesKnown == Routes \subseteq {"lan", "wan"}
ASSUME LanesKnown == Lanes \subseteq {"reliable", "realtime"}
ASSUME ScopesGranted == Scopes \in Nat \ {0}
ASSUME WindowPositive == Window \in Nat \ {0}
ASSUME EventsBounded == MaxEvents \in Nat

VARIABLES route,     \* which of the two senders the session uses
          sequence,  \* the sender's number for its next event, per lane
          nextId,    \* next_event_id, shared by the lanes
          request,   \* the event in flight, per lane
          phase,     \* the controller's session, see Phases
          releases,  \* the ReleaseAlls that end it and were begun so far
          final,     \* the event id of the last of them, 0 before
          wire,      \* events on the way to the target, per lane
          back,      \* acknowledgements on the way back, per lane
          expected,  \* reliable_next_sequence and realtime_highest_sequence + 1
          seen,      \* the observations with their cached answers, per lane
          target,    \* the target's authorization: "open" or "ended"
          applied,   \* history: the events injected, in order, per lane
          told       \* history: the event ids the caller was told are applied

sender == <<sequence, nextId, request, phase, releases, final, told>>
receiver == <<expected, seen, target, applied>>
vars == <<route, sender, wire, back, receiver>>

Wan == route = "wan"
Attempts(lane) == IF lane = "realtime" THEN 1 ELSE 3
NoRequest == [id |-> 0]
Ordered(lane) == Wan /\ lane = "reliable"

\* "failing": a realtime event failed for good and waits for the authorization
\* gate; "closing": a reliable one did, and the gate is held; "releasing": the
\* ReleaseAlls that end the session are being sent, under the gate.
Phases == {"open", "failing", "closing", "releasing", "ended"}
Ids == 1..MaxEvents
Event == [sequence : Nat, id : Ids, cleanup : BOOLEAN]
Ack == [sequence : Nat, id : Ids, answer : {"ok", "replay", "refused"}]

TypeOK ==
  /\ route \in Routes
  /\ sequence \in [Lanes -> Nat \ {0}]
  /\ nextId \in 1..MaxEvents + 1
  /\ phase \in Phases /\ releases \in 0..Scopes /\ final \in 0..MaxEvents
  /\ target \in {"open", "ended"}
  /\ \A l \in Lanes :
       /\ request[l] = NoRequest \/ request[l].event \in Event
       /\ wire[l] \in Seq(Event) /\ back[l] \in Seq(Ack)
       /\ expected[l] \in Nat \ {0}
       /\ Cardinality(seen[l]) <= Window

Init == /\ route \in Routes
        /\ sequence = [l \in Lanes |-> 1]
        /\ nextId = 1
        /\ request = [l \in Lanes |-> NoRequest]
        /\ phase = "open" /\ releases = 0 /\ final = 0
        /\ wire = [l \in Lanes |-> <<>>] /\ back = [l \in Lanes |-> <<>>]
        /\ expected = [l \in Lanes |-> 1]
        /\ seen = [l \in Lanes |-> {}]
        /\ target = "open"
        /\ applied = [l \in Lanes |-> <<>>]
        /\ told = {}

-----------------------------------------------------------------------------
(* The two directions *)

\* An unordered lane keeps what was sent: it may still arrive, again, in any
\* order, or never.
Put(chan, lane, m) ==
  [chan EXCEPT ![lane] = IF ~Ordered(lane) /\ Contains(@, m) THEN @ ELSE Append(@, m)]
Arriving(chan, lane) == IF Ordered(lane) THEN 1..Min({1, Len(chan[lane])})
                                         ELSE DOMAIN chan[lane]
Taken(chan, lane, i) == IF Ordered(lane) THEN [chan EXCEPT ![lane] = Tail(@)] ELSE chan

-----------------------------------------------------------------------------
(* The controller *)

Idle(lane) == request[lane] = NoRequest

\* A queue that is full or a datagram that is lost: the attempt is used up and
\* nothing is sent.
Transmit(lane, e) == wire' = Put(wire, lane, e) \/ UNCHANGED wire

\* The LAN sender takes its number before it sends.
AdvanceFirst(lane) == IF Wan THEN sequence ELSE [sequence EXCEPT ![lane] = @ + 1]

Begin(lane, cleanup) ==
  LET e == [sequence |-> sequence[lane], id |-> nextId, cleanup |-> cleanup]
  IN /\ nextId <= MaxEvents
     /\ request' = [request EXCEPT ![lane] = [id |-> nextId, event |-> e, attempt |-> 1]]
     /\ nextId' = nextId + 1
     /\ sequence' = AdvanceFirst(lane)
     /\ Transmit(lane, e)

\* One event per lane at a time: the number's mutex is held until the answer.
\* The caller's own ReleaseAll is one event per scope.  The bound leaves room
\* for the ReleaseAlls that may have to follow on a LAN.
Send(lane, cleanup) ==
  /\ phase \in {"open", "failing"} /\ Idle(lane)
  /\ cleanup => lane = "reliable"
  /\ nextId + (IF Wan THEN 1 ELSE Scopes) <= MaxEvents
  /\ Begin(lane, cleanup)
  /\ UNCHANGED <<phase, releases, final, told, back, receiver, route>>

\* No answer in time: the same signed event again.
Resend(lane) ==
  /\ ~Idle(lane)
  /\ request[lane].attempt < Attempts(lane)
  /\ request' = [request EXCEPT ![lane].attempt = @ + 1]
  /\ Transmit(lane, request[lane].event)
  /\ UNCHANGED <<sequence, nextId, phase, releases, final, told, back, receiver, route>>

\* A failed ReleaseAll ends the session at once, any other reliable event after
\* ReleaseAll; a realtime event waits for the gate that a reliable one holds.
AfterFailure(lane) ==
  phase' = IF lane = "reliable"
           THEN IF request[lane].event.cleanup THEN "ended" ELSE "closing"
           ELSE IF phase = "open" THEN "failing" ELSE phase

\* A failed event.  On a WAN route the caller gets the error.  On a LAN every
\* reliable failure, and a realtime one that shows the grant is over, ends the
\* session.
Fail(lane, terminal) ==
  /\ request' = [request EXCEPT ![lane] = NoRequest]
  /\ IF Wan \/ ~terminal THEN UNCHANGED phase ELSE AfterFailure(lane)
  /\ UNCHANGED <<sequence, nextId, releases, final, wire>>

\* ReleaseAll before the session ends, under the authorization gate: one event
\* per granted scope, the next only after the one before was acknowledged.
ReleaseAndEnd ==
  /\ phase \in {"failing", "closing"} \/ (phase = "releasing" /\ releases < Scopes)
  /\ Idle("reliable")
  /\ Begin("reliable", TRUE)
  /\ phase' = "releasing"
  /\ releases' = releases + 1
  /\ final' = nextId
  /\ UNCHANGED <<told, back, receiver, route>>

GiveUp(lane) ==
  /\ ~Idle(lane)
  /\ request[lane].attempt = Attempts(lane)
  /\ Fail(lane, lane = "reliable")
  /\ UNCHANGED <<told, back, receiver, route>>

SameNumber(a, r) == a.sequence = r.event.sequence  \* FAULT: the event is not compared
SameEvent(a, r) == a.id = r.id

\* An acknowledgement: other numbers are skipped; on a LAN so is an answer to
\* another event, on a WAN route it is a protocol failure.
Answered(lane, i) ==
  LET a == back[lane][i]
      r == request[lane]
      same == a.sequence = r.event.sequence
  IN /\ ~Idle(lane)
     /\ back' = Taken(back, lane, i)
     /\ CASE ~same \/ (~Wan /\ ~SameEvent(a, r)) ->
               Ordered(lane) /\ UNCHANGED <<sender, wire>>
          [] same /\ ~SameEvent(a, r) /\ Wan ->
               Fail(lane, TRUE) /\ UNCHANGED told
          [] same /\ SameEvent(a, r) /\ a.answer = "ok" ->
               /\ request' = [request EXCEPT ![lane] = NoRequest]
               /\ sequence' = IF Wan THEN [sequence EXCEPT ![lane] = @ + 1] ELSE sequence
               /\ phase' = IF r.id = final /\ releases = Scopes THEN "ended" ELSE phase
               /\ told' = told \cup {r.id}
               /\ UNCHANGED <<nextId, releases, final, wire>>
          [] same /\ SameEvent(a, r) /\ a.answer # "ok" ->
               Fail(lane, lane = "reliable" \/ a.answer = "refused") /\ UNCHANGED told
     /\ UNCHANGED <<receiver, route>>

-----------------------------------------------------------------------------
(* The target *)

\* An exact retry; on the realtime lane only of the newest number.
Retry(lane, e) == /\ \E o \in seen[lane] : o.event = e
                  /\ lane = "realtime" => e.sequence + 1 = expected[lane]
KnownId(lane, e) == \E o \in seen[lane] : o.event.id = e.id

AdmissibleNoGap(lane, e) ==   \* FAULT: ReleaseAll must be the next number too
  /\ ~KnownId(lane, e)
  /\ IF lane = "realtime" THEN e.sequence >= expected[lane] ELSE e.sequence = expected[lane]

AdmissibleUnseen(lane, e) ==  \* FAULT: any number not yet seen is admitted
  \A o \in seen[lane] : o.event.sequence # e.sequence

\* A new event: the next reliable number, or for ReleaseAll one beyond it, as
\* the event before it may never have arrived; any newer realtime number.
Admissible(lane, e) ==
  /\ ~KnownId(lane, e)
  /\ CASE lane = "realtime" -> e.sequence >= expected[lane]
       [] lane # "realtime" /\ e.cleanup -> e.sequence \in expected[lane]..expected[lane] + 1
       [] lane # "realtime" /\ ~e.cleanup -> e.sequence = expected[lane]

Pruned(lane, S) ==
  IF lane = "realtime"
  THEN LET top == Max({o.event.sequence : o \in S})
       IN {o \in S : o.event.sequence + Window > top}
  ELSE IF Cardinality(S) > Window
       THEN {o \in S : o.event.sequence # Min({p.event.sequence : p \in S})} ELSE S

Reply(lane, e, answer) ==
  back' = Put(back, lane, [sequence |-> e.sequence, id |-> e.id, answer |-> answer])

Remember(lane, e, answer) ==
  /\ seen' = [seen EXCEPT ![lane] = Pruned(lane, @ \cup {[event |-> e, answer |-> answer]})]
  /\ expected' = [expected EXCEPT ![lane] = e.sequence + 1]

\* Injection and its answer are one step under the authorization gate.  A
\* refused injection ends the target's authorization; an event that expired on
\* the way to the injector does so on a LAN only.
Inject(lane, e) ==
  /\ Admissible(lane, e)
  /\ \/ /\ Remember(lane, e, "ok") /\ Reply(lane, e, "ok")
        /\ applied' = [applied EXCEPT ![lane] = Append(@, e)]
        /\ UNCHANGED target
     \/ /\ Faults
        /\ Remember(lane, e, "refused") /\ Reply(lane, e, "refused")
        /\ target' \in (IF Wan THEN {"open", "ended"} ELSE {"ended"})
        /\ UNCHANGED applied

\* What the target may do with an event that it could take: refuse it before
\* its number is looked at, by a check on the grant or the envelope, or drop it
\* without a word, as it expired on the way.
Spurned(lane, e) ==
  /\ Faults
  /\ Reply(lane, e, "refused") \/ UNCHANGED back
  /\ UNCHANGED receiver

Receive(lane, i) ==
  LET e == wire[lane][i]
  IN /\ wire' = Taken(wire, lane, i)
     /\ \/ target = "ended" /\ Reply(lane, e, "refused") /\ UNCHANGED receiver
        \/ target = "open" /\ Spurned(lane, e)
        \/ target = "open" /\ Retry(lane, e)
           /\ \E o \in seen[lane] : o.event = e /\ Reply(lane, e, o.answer)
           /\ UNCHANGED receiver
        \/ target = "open" /\ ~Retry(lane, e) /\ Inject(lane, e)
        \/ target = "open" /\ ~Retry(lane, e) /\ ~Admissible(lane, e)
           /\ Reply(lane, e, "replay") /\ UNCHANGED receiver
     /\ UNCHANGED <<sender, route>>

-----------------------------------------------------------------------------
Next == \E lane \in Lanes :
  \/ \E cleanup \in BOOLEAN : Send(lane, cleanup)
  \/ Resend(lane)
  \/ GiveUp(lane)
  \/ \E i \in Arriving(back, lane) : Answered(lane, i)
  \/ \E i \in Arriving(wire, lane) : Receive(lane, i)
  \/ lane = "reliable" /\ ReleaseAndEnd

Spec == Init /\ [][Next]_vars

-----------------------------------------------------------------------------
(* Properties *)

\* Every lane injects events in the order they were sent, none twice: a key-up
\* never overtakes its key-down and an old pointer position never follows a
\* newer one, whatever the network repeats or delays.
InjectedInOrder == \A l \in Lanes : \A i, j \in DOMAIN applied[l] :
  i < j => applied[l][i].id < applied[l][j].id

\* The caller is told that an event was applied only if it was injected.
OkMeansInjected == \A id \in told : \E l \in Lanes : \E i \in DOMAIN applied[l] :
  applied[l][i].id = id

\* The ReleaseAlls that end a session, one per granted scope: the one in flight
\* is never taken for a replay, although the event before it may not have
\* arrived; once the first has been injected no delayed key or button event is;
\* and a session whose last one was acknowledged has had one acknowledged for
\* every scope.  (When one is not acknowledged the next is never sent: the
\* target then releases what is held when it ends the session itself.)
FinalReleaseWins ==
  final # 0 =>
    /\ \A i \in DOMAIN back["reliable"] :
         back["reliable"][i].id = final => back["reliable"][i].answer # "replay"
    /\ \A i, j \in DOMAIN applied["reliable"] :
         i < j /\ applied["reliable"][i].id + releases > final => applied["reliable"][j].cleanup
    /\ phase = "ended" /\ final \in told =>
         releases = Scopes /\ \A k \in 0..releases - 1 : final - k \in told

\* The target never takes the event in flight, which no one has sent before,
\* for a replay of another: the two ends agree on the numbers.
FreshIsNoReplay == \A l \in Lanes : \A i \in DOMAIN back[l] :
  ~Idle(l) /\ back[l][i].id = request[l].id => back[l][i].answer # "replay"
=============================================================================
