-------------------------- MODULE ControlLaneProofs --------------------------
(***************************************************************************)
(* What the numbers, the observations and the answers of the two ends of a *)
(* control lane achieve over any network that loses, repeats, delays and   *)
(* reorders, for every number of events and every width of the window.     *)
(***************************************************************************)
EXTENDS ControlLane, FiniteSetTheorems, WellFoundedInduction, TLAPS

-----------------------------------------------------------------------------
(* The inductive invariant. *)

Request == [id : Ids, event : Event, attempt : Nat]

Types ==
  /\ route \in Routes
  /\ sequence \in [Lanes -> Nat \ {0}]
  /\ expected \in [Lanes -> Nat \ {0}]
  /\ nextId \in Nat \ {0}
  /\ final \in Nat
  /\ phase \in Phases
  /\ request \in [Lanes -> Request \cup {NoRequest}]
  /\ \A l \in Lanes : ~Idle(l) => request[l].id = request[l].event.id
  /\ wire \in [Lanes -> Seq(Event)]
  /\ back \in [Lanes -> Seq(Ack)]
  /\ applied \in [Lanes -> Seq(Event)]
  /\ seen \in [Lanes -> SUBSET [event : Event, answer : {"ok", "refused"}]]

\* The events of a lane that exist anywhere.
Known(l) ==
  {wire[l][i] : i \in DOMAIN wire[l]} \cup {applied[l][i] : i \in DOMAIN applied[l]}
    \cup {o.event : o \in seen[l]}
    \cup (IF Idle(l) THEN {} ELSE {request[l].event})

\* Ids name events; numbers and ids are given out in the same order; a LAN
\* gives out no number twice.
NumbersOK(l) ==
  /\ \A e \in Known(l) :
       /\ e.id < nextId
       /\ e.sequence <= sequence[l]
       /\ ~Wan => e.sequence < sequence[l]
  /\ \A e, f \in Known(l) :
       /\ e.id = f.id => e = f
       /\ e.sequence < f.sequence => e.id < f.id
       /\ ~Wan /\ e.sequence = f.sequence => e = f

\* What was injected or refused has a number below the expected one; every
\* "ok" on its way stands for an injection.
AnswersOK(l) ==
  /\ \A i, j \in DOMAIN applied[l] : i < j => applied[l][i].sequence < applied[l][j].sequence
  /\ \A i \in DOMAIN applied[l] : applied[l][i].sequence < expected[l]
  /\ \A o \in seen[l] :
       /\ o.event.sequence < expected[l]
       /\ o.answer = "ok" => \E i \in DOMAIN applied[l] : applied[l][i].id = o.event.id
  /\ \A k \in DOMAIN back[l] :
       /\ back[l][k].id < nextId
       /\ back[l][k].answer = "ok" =>
            \E i \in DOMAIN applied[l] : applied[l][i].id = back[l][k].id

\* A session ends once, on a LAN only, and nothing is sent after its last event.
SessionOK ==
  /\ Wan => phase = "open" /\ final = 0
  /\ phase = "releasing" => final # 0
  /\ final # 0 => /\ phase \in {"releasing", "ended"}
                  /\ nextId = final + 1
                  /\ "reliable" \in Lanes

\* The ReleaseAlls that end a session have consecutive ids, and each was begun
\* after the one before it was acknowledged.
ReleasesOK ==
  /\ releases \in Nat /\ releases <= Scopes /\ releases <= final
  /\ releases = 0 <=> final = 0
  /\ \A id \in Nat : id < final /\ id + releases > final => id \in told
  /\ phase = "releasing" =>
       IF Idle("reliable") THEN final \in told
       ELSE request["reliable"].id = final /\ final \notin told
  /\ \A l \in Lanes : l # "reliable" /\ ~Idle(l) => request[l].id # final
  /\ phase = "ended" /\ "reliable" \in Lanes => Idle("reliable")
  /\ phase = "ended" /\ final \in told => releases = Scopes \/ final = 0

\* On a LAN the target is at most one reliable number behind a controller that
\* has not failed, and at most two behind one that sent its last event; the
\* last number belongs to the last event, which is remembered once admitted.
ReliableOK ==
  LET l == "reliable"
      n == sequence[l]
      x == expected[l]
  IN "reliable" \in Lanes /\ ~Wan =>
       /\ x <= n
       /\ phase \in {"open", "failing"} =>
            IF Idle(l) THEN x = n ELSE request[l].event.sequence + 1 = n /\ n <= x + 1
       /\ phase = "closing" => n <= x + 1
       /\ phase = "releasing" /\ Idle(l) => x = n
       /\ final # 0 =>
            /\ n <= x + 2
            /\ \A e \in Known(l) : e.id + releases > final => e.cleanup
            /\ \A e \in Known(l) : e.id = final <=> e.sequence + 1 = n
            /\ x = n => \E o \in seen[l] : o.event.id = final
            /\ \A k \in DOMAIN back[l] : back[l][k].id = final => back[l][k].answer # "replay"

LaneInv ==
  /\ Types
  /\ \A l \in Lanes : NumbersOK(l) /\ AnswersOK(l)
  /\ SessionOK
  /\ ReleasesOK
  /\ ReliableOK
  /\ OkMeansInjected

-----------------------------------------------------------------------------
(* Sequences and sets. *)

\* A non-empty set of numbers has a least one.
LEMMA LeastNumber ==
  ASSUME NEW T \in SUBSET Nat, T # {}
  PROVE  Min(T) \in T /\ \A y \in T : Min(T) <= y
<1>1. PICK x \in T : \A y \in T : ~(<<y, x>> \in OpToRel(<, Nat))
  BY NatLessThanWellFounded, WFMin
<1>2. ASSUME NEW y \in T
      PROVE  x <= y
  <2>1. x \in Nat /\ y \in Nat /\ <<y, x>> \in Nat \X Nat
    OBVIOUS
  <2>2. y < x => <<y, x>> \in OpToRel(<, Nat)
    BY <2>1 DEF OpToRel
  <2>3. ~(y < x)
    BY <1>1, <2>2
  <2> QED
    BY <2>1, <2>3
<1> QED
  BY <1>1, <1>2 DEF Min

\* A message that is put on a lane is the only new one.
LEMMA PutFacts ==
  ASSUME NEW S, NEW chan \in [Lanes -> Seq(S)], NEW l \in Lanes, NEW m \in S
  PROVE  /\ Put(chan, l, m) \in [Lanes -> Seq(S)]
         /\ \A k \in Lanes : k # l => Put(chan, l, m)[k] = chan[k]
         /\ \A i \in DOMAIN Put(chan, l, m)[l] :
              \/ Put(chan, l, m)[l][i] = m
              \/ i \in DOMAIN chan[l] /\ Put(chan, l, m)[l][i] = chan[l][i]
<1> DEFINE new == Put(chan, l, m)
<1>1. CASE new = [chan EXCEPT ![l] = Append(@, m)]
  <2>1. chan[l] \in Seq(S)
    OBVIOUS
  <2>2. Append(chan[l], m) \in Seq(S)
    BY <2>1
  <2>3. \A i \in DOMAIN Append(chan[l], m) :
          \/ Append(chan[l], m)[i] = m
          \/ i \in DOMAIN chan[l] /\ Append(chan[l], m)[i] = chan[l][i]
    BY <2>1
  <2> QED
    BY <1>1, <2>2, <2>3
<1>2. CASE new = [chan EXCEPT ![l] = @]
  BY <1>2
<1> QED
  BY <1>1, <1>2 DEF Put

\* A message that arrives was on its lane, and taking it adds none.
LEMMA TakenFacts ==
  ASSUME NEW S, NEW chan \in [Lanes -> Seq(S)], NEW l \in Lanes,
         NEW i \in Arriving(chan, l)
  PROVE  /\ i \in DOMAIN chan[l] /\ chan[l][i] \in S
         /\ Taken(chan, l, i) \in [Lanes -> Seq(S)]
         /\ \A k \in Lanes : k # l => Taken(chan, l, i)[k] = chan[k]
         /\ \A j \in DOMAIN Taken(chan, l, i)[l] :
              \E k \in DOMAIN chan[l] : Taken(chan, l, i)[l][j] = chan[l][k]
<1>1. chan[l] \in Seq(S) /\ Len(chan[l]) \in Nat
  OBVIOUS
<1>2. CASE Ordered(l)
  <2>1. Min({1, Len(chan[l])}) <= Len(chan[l]) /\ Min({1, Len(chan[l])}) \in {1, Len(chan[l])}
    <3>1. {1, Len(chan[l])} \in SUBSET Nat /\ {1, Len(chan[l])} # {}
      BY <1>1
    <3> QED
      BY <3>1, LeastNumber
  <2>2. i \in 1..Len(chan[l])
    BY <1>1, <1>2, <2>1 DEF Arriving
  <2>3. Tail(chan[l]) \in Seq(S) /\ \A j \in DOMAIN Tail(chan[l]) :
          j + 1 \in DOMAIN chan[l] /\ Tail(chan[l])[j] = chan[l][j + 1]
    BY <1>1, <2>2
  <2> QED
    BY <1>1, <1>2, <2>2, <2>3 DEF Taken
<1>3. CASE ~Ordered(l)
  BY <1>1, <1>3 DEF Arriving, Taken
<1> QED
  BY <1>2, <1>3

\* Pruning only removes.
LEMMA PrunedIncluded ==
  ASSUME NEW l, NEW S
  PROVE  Pruned(l, S) \subseteq S
BY DEF Pruned

\* Pruning the reliable lane keeps an observation with a higher number than
\* all the others.
LEMMA NewestKept ==
  ASSUME NEW S \in SUBSET [event : Event, answer : {"ok", "refused"}], NEW o \in S,
         \A p \in S : p # o => p.event.sequence < o.event.sequence
  PROVE  o \in Pruned("reliable", S)
<1> DEFINE T == {p.event.sequence : p \in S}
<1>1. CASE Cardinality(S) > Window
  <2>1. S # {o}
    <3>1. Cardinality({o}) = 1
      BY FS_Singleton
    <3> QED
      BY <1>1, <3>1, WindowPositive
  <2>2. PICK p \in S : p # o
    BY <2>1
  <2>3. T \in SUBSET Nat /\ T # {} /\ p.event.sequence \in T
    BY DEF Event
  <2>4. Min(T) <= p.event.sequence /\ Min(T) \in Nat
    BY <2>3, LeastNumber
  <2>5. o.event.sequence # Min(T)
    BY <2>2, <2>4 DEF Event
  <2> QED
    BY <1>1, <2>5 DEF Pruned
<1>2. CASE ~(Cardinality(S) > Window)
  BY <1>2 DEF Pruned
<1> QED
  BY <1>1, <1>2

-----------------------------------------------------------------------------
(* Numbers and ids. *)

\* No new event: the order of those that are left stays.
LEMMA NumbersKept ==
  ASSUME Types, Types', NEW l \in Lanes, NumbersOK(l), Known(l)' \subseteq Known(l),
         nextId' >= nextId, sequence'[l] >= sequence[l], route' = route
  PROVE  NumbersOK(l)'
<1>1. \A e \in Known(l) : e \in Event
  BY DEF Types, Known, Idle, Request
<1> QED
  BY <1>1, SMTT(30) DEF NumbersOK, Types, Event, Wan, Ids

\* The new event takes the next id and the current number.
LEMMA NumbersNew ==
  ASSUME Types, Types', NEW l \in Lanes, NumbersOK(l), NEW e \in Event,
         Known(l)' \subseteq Known(l) \cup {e},
         e.id = nextId, e.sequence = sequence[l], nextId' = nextId + 1,
         sequence' = AdvanceFirst(l), route' = route
  PROVE  NumbersOK(l)'
<1>1. \A f \in Known(l) : f \in Event
  BY SMTT(30) DEF Types, Known, Idle, Request
<1>2. sequence'[l] = IF Wan THEN sequence[l] ELSE sequence[l] + 1
  BY DEF AdvanceFirst, Types
<1>3. \A f \in Known(l) : f.id < e.id /\ f.sequence <= e.sequence
                          /\ (~Wan => f.sequence < e.sequence)
  BY DEF NumbersOK
<1>4. Wan' = Wan
  BY DEF Wan
<1>5. \A f \in Known(l)' : /\ f.id < nextId'
                           /\ f.sequence <= sequence'[l]
                           /\ ~Wan => f.sequence < sequence'[l]
  <2>1. \A f \in Known(l)' : f \in Event /\ (f \in Known(l) \/ f = e)
    BY <1>1
  <2>2. \A f \in Event : f.id \in Nat /\ f.sequence \in Nat
    BY EventsBounded DEF Event, Ids
  <2>3. nextId \in Nat /\ sequence[l] \in Nat
    BY DEF Types
  <2> QED
    BY <1>2, <1>3, <2>1, <2>2, <2>3
<1>6. ASSUME NEW f \in Known(l)', NEW g \in Known(l)'
      PROVE  /\ f.id = g.id => f = g
             /\ f.sequence < g.sequence => f.id < g.id
             /\ ~Wan /\ f.sequence = g.sequence => f = g
  <2>1. CASE f \in Known(l) /\ g \in Known(l)
    BY <2>1 DEF NumbersOK
  <2>2. CASE f \in Known(l) /\ g = e
    BY <1>1, <1>3, <2>2 DEF Event, Ids
  <2>3. CASE f = e /\ g \in Known(l)
    BY <1>1, <1>3, <2>3 DEF Event, Ids
  <2>4. CASE f = e /\ g = e
    BY <2>4 DEF Event, Ids
  <2> QED
    BY <2>1, <2>2, <2>3, <2>4
<1> QED
  BY <1>4, <1>5, <1>6 DEF NumbersOK

\* No lane learns of an event.
LEMMA KnownKept ==
  ASSUME NEW l \in Lanes,
         \A i \in DOMAIN wire'[l] : \E k \in DOMAIN wire[l] : wire'[l][i] = wire[l][k],
         applied'[l] = applied[l], seen'[l] = seen[l],
         Idle(l)' \/ (~Idle(l) /\ request'[l].event = request[l].event)
  PROVE  Known(l)' \subseteq Known(l)
BY DEF Known

\* What the receiver holds does not change, and no answer is added.
LEMMA AnswersKept ==
  ASSUME Types, Types', NEW l \in Lanes, AnswersOK(l),
         applied'[l] = applied[l], seen'[l] = seen[l], expected'[l] = expected[l],
         nextId' >= nextId,
         \A i \in DOMAIN back'[l] : \E k \in DOMAIN back[l] : back'[l][i] = back[l][k]
  PROVE  AnswersOK(l)'
<1>1. \A k \in DOMAIN back[l] : back[l][k].id \in Nat
  <2>1. \A k \in DOMAIN back[l] : back[l][k] \in Ack
    BY DEF Types
  <2> QED
    BY <2>1, EventsBounded DEF Ack, Ids
<1>2. nextId \in Nat /\ nextId' \in Nat
  BY DEF Types
<1>3. \A i \in DOMAIN back'[l] :
        /\ back'[l][i].id < nextId'
        /\ back'[l][i].answer = "ok" =>
             \E j \in DOMAIN applied[l] : applied[l][j].id = back'[l][i].id
  BY <1>1, <1>2 DEF AnswersOK
<1> QED
  BY <1>3 DEF AnswersOK

LEMMA EventTypes ==
  ASSUME Types, NEW l \in Lanes
  PROVE  /\ \A e \in Known(l) : e \in Event /\ e.id \in Nat \ {0} /\ e.sequence \in Nat
         /\ ~Idle(l) => /\ request[l] \in Request /\ request[l].event \in Known(l)
                        /\ request[l].id = request[l].event.id
<1>1. \A e \in Known(l) : e \in Event
  BY DEF Types, Known, Idle, Request
<1>2. \A e \in Event : e.id \in Nat \ {0} /\ e.sequence \in Nat
  BY EventsBounded DEF Event, Ids
<1>3. ~Idle(l) => /\ request[l] \in Request /\ request[l].event \in Known(l)
                  /\ request[l].id = request[l].event.id
  BY DEF Types, Known, Idle
<1> QED
  BY <1>1, <1>2, <1>3

LEMMA TransmitFacts ==
  ASSUME Types, NEW l \in Lanes, NEW e \in Event, Transmit(l, e)
  PROVE  /\ wire' \in [Lanes -> Seq(Event)]
         /\ \A k \in Lanes : k # l => wire'[k] = wire[k]
         /\ \A i \in DOMAIN wire'[l] :
              wire'[l][i] = e \/ \E k \in DOMAIN wire[l] : wire'[l][i] = wire[l][k]
<1>1. wire \in [Lanes -> Seq(Event)]
  BY DEF Types
<1>2. CASE wire' = Put(wire, l, e)
  BY <1>1, <1>2, PutFacts
<1>3. CASE UNCHANGED wire
  BY <1>1, <1>3
<1> QED
  BY <1>2, <1>3 DEF Transmit

-----------------------------------------------------------------------------
(* The controller. *)

\* A new event in flight, whatever it is for.
LEMMA BeginStep ==
  ASSUME LaneInv, NEW l \in Lanes, NEW cleanup \in BOOLEAN, Idle(l), Begin(l, cleanup),
         UNCHANGED <<back, receiver, route>>, final' \in Nat, phase' \in Phases
  PROVE  /\ Types'
         /\ \A k \in Lanes : NumbersOK(k)' /\ AnswersOK(k)'
         /\ sequence'[l] = IF Wan THEN sequence[l] ELSE sequence[l] + 1
         /\ \A k \in Lanes : k # l => sequence'[k] = sequence[k] /\ request'[k] = request[k]
         /\ ~Idle(l)' /\ request'[l].event.sequence = sequence[l] /\ request'[l].id = nextId
         /\ \A f \in Known(l)' :
              \/ f \in Known(l)
              \/ f.id = nextId /\ f.sequence = sequence[l] /\ f.cleanup = cleanup
         /\ nextId' = nextId + 1
<1> DEFINE e == [sequence |-> sequence[l], id |-> nextId, cleanup |-> cleanup]
           q == [id |-> nextId, event |-> e, attempt |-> 1]
<1>1. /\ nextId <= MaxEvents /\ nextId' = nextId + 1 /\ sequence' = AdvanceFirst(l)
      /\ request' = [request EXCEPT ![l] = q] /\ Transmit(l, e)
  BY DEF Begin
<1>2. nextId \in Ids /\ e \in Event
  BY <1>1, EventsBounded DEF LaneInv, Types, Ids, Event
<1>3. q \in Request /\ q # NoRequest /\ q.event = e /\ q.id = e.id
  BY <1>2, EventsBounded DEF Request, NoRequest, Ids
<1>4. /\ sequence' \in [Lanes -> Nat \ {0}]
      /\ sequence'[l] = IF Wan THEN sequence[l] ELSE sequence[l] + 1
      /\ \A k \in Lanes : k # l => sequence'[k] = sequence[k]
  BY <1>1 DEF AdvanceFirst, LaneInv, Types
<1>5. /\ request'[l] = q /\ \A k \in Lanes : k # l => request'[k] = request[k]
      /\ request' \in [Lanes -> Request \cup {NoRequest}]
  BY <1>1, <1>3 DEF LaneInv, Types
<1>6. /\ wire' \in [Lanes -> Seq(Event)]
      /\ \A k \in Lanes : k # l => wire'[k] = wire[k]
      /\ \A i \in DOMAIN wire'[l] :
           wire'[l][i] = e \/ \E k \in DOMAIN wire[l] : wire'[l][i] = wire[l][k]
  BY <1>1, <1>2, TransmitFacts DEF LaneInv
<1> HIDE DEF q, e
<1>7. Types'
  <2>1. \A k \in Lanes : ~Idle(k)' => request'[k].id = request'[k].event.id
    BY <1>3, <1>5 DEF LaneInv, Types, Idle
  <2> QED
    BY <1>1, <1>4, <1>5, <1>6, <2>1 DEF LaneInv, Types, receiver
<1>8. Known(l)' \subseteq Known(l) \cup {e}
  <2>1. request'[l].event = e /\ ~Idle(l)'
    BY <1>3, <1>5 DEF Idle
  <2> QED
    BY <1>6, <2>1 DEF Known, receiver
<1>9. NumbersOK(l)'
  <2>1. e.id = nextId /\ e.sequence = sequence[l]
    BY DEF e
  <2> QED
    BY <1>1, <1>2, <1>7, <1>8, <2>1, NumbersNew DEF LaneInv
<1>10. nextId' >= nextId
  BY <1>1 DEF LaneInv, Types
<1>11. ASSUME NEW k \in Lanes
       PROVE  NumbersOK(k)' /\ AnswersOK(k)'
  <2>1. AnswersOK(k)'
    BY <1>7, <1>10, AnswersKept DEF LaneInv, receiver
  <2>2. CASE k = l
    BY <1>9, <2>1, <2>2
  <2>3. CASE k # l
    <3>1. Known(k)' \subseteq Known(k)
      BY <1>5, <1>6, <2>3, KnownKept DEF Idle, receiver
    <3>2. sequence'[k] >= sequence[k]
      BY <1>4, <2>3 DEF LaneInv, Types
    <3> QED
      BY <1>7, <1>10, <2>1, <3>1, <3>2, NumbersKept DEF LaneInv
  <2> QED
    BY <2>2, <2>3
<1>12. e.id = nextId /\ e.sequence = sequence[l] /\ e.cleanup = cleanup
  BY DEF e
<1>13. ~Idle(l)' /\ request'[l].event.sequence = sequence[l] /\ request'[l].id = nextId
  BY <1>3, <1>5, <1>12 DEF Idle
<1> QED
  BY <1>1, <1>4, <1>5, <1>7, <1>8, <1>11, <1>12, <1>13

LEMMA SendInv ==
  ASSUME LaneInv, NEW l \in Lanes, NEW cleanup \in BOOLEAN, Send(l, cleanup)
  PROVE  LaneInv'
<1>1. /\ phase \in {"open", "failing"} /\ Idle(l) /\ Begin(l, cleanup)
      /\ UNCHANGED <<phase, releases, final, told, back, receiver, route>>
  BY DEF Send
<1>2. final = 0
  BY <1>1 DEF LaneInv, SessionOK
<1>3. final' \in Nat /\ phase' \in Phases
  BY <1>1, <1>2 DEF Phases
<1>4. /\ Types' /\ \A k \in Lanes : NumbersOK(k)' /\ AnswersOK(k)'
      /\ sequence'[l] = IF Wan THEN sequence[l] ELSE sequence[l] + 1
      /\ \A k \in Lanes : k # l => sequence'[k] = sequence[k] /\ request'[k] = request[k]
      /\ ~Idle(l)' /\ request'[l].event.sequence = sequence[l] /\ request'[l].id = nextId
  BY <1>1, <1>3, BeginStep
<1>5. SessionOK'
  BY <1>1, <1>2 DEF LaneInv, SessionOK, Wan
<1>6. ReliableOK'
  <2> SUFFICES ASSUME "reliable" \in Lanes, ~Wan
               PROVE  /\ expected["reliable"] <= sequence'["reliable"]
                      /\ IF Idle("reliable")' THEN expected["reliable"] = sequence'["reliable"]
                         ELSE /\ request'["reliable"].event.sequence + 1 = sequence'["reliable"]
                              /\ sequence'["reliable"] <= expected["reliable"] + 1
    BY <1>1, <1>2 DEF ReliableOK, Wan, receiver
  <2>1. expected["reliable"] \in Nat /\ sequence["reliable"] \in Nat
    BY DEF LaneInv, Types
  <2>2. CASE l = "reliable"
    <3>1. expected["reliable"] = sequence["reliable"]
      BY <1>1, <2>2 DEF LaneInv, ReliableOK
    <3> QED
      BY <1>4, <2>1, <2>2, <3>1
  <2>3. CASE l # "reliable"
    BY <1>1, <1>4, <2>1, <2>3 DEF LaneInv, ReliableOK, Idle
  <2> QED
    BY <2>2, <2>3
<1>7. OkMeansInjected'
  BY <1>1 DEF LaneInv, OkMeansInjected, receiver
<1>8. ReleasesOK'
  <2>1. ASSUME NEW k \in Lanes, ~Idle(k)'
        PROVE  request'[k].id # 0
    <3>1. CASE k = l
      BY <1>4, <3>1 DEF LaneInv, Types
    <3>2. CASE k # l
      <4>1. request'[k] = request[k] /\ ~Idle(k)
        BY <1>4, <2>1, <3>2 DEF Idle
      <4> QED
        BY <4>1, EventTypes DEF LaneInv
    <3> QED
      BY <3>1, <3>2
  <2> QED
    BY <1>1, <1>2, <2>1 DEF LaneInv, ReleasesOK
<1> QED
  BY <1>4, <1>5, <1>6, <1>7, <1>8 DEF LaneInv

\* The ids the caller was told of were given out before.
LEMMA ToldBelow ==
  ASSUME LaneInv
  PROVE  \A id \in told : id \in Nat /\ id < nextId
<1> SUFFICES ASSUME NEW id \in told
             PROVE  id \in Nat /\ id < nextId
  OBVIOUS
<1>1. PICK l \in Lanes : \E i \in DOMAIN applied[l] : applied[l][i].id = id
  BY DEF LaneInv, OkMeansInjected
<1>2. PICK i \in DOMAIN applied[l] : applied[l][i].id = id
  BY <1>1
<1>3. applied[l][i] \in Known(l)
  BY DEF Known
<1> QED
  BY <1>2, <1>3, EventTypes DEF LaneInv, NumbersOK

\* A ReleaseAll that ends the session: at most one number lies between it and
\* what the target expects.
LEMMA ReleaseAndEndInv ==
  ASSUME LaneInv, "reliable" \in Lanes, ReleaseAndEnd
  PROVE  LaneInv'
<1> DEFINE l == "reliable"
<1>1. /\ phase \in {"failing", "closing"} \/ (phase = "releasing" /\ releases < Scopes)
      /\ Idle(l) /\ Begin(l, TRUE)
      /\ phase' = "releasing" /\ releases' = releases + 1 /\ final' = nextId
      /\ UNCHANGED <<told, back, receiver, route>>
  BY DEF ReleaseAndEnd
<1>2. ~Wan /\ nextId \in Nat \ {0}
  BY <1>1 DEF LaneInv, SessionOK, Types
<1>3. /\ Types' /\ \A k \in Lanes : NumbersOK(k)' /\ AnswersOK(k)'
      /\ sequence'[l] = sequence[l] + 1
      /\ nextId' = nextId + 1
      /\ \A k \in Lanes : k # l => request'[k] = request[k]
      /\ ~Idle(l)' /\ request'[l].id = nextId
      /\ \A f \in Known(l)' :
           f \in Known(l) \/ (f.id = nextId /\ f.sequence = sequence[l] /\ f.cleanup = TRUE)
  <2>1. TRUE \in BOOLEAN /\ final' \in Nat /\ l \in Lanes /\ phase' \in Phases
    BY <1>1, <1>2 DEF Phases
  <2>2. /\ Types' /\ \A k \in Lanes : NumbersOK(k)' /\ AnswersOK(k)'
        /\ sequence'[l] = IF Wan THEN sequence[l] ELSE sequence[l] + 1
        /\ nextId' = nextId + 1
        /\ \A k \in Lanes : k # l => request'[k] = request[k]
        /\ ~Idle(l)' /\ request'[l].id = nextId
        /\ \A f \in Known(l)' :
             f \in Known(l) \/ (f.id = nextId /\ f.sequence = sequence[l] /\ f.cleanup = TRUE)
    BY <1>1, <2>1, BeginStep
  <2> QED
    BY <1>2, <2>2
<1>4. SessionOK'
  BY <1>1, <1>2, <1>3 DEF SessionOK, Wan
<1>5. expected[l] \in Nat /\ sequence[l] \in Nat
  BY DEF LaneInv, Types
<1>6. expected[l] <= sequence[l] /\ sequence[l] <= expected[l] + 1
  BY <1>1, <1>2, <1>5 DEF LaneInv, ReliableOK
<1>7. /\ releases \in Nat /\ final \in Nat
       /\ \/ releases = 0 /\ final = 0
          \/ /\ phase = "releasing" /\ final \in told /\ final # 0 /\ releases # 0
             /\ nextId = final + 1 /\ releases < Scopes /\ releases <= final
  BY <1>1 DEF LaneInv, SessionOK, ReleasesOK, Types
<1>8. ASSUME NEW f \in Known(l)'
      PROVE  /\ f.id + releases' > nextId => f.cleanup
             /\ f.id = nextId <=> f.sequence + 1 = sequence'[l]
  <2>1. CASE f \in Known(l)
    <3>1. f.id < nextId /\ f.sequence < sequence[l] /\ f.id \in Nat /\ f.sequence \in Nat
      BY <1>2, <2>1, EventTypes DEF LaneInv, NumbersOK
    <3>2. final # 0 /\ f.id + releases > final => f.cleanup
      BY <1>2, <2>1 DEF LaneInv, ReliableOK
    <3>3. f.id + releases' > nextId => f.cleanup
      BY <1>1, <1>2, <1>7, <3>1, <3>2
    <3> QED
      BY <1>2, <1>3, <1>5, <3>1, <3>3
  <2>2. CASE f.id = nextId /\ f.sequence = sequence[l] /\ f.cleanup = TRUE
    BY <1>3, <2>2
  <2> QED
    BY <1>3, <2>1, <2>2
<1>9. \A k \in DOMAIN back[l] : back[l][k].id # nextId
  <2>1. \A k \in DOMAIN back[l] : back[l][k].id < nextId /\ back[l][k] \in Ack
    BY DEF LaneInv, AnswersOK, Types
  <2> QED
    BY <1>2, <2>1, EventsBounded DEF Ack, Ids
<1>10. ReliableOK'
  BY <1>1, <1>3, <1>5, <1>6, <1>8, <1>9 DEF ReliableOK, receiver
<1>11. OkMeansInjected'
  BY <1>1 DEF LaneInv, OkMeansInjected, receiver
<1>12. ReleasesOK'
  <2>1. releases' \in Nat /\ releases' <= Scopes /\ releases' <= final' /\ (releases' = 0 <=> final' = 0)
    BY <1>1, <1>2, <1>7, ScopesGranted
  <2>2. \A id \in Nat : id < final' /\ id + releases' > final' => id \in told'
    <3>1. \A id \in Nat : id < final /\ id + releases > final => id \in told
      BY DEF LaneInv, ReleasesOK
    <3> QED
      BY <1>1, <1>2, <1>7, <3>1
  <2>3. final' \notin told'
    BY <1>1, <1>2, ToldBelow
  <2>4. \A k \in Lanes : k # "reliable" /\ ~Idle(k)' => request'[k].id # final'
    <3> SUFFICES ASSUME NEW k \in Lanes, k # "reliable", ~Idle(k)'
                 PROVE  request'[k].id # nextId
      BY <1>1
    <3>1. request'[k] = request[k] /\ ~Idle(k)
      BY <1>3 DEF Idle
    <3>2. request[k].id < nextId /\ request[k].id \in Nat
      BY <3>1, EventTypes DEF LaneInv, NumbersOK
    <3> QED
      BY <1>2, <3>1, <3>2
  <2> QED
    BY <1>1, <1>3, <2>1, <2>2, <2>3, <2>4 DEF ReleasesOK
<1> QED
  BY <1>3, <1>4, <1>10, <1>11, <1>12 DEF LaneInv

\* A sender step that sends nothing new and a receiver that does not move.
LEMMA QuietStep ==
  ASSUME LaneInv, NEW l \in Lanes,
         UNCHANGED <<receiver, route, nextId, final>>, phase' \in Phases,
         sequence' \in [Lanes -> Nat \ {0}], sequence'[l] >= sequence[l],
         \A k \in Lanes : k # l => sequence'[k] = sequence[k] /\ request'[k] = request[k],
         request' \in [Lanes -> Request \cup {NoRequest}],
         \/ Idle(l)'
         \/ ~Idle(l) /\ request'[l].id = request[l].id /\ request'[l].event = request[l].event,
         wire' \in [Lanes -> Seq(Event)],
         \A k \in Lanes : k # l => wire'[k] = wire[k],
         \A i \in DOMAIN wire'[l] :
            \/ ~Idle(l) /\ wire'[l][i] = request[l].event
            \/ \E k \in DOMAIN wire[l] : wire'[l][i] = wire[l][k],
         back' \in [Lanes -> Seq(Ack)],
         \A k \in Lanes : \A i \in DOMAIN back'[k] :
            \E j \in DOMAIN back[k] : back'[k][i] = back[k][j]
  PROVE  /\ Types'
         /\ \A k \in Lanes : NumbersOK(k)' /\ AnswersOK(k)' /\ Known(k)' \subseteq Known(k)
<1>1. Types'
  <2>1. \A k \in Lanes : ~Idle(k)' => request'[k].id = request'[k].event.id
    BY DEF LaneInv, Types, Idle
  <2> QED
    BY <2>1 DEF LaneInv, Types, receiver
<1>2. ASSUME NEW k \in Lanes
      PROVE  NumbersOK(k)' /\ AnswersOK(k)' /\ Known(k)' \subseteq Known(k)
  <2>1. nextId' >= nextId /\ sequence'[k] >= sequence[k]
    <3>1. nextId \in Nat /\ sequence[k] \in Nat /\ (k # l => sequence'[k] = sequence[k])
      BY DEF LaneInv, Types
    <3> QED
      BY <3>1
  <2>2. AnswersOK(k)'
    BY <1>1, <2>1, AnswersKept DEF LaneInv, receiver
  <2>3. Known(k)' \subseteq Known(k)
    <3>1. CASE k = l
      <4>1. \A i \in DOMAIN wire'[l] : wire'[l][i] \in Known(l)
        BY DEF Known
      <4>2. Idle(l)' \/ (~Idle(l) /\ request'[l].event \in Known(l))
        BY DEF Known
      <4> QED
        BY <3>1, <4>1, <4>2 DEF Known, receiver
    <3>2. CASE k # l
      BY <3>2, KnownKept DEF Idle, receiver
    <3> QED
      BY <3>1, <3>2
  <2> QED
    BY <1>1, <2>1, <2>2, <2>3, NumbersKept DEF LaneInv
<1> QED
  BY <1>1, <1>2

LEMMA ResendInv ==
  ASSUME LaneInv, NEW l \in Lanes, Resend(l)
  PROVE  LaneInv'
<1>1. /\ ~Idle(l) /\ Transmit(l, request[l].event)
      /\ UNCHANGED <<sequence, nextId, phase, releases, final, told, back, receiver, route>>
  BY DEF Resend
<1>2. request[l] \in Request /\ request[l].id = request[l].event.id /\ request[l].event \in Event
  BY <1>1, EventTypes DEF LaneInv, Request
<1>3. /\ request'[l] = [request[l] EXCEPT !.attempt = @ + 1]
      /\ \A k \in Lanes : k # l => request'[k] = request[k]
      /\ request' = [request EXCEPT ![l] = [request[l] EXCEPT !.attempt = @ + 1]]
  BY DEF Resend, LaneInv, Types
<1>4. /\ [request[l] EXCEPT !.attempt = @ + 1] \in Request
      /\ request'[l].id = request[l].id /\ request'[l].event = request[l].event
  BY <1>2, <1>3 DEF Request
<1>5. request' \in [Lanes -> Request \cup {NoRequest}]
  BY <1>3, <1>4 DEF LaneInv, Types
<1>6. /\ wire' \in [Lanes -> Seq(Event)]
      /\ \A k \in Lanes : k # l => wire'[k] = wire[k]
      /\ \A i \in DOMAIN wire'[l] :
           wire'[l][i] = request[l].event \/ \E k \in DOMAIN wire[l] : wire'[l][i] = wire[l][k]
  BY <1>1, <1>2, TransmitFacts DEF LaneInv
<1>7. /\ Types'
      /\ \A k \in Lanes : NumbersOK(k)' /\ AnswersOK(k)' /\ Known(k)' \subseteq Known(k)
  <2>1. /\ sequence' \in [Lanes -> Nat \ {0}] /\ sequence'[l] >= sequence[l]
        /\ phase' \in Phases
    BY <1>1 DEF LaneInv, Types
  <2>2. back' \in [Lanes -> Seq(Ack)]
    BY <1>1 DEF LaneInv, Types
  <2> QED
    BY <1>1, <1>3, <1>4, <1>5, <1>6, <2>1, <2>2, QuietStep, ZenonT(60)
<1>8. ~Idle(l)'
  <2>1. request'[l].id # 0
    BY <1>2, <1>4, EventsBounded DEF Request, Ids
  <2> QED
    BY <2>1 DEF Idle, NoRequest
<1>9. SessionOK'
  BY <1>1 DEF LaneInv, SessionOK, Wan
<1>10. ReliableOK'
  <2>1. "reliable" \in Lanes =>
          /\ Idle("reliable")' <=> Idle("reliable")
          /\ ~Idle("reliable") => request'["reliable"].event = request["reliable"].event
    BY <1>1, <1>3, <1>4, <1>8 DEF Idle
  <2> QED
    BY <1>1, <1>7, <2>1 DEF LaneInv, ReliableOK, Wan, receiver
<1>11. OkMeansInjected'
  BY <1>1 DEF LaneInv, OkMeansInjected, receiver
<1>12. ReleasesOK'
  <2>1. \A k \in Lanes : (Idle(k)' <=> Idle(k)) /\ request'[k].id = request[k].id
    BY <1>1, <1>3, <1>4, <1>8 DEF Idle
  <2>2. phase = "releasing" => "reliable" \in Lanes
    BY DEF LaneInv, SessionOK
  <2> QED
    BY <1>1, <2>1, <2>2 DEF LaneInv, ReleasesOK
<1> QED
  BY <1>7, <1>9, <1>10, <1>11, <1>12 DEF LaneInv

\* The event in flight ends: what holds whatever the session does then.
LEMMA EndStep ==
  ASSUME LaneInv, NEW l \in Lanes, request' = [request EXCEPT ![l] = NoRequest],
         sequence' \in [Lanes -> Nat \ {0}], sequence'[l] >= sequence[l],
         \A k \in Lanes : k # l => sequence'[k] = sequence[k],
         UNCHANGED <<nextId, final, wire, receiver, route>>, phase' \in Phases,
         back' \in [Lanes -> Seq(Ack)],
         \A k \in Lanes : \A i \in DOMAIN back'[k] :
            \E j \in DOMAIN back[k] : back'[k][i] = back[k][j]
  PROVE  /\ Types'
         /\ \A k \in Lanes : NumbersOK(k)' /\ AnswersOK(k)' /\ Known(k)' \subseteq Known(k)
         /\ Idle(l)' /\ \A k \in Lanes : k # l => request'[k] = request[k]
<1>1. /\ Idle(l)' /\ \A k \in Lanes : k # l => request'[k] = request[k]
      /\ request' \in [Lanes -> Request \cup {NoRequest}]
  BY DEF LaneInv, Types, Idle
<1>2. wire' \in [Lanes -> Seq(Event)]
  BY DEF LaneInv, Types
<1> QED
  BY <1>1, <1>2, QuietStep

\* A failed event: on a LAN a reliable one closes the session, so the target
\* can never be two numbers behind a sender that goes on.
LEMMA FailInv ==
  ASSUME LaneInv, NEW l \in Lanes, ~Idle(l), NEW terminal \in BOOLEAN,
         l = "reliable" => terminal, Fail(l, terminal),
         UNCHANGED <<told, receiver, route>>, back' \in [Lanes -> Seq(Ack)],
         \A k \in Lanes : \A i \in DOMAIN back'[k] :
            \E j \in DOMAIN back[k] : back'[k][i] = back[k][j]
  PROVE  LaneInv'
<1>1. /\ request' = [request EXCEPT ![l] = NoRequest]
      /\ UNCHANGED <<sequence, nextId, releases, final, wire>>
      /\ IF Wan \/ ~terminal THEN UNCHANGED phase ELSE AfterFailure(l)
  BY DEF Fail
<1>2. sequence' \in [Lanes -> Nat \ {0}] /\ sequence'[l] >= sequence[l]
  BY <1>1 DEF LaneInv, Types
<1>3. l = "reliable" => phase # "ended" /\ (phase = "releasing" => request[l].event.cleanup)
  <2> SUFFICES ASSUME l = "reliable", phase = "releasing"
               PROVE  request[l].event.cleanup
    BY DEF LaneInv, ReleasesOK
  <2>1. request[l].event \in Known(l) /\ request[l].id = request[l].event.id
    BY EventTypes DEF LaneInv
  <2>2. ~Wan /\ final # 0 /\ final \in Nat /\ request[l].id = final /\ releases \in Nat /\ releases # 0
    BY DEF LaneInv, SessionOK, ReleasesOK, Types
  <2>3. request[l].event.id + releases > final
    BY <2>1, <2>2
  <2> QED
    BY <2>1, <2>2, <2>3 DEF LaneInv, ReliableOK
<1>4. l = "reliable" /\ ~Wan =>
        \/ phase' = "ended"
        \/ phase' = "closing" /\ phase \notin {"releasing", "ended"}
  BY <1>1, <1>3 DEF AfterFailure
<1>5. \/ phase' = phase
      \/ /\ ~Wan
         /\ \/ phase' = "ended" /\ l = "reliable"
            \/ phase' = "closing" /\ l = "reliable" /\ phase \notin {"releasing", "ended"}
            \/ phase' = "failing" /\ l # "reliable" /\ phase = "open"
  BY <1>1, <1>4 DEF AfterFailure
<1>6. /\ Types'
      /\ \A k \in Lanes : NumbersOK(k)' /\ AnswersOK(k)' /\ Known(k)' \subseteq Known(k)
      /\ Idle(l)' /\ \A k \in Lanes : k # l => request'[k] = request[k]
  <2>1. phase' \in Phases
    BY <1>5 DEF LaneInv, Types, Phases
  <2> QED
    BY <1>1, <1>2, <2>1, EndStep
<1>7. SessionOK'
  BY <1>1, <1>5 DEF LaneInv, SessionOK, Wan
<1>8. ReliableOK'
  <2> SUFFICES ASSUME "reliable" \in Lanes, ~Wan
               PROVE  ReliableOK'
    BY DEF ReliableOK, Wan
  <2>1. Known("reliable")' \subseteq Known("reliable")
    BY <1>6
  <2>2. final # 0 => \A k \in DOMAIN back'["reliable"] :
            back'["reliable"][k].id = final => back'["reliable"][k].answer # "replay"
    BY DEF LaneInv, ReliableOK
  <2>3. final # 0 => phase' \in {"releasing", "ended"}
    BY <1>1, <1>7 DEF SessionOK
  <2>4. CASE l = "reliable"
    <3>1. phase' = "closing" => sequence["reliable"] <= expected["reliable"] + 1
      <4>1. phase \in {"open", "failing", "closing"} => sequence["reliable"] <= expected["reliable"] + 1
        BY <2>4 DEF LaneInv, ReliableOK
      <4>2. phase' = "closing" => phase \in {"open", "failing", "closing"}
        BY <1>4, <2>4 DEF LaneInv, Types, Phases
      <4> QED
        BY <4>1, <4>2
    <3> QED
      BY <1>1, <1>4, <2>1, <2>2, <2>4, <3>1 DEF LaneInv, ReliableOK, receiver
  <2>5. CASE l # "reliable"
    <3>1. request'["reliable"] = request["reliable"] /\ (Idle("reliable")' <=> Idle("reliable"))
      BY <1>6, <2>5 DEF Idle
    <3> QED
      BY <1>1, <1>5, <2>1, <2>2, <2>5, <3>1 DEF LaneInv, ReliableOK, receiver
  <2> QED
    BY <2>4, <2>5
<1>9. OkMeansInjected'
  BY DEF LaneInv, OkMeansInjected, receiver
<1>10. ReleasesOK'
  <2>1. \A k \in Lanes : k # "reliable" /\ ~Idle(k)' => request'[k].id # final'
    BY <1>1, <1>6 DEF LaneInv, ReleasesOK, Idle
  <2>2. CASE l = "reliable" /\ ~Wan
    <3>1. final \in told => final = 0
      BY <1>3, <2>2 DEF LaneInv, SessionOK, ReleasesOK, Types, Phases
    <3> QED
      BY <1>1, <1>4, <1>6, <2>1, <2>2, <3>1 DEF LaneInv, ReleasesOK
  <2>3. CASE Wan
    BY <1>1, <1>5, <2>1, <2>3 DEF LaneInv, ReleasesOK, SessionOK
  <2>4. CASE l # "reliable" /\ ~Wan
    <3>1. "reliable" \in Lanes =>
            request'["reliable"] = request["reliable"] /\ (Idle("reliable")' <=> Idle("reliable"))
      BY <1>6, <2>4 DEF Idle
    <3>2. phase = "releasing" => "reliable" \in Lanes
      BY DEF LaneInv, SessionOK
    <3>3. phase' = phase \/ phase' = "failing"
      BY <1>5, <2>4
    <3> QED
      BY <1>1, <2>1, <3>1, <3>2, <3>3 DEF LaneInv, ReleasesOK
  <2> QED
    BY <2>2, <2>3, <2>4
<1> QED
  BY <1>6, <1>7, <1>8, <1>9, <1>10 DEF LaneInv

LEMMA GiveUpInv ==
  ASSUME LaneInv, NEW l \in Lanes, GiveUp(l)
  PROVE  LaneInv'
<1>1. /\ ~Idle(l) /\ Fail(l, l = "reliable") /\ UNCHANGED <<told, back, receiver, route>>
      /\ (l = "reliable") \in BOOLEAN
  BY DEF GiveUp
<1>2. back' \in [Lanes -> Seq(Ack)]
  BY <1>1 DEF LaneInv, Types
<1> QED
  BY <1>1, <1>2, FailInv

\* An "ok" for the event in flight: it was injected, so the target has moved
\* past its number.
LEMMA OkInv ==
  ASSUME LaneInv, NEW l \in Lanes, ~Idle(l), NEW k \in DOMAIN back[l],
         back[l][k].id = request[l].id, back[l][k].answer = "ok",
         request' = [request EXCEPT ![l] = NoRequest],
         sequence' = IF Wan THEN [sequence EXCEPT ![l] = @ + 1] ELSE sequence,
         phase' = IF request[l].id = final /\ releases = Scopes THEN "ended" ELSE phase,
         told' = told \cup {request[l].id},
         UNCHANGED <<nextId, releases, final, wire, receiver, route>>,
         back' \in [Lanes -> Seq(Ack)],
         \A m \in Lanes : \A i \in DOMAIN back'[m] :
            \E j \in DOMAIN back[m] : back'[m][i] = back[m][j]
  PROVE  LaneInv'
<1>1. /\ sequence' \in [Lanes -> Nat \ {0}] /\ sequence'[l] >= sequence[l]
      /\ \A m \in Lanes : m # l => sequence'[m] = sequence[m]
  BY DEF LaneInv, Types
<1>2. phase' \in Phases
  BY DEF LaneInv, Types, Phases
<1>3. /\ Types'
      /\ \A m \in Lanes : NumbersOK(m)' /\ AnswersOK(m)' /\ Known(m)' \subseteq Known(m)
      /\ Idle(l)' /\ \A m \in Lanes : m # l => request'[m] = request[m]
  BY <1>1, <1>2, EndStep
<1>4. request[l].event \in Known(l) /\ request[l].id = request[l].event.id /\ request[l].id \in Nat \ {0}
  BY EventTypes DEF LaneInv
<1>5. PICK i \in DOMAIN applied[l] : applied[l][i].id = request[l].id
  BY DEF LaneInv, AnswersOK
<1>6. applied[l][i] = request[l].event
  <2>1. applied[l][i] \in Known(l)
    BY DEF Known
  <2> QED
    BY <1>4, <1>5, <2>1 DEF LaneInv, NumbersOK
<1>7. request[l].event.sequence < expected[l]
  BY <1>6 DEF LaneInv, AnswersOK
<1>8. SessionOK'
  BY <1>4 DEF LaneInv, SessionOK, Wan
<1>9. ReliableOK'
  <2> SUFFICES ASSUME "reliable" \in Lanes, ~Wan
               PROVE  ReliableOK'
    BY DEF ReliableOK, Wan
  <2>1. sequence' = sequence /\ Known("reliable")' \subseteq Known("reliable")
    BY <1>3
  <2>2. final # 0 => \A j \in DOMAIN back'["reliable"] :
            back'["reliable"][j].id = final => back'["reliable"][j].answer # "replay"
    BY DEF LaneInv, ReliableOK
  <2>3. CASE l = "reliable"
    <3>1. phase \in {"open", "failing"} => expected["reliable"] = sequence["reliable"]
      <4>1. phase \in {"open", "failing"} =>
              /\ request["reliable"].event.sequence + 1 = sequence["reliable"]
              /\ expected["reliable"] <= sequence["reliable"]
        BY <2>3 DEF LaneInv, ReliableOK
      <4>2. /\ expected["reliable"] \in Nat /\ sequence["reliable"] \in Nat
            /\ request["reliable"].event.sequence \in Nat
        BY <1>4, <2>3, EventTypes DEF LaneInv, Types
      <4> QED
        BY <1>7, <2>3, <4>1, <4>2
    <3>2. phase = "releasing" => expected["reliable"] = sequence["reliable"]
      <4>1. phase = "releasing" =>
              /\ request["reliable"].event.sequence + 1 = sequence["reliable"]
              /\ expected["reliable"] <= sequence["reliable"]
        BY <1>4, <2>3 DEF LaneInv, SessionOK, ReleasesOK, ReliableOK
      <4>2. /\ expected["reliable"] \in Nat /\ sequence["reliable"] \in Nat
            /\ request["reliable"].event.sequence \in Nat
        BY <1>4, <2>3, EventTypes DEF LaneInv, Types
      <4> QED
        BY <1>7, <2>3, <4>1, <4>2
    <3>3. phase' = phase \/ phase' = "ended"
      OBVIOUS
    <3> QED
      BY <1>3, <2>1, <2>2, <2>3, <3>1, <3>2, <3>3 DEF LaneInv, ReliableOK, receiver
  <2>4. CASE l # "reliable"
    <3>1. request'["reliable"] = request["reliable"] /\ (Idle("reliable")' <=> Idle("reliable"))
      BY <1>3, <2>4 DEF Idle
    <3> QED
      BY <2>1, <2>2, <3>1 DEF LaneInv, ReliableOK, receiver
  <2> QED
    BY <2>3, <2>4
<1>10. OkMeansInjected'
  BY <1>5 DEF LaneInv, OkMeansInjected, receiver
<1>11. ReleasesOK'
  <2>1. \A j \in Lanes : j # "reliable" /\ ~Idle(j)' => request'[j].id # final'
    BY <1>3 DEF LaneInv, ReleasesOK, Idle
  <2>2. \A id \in Nat : id < final' /\ id + releases' > final' => id \in told'
    BY DEF LaneInv, ReleasesOK
  <2>3. phase = "releasing" => "reliable" \in Lanes
    BY DEF LaneInv, SessionOK
  <2>4. CASE l = "reliable"
    <3>1. phase # "ended" /\ (phase = "releasing" => request[l].id = final)
      BY <2>4 DEF LaneInv, ReleasesOK
    <3> QED
      BY <1>3, <2>1, <2>2, <2>4, <3>1 DEF LaneInv, ReleasesOK
  <2>5. CASE l # "reliable"
    <3>1. request[l].id # final /\ phase' = phase
      BY <2>5 DEF LaneInv, ReleasesOK
    <3>2. "reliable" \in Lanes =>
            request'["reliable"] = request["reliable"] /\ (Idle("reliable")' <=> Idle("reliable"))
      BY <1>3, <2>5 DEF Idle
    <3>3. final \in told' <=> final \in told
      BY <3>1
    <3> QED
      BY <2>1, <2>2, <2>3, <3>1, <3>2, <3>3 DEF LaneInv, ReleasesOK
  <2> QED
    BY <2>4, <2>5
<1> QED
  BY <1>3, <1>8, <1>9, <1>10, <1>11 DEF LaneInv

\* An answer to something else is taken from an ordered lane and skipped; an
\* event that is dropped is taken from it too.
LEMMA SkipInv ==
  ASSUME LaneInv, NEW l \in Lanes, UNCHANGED <<sender, receiver, route>>,
         wire' \in [Lanes -> Seq(Event)],
         \A m \in Lanes : m # l => wire'[m] = wire[m],
         \A i \in DOMAIN wire'[l] : \E j \in DOMAIN wire[l] : wire'[l][i] = wire[l][j],
         back' \in [Lanes -> Seq(Ack)],
         \A m \in Lanes : \A i \in DOMAIN back'[m] :
            \E j \in DOMAIN back[m] : back'[m][i] = back[m][j]
  PROVE  LaneInv'
<1>1. UNCHANGED <<sequence, nextId, request, phase, releases, final, told>>
  BY DEF sender
<1>2. /\ Types'
      /\ \A m \in Lanes : NumbersOK(m)' /\ AnswersOK(m)' /\ Known(m)' \subseteq Known(m)
  <2>1. /\ sequence' \in [Lanes -> Nat \ {0}] /\ sequence'[l] >= sequence[l]
        /\ request' \in [Lanes -> Request \cup {NoRequest}] /\ phase' \in Phases
    BY <1>1 DEF LaneInv, Types
  <2>2. Idle(l)' \/ (~Idle(l) /\ request'[l].id = request[l].id /\ request'[l].event = request[l].event)
    BY <1>1 DEF Idle
  <2> QED
    BY <1>1, <2>1, <2>2, QuietStep
<1>3. SessionOK' /\ OkMeansInjected' /\ ReleasesOK'
  BY <1>1 DEF LaneInv, SessionOK, OkMeansInjected, ReleasesOK, Wan, Idle, receiver
<1>4. ReliableOK'
  <2>1. "reliable" \in Lanes /\ ~Wan /\ final # 0 => \A j \in DOMAIN back'["reliable"] :
            back'["reliable"][j].id = final => back'["reliable"][j].answer # "replay"
    BY DEF LaneInv, ReliableOK
  <2> QED
    BY <1>1, <1>2, <2>1 DEF LaneInv, ReliableOK, Wan, receiver, Idle
<1> QED
  BY <1>2, <1>3, <1>4 DEF LaneInv

LEMMA AnsweredInv ==
  ASSUME LaneInv, NEW l \in Lanes, NEW i \in Arriving(back, l), Answered(l, i)
  PROVE  LaneInv'
<1> DEFINE a == back[l][i]
           r == request[l]
<1>1. /\ i \in DOMAIN back[l] /\ back' \in [Lanes -> Seq(Ack)]
      /\ \A m \in Lanes : m # l => back'[m] = back[m]
      /\ \A j \in DOMAIN back'[l] : \E k \in DOMAIN back[l] : back'[l][j] = back[l][k]
  <2>1. back \in [Lanes -> Seq(Ack)] /\ back' = Taken(back, l, i)
    BY DEF LaneInv, Types, Answered
  <2> QED
    BY <2>1, TakenFacts
<1>2. \A m \in Lanes : \A j \in DOMAIN back'[m] : \E k \in DOMAIN back[m] : back'[m][j] = back[m][k]
  BY <1>1
<1>3. ~Idle(l) /\ UNCHANGED <<receiver, route>>
  BY DEF Answered
<1>4. CASE UNCHANGED <<sender, wire>>
  <2>1. wire' \in [Lanes -> Seq(Event)]
    BY <1>4 DEF LaneInv, Types
  <2> QED
    BY <1>1, <1>2, <1>3, <1>4, <2>1, SkipInv
<1>5. CASE Fail(l, TRUE) /\ UNCHANGED told
  BY <1>1, <1>2, <1>3, <1>5, FailInv
<1>6. CASE Fail(l, l = "reliable" \/ a.answer = "refused") /\ UNCHANGED told
  <2>1. (l = "reliable" \/ a.answer = "refused") \in BOOLEAN
    OBVIOUS
  <2> QED
    BY <1>1, <1>2, <1>3, <1>6, <2>1, FailInv
<1>7. CASE /\ SameEvent(a, r) /\ a.answer = "ok"
           /\ request' = [request EXCEPT ![l] = NoRequest]
           /\ sequence' = IF Wan THEN [sequence EXCEPT ![l] = @ + 1] ELSE sequence
           /\ phase' = IF r.id = final /\ releases = Scopes THEN "ended" ELSE phase
           /\ told' = told \cup {r.id}
           /\ UNCHANGED <<nextId, releases, final, wire>>
  BY <1>1, <1>2, <1>3, <1>7, OkInv DEF SameEvent
<1> QED
  BY <1>4, <1>5, <1>6, <1>7 DEF Answered

-----------------------------------------------------------------------------
(* The target. *)

\* What the answer to an event may add to the answers on their way.
LEMMA ReplyFacts ==
  ASSUME LaneInv, NEW l \in Lanes, NEW e \in Event,
         NEW answer \in {"ok", "replay", "refused"}, Reply(l, e, answer)
  PROVE  /\ back' \in [Lanes -> Seq(Ack)]
         /\ \A k \in Lanes : k # l => back'[k] = back[k]
         /\ \A j \in DOMAIN back'[l] :
              \/ back'[l][j].id = e.id /\ back'[l][j].answer = answer
              \/ \E k \in DOMAIN back[l] : back'[l][j] = back[l][k]
<1>1. PICK m : m = [sequence |-> e.sequence, id |-> e.id, answer |-> answer]
  OBVIOUS
<1>2. m \in Ack /\ m.id = e.id /\ m.answer = answer
  BY <1>1 DEF Ack, Event
<1>3. back \in [Lanes -> Seq(Ack)] /\ back' = Put(back, l, m)
  BY <1>1 DEF LaneInv, Types, Reply
<1>4. /\ Put(back, l, m) \in [Lanes -> Seq(Ack)]
      /\ \A k \in Lanes : k # l => Put(back, l, m)[k] = back[k]
      /\ \A j \in DOMAIN Put(back, l, m)[l] :
           \/ Put(back, l, m)[l][j] = m
           \/ j \in DOMAIN back[l] /\ Put(back, l, m)[l][j] = back[l][j]
  BY <1>2, <1>3, PutFacts
<1>5. \A j \in DOMAIN back'[l] :
        \/ back'[l][j].id = e.id /\ back'[l][j].answer = answer
        \/ \E k \in DOMAIN back[l] : back'[l][j] = back[l][k]
  BY <1>2, <1>3, <1>4
<1> QED
  BY <1>3, <1>4, <1>5

\* An event that arrives was sent; taking it from the wire adds none.
LEMMA ArrivalFacts ==
  ASSUME LaneInv, NEW l \in Lanes, NEW i \in Arriving(wire, l), wire' = Taken(wire, l, i)
  PROVE  /\ wire[l][i] \in Event /\ wire[l][i] \in Known(l)
         /\ wire' \in [Lanes -> Seq(Event)]
         /\ \A k \in Lanes : k # l => wire'[k] = wire[k]
         /\ \A k \in Lanes : \A j \in DOMAIN wire'[k] :
              \E m \in DOMAIN wire[k] : wire'[k][j] = wire[k][m]
<1>1. wire \in [Lanes -> Seq(Event)]
  BY DEF LaneInv, Types
<1>2. /\ i \in DOMAIN wire[l] /\ wire[l][i] \in Event
      /\ wire' \in [Lanes -> Seq(Event)]
      /\ \A k \in Lanes : k # l => wire'[k] = wire[k]
      /\ \A j \in DOMAIN wire'[l] : \E m \in DOMAIN wire[l] : wire'[l][j] = wire[l][m]
  BY <1>1, TakenFacts
<1> QED
  BY <1>2 DEF Known

\* An answer without any other effect: a retry gets the cached answer, a
\* refusal says nothing, and the last event is never called a replay.
LEMMA AnswerOnly ==
  ASSUME LaneInv, NEW l \in Lanes, NEW i \in Arriving(wire, l), wire' = Taken(wire, l, i),
         NEW answer \in {"ok", "replay", "refused"}, Reply(l, wire[l][i], answer),
         UNCHANGED <<receiver, sender, route>>,
         answer = "ok" => \E o \in seen[l] : o.event = wire[l][i] /\ o.answer = "ok",
         answer = "replay" /\ l = "reliable" /\ final # 0 => wire[l][i].id # final
  PROVE  LaneInv'
<1> DEFINE e == wire[l][i]
<1>1. /\ e \in Event /\ e \in Known(l) /\ wire' \in [Lanes -> Seq(Event)]
      /\ \A k \in Lanes : \A j \in DOMAIN wire'[k] :
           \E m \in DOMAIN wire[k] : wire'[k][j] = wire[k][m]
  BY ArrivalFacts
<1>2. /\ back' \in [Lanes -> Seq(Ack)]
      /\ \A k \in Lanes : k # l => back'[k] = back[k]
      /\ \A j \in DOMAIN back'[l] :
           \/ back'[l][j].id = e.id /\ back'[l][j].answer = answer
           \/ \E k \in DOMAIN back[l] : back'[l][j] = back[l][k]
  BY <1>1, ReplyFacts
<1>3. UNCHANGED <<sequence, nextId, request, phase, releases, final, told, expected, seen, applied>>
  BY DEF sender, receiver
<1>4. Types'
  BY <1>1, <1>2, <1>3 DEF LaneInv, Types, Idle
<1>5. ASSUME NEW k \in Lanes
      PROVE  NumbersOK(k)' /\ AnswersOK(k)' /\ Known(k)' \subseteq Known(k)
  <2>1. Known(k)' \subseteq Known(k)
    BY <1>1, <1>3, KnownKept DEF Idle
  <2>2. nextId' >= nextId /\ sequence'[k] >= sequence[k]
    BY <1>3 DEF LaneInv, Types
  <2>3. NumbersOK(k)'
    BY <1>4, <2>1, <2>2, NumbersKept DEF LaneInv
  <2>4. AnswersOK(k)'
    <3>1. CASE k # l
      BY <1>2, <1>3, <1>4, <2>2, <3>1, AnswersKept DEF LaneInv
    <3>2. CASE k = l
      <4>1. e.id < nextId
        BY <1>1 DEF LaneInv, NumbersOK
      <4>2. answer = "ok" => \E j \in DOMAIN applied[l] : applied[l][j].id = e.id
        BY DEF LaneInv, AnswersOK
      <4> QED
        BY <1>2, <1>3, <3>2, <4>1, <4>2 DEF LaneInv, AnswersOK
    <3> QED
      BY <3>1, <3>2
  <2> QED
    BY <2>1, <2>3, <2>4
<1>6. SessionOK' /\ OkMeansInjected' /\ ReleasesOK'
  BY <1>3 DEF LaneInv, SessionOK, OkMeansInjected, ReleasesOK, Wan, Idle
<1>7. ReliableOK'
  <2>1. "reliable" \in Lanes /\ ~Wan /\ final # 0 => \A j \in DOMAIN back'["reliable"] :
            back'["reliable"][j].id = final => back'["reliable"][j].answer # "replay"
    BY <1>2 DEF LaneInv, ReliableOK
  <2> QED
    BY <1>3, <1>5, <2>1 DEF LaneInv, ReliableOK, Wan, Idle
<1> QED
  BY <1>4, <1>5, <1>6, <1>7 DEF LaneInv

\* The last event is either remembered or admissible: the target is at most
\* one number short of it.
LEMMA LastAdmissible ==
  ASSUME LaneInv, "reliable" \in Lanes, final # 0, NEW e \in Known("reliable"), e.id = final
  PROVE  Retry("reliable", e) \/ Admissible("reliable", e)
<1> DEFINE n == sequence["reliable"]
           x == expected["reliable"]
<1>1. e.id + releases > final
  BY DEF LaneInv, ReleasesOK, Types
<1>2. /\ ~Wan /\ x <= n /\ n <= x + 2 /\ e.cleanup /\ e.sequence + 1 = n
      /\ x = n => \E o \in seen["reliable"] : o.event.id = final
  BY <1>1 DEF LaneInv, SessionOK, ReliableOK
<1>3. n \in Nat /\ x \in Nat /\ e.sequence \in Nat
  BY EventTypes DEF LaneInv, Types
<1>4. \A o \in seen["reliable"] : o.event.id = e.id => o.event = e
  <2>1. \A o \in seen["reliable"] : o.event \in Known("reliable")
    BY DEF Known
  <2> QED
    BY <2>1 DEF LaneInv, NumbersOK
<1>5. CASE KnownId("reliable", e)
  BY <1>4, <1>5 DEF KnownId, Retry
<1>6. CASE ~KnownId("reliable", e)
  <2>1. x # n
    BY <1>2, <1>6 DEF KnownId
  <2>2. e.sequence \in x..x + 1
    BY <1>2, <1>3, <2>1
  <2> QED
    BY <1>2, <1>6, <2>2 DEF Admissible
<1> QED
  BY <1>5, <1>6

\* What admission does to the lane, with the injection or without it.
LEMMA AdmitFacts ==
  ASSUME LaneInv, NEW l \in Lanes, NEW e \in Known(l), Admissible(l, e),
         NEW answer \in {"ok", "refused"}, Remember(l, e, answer)
  PROVE  /\ seen' \in [Lanes -> SUBSET [event : Event, answer : {"ok", "refused"}]]
         /\ expected' \in [Lanes -> Nat \ {0}]
         /\ \A k \in Lanes : k # l => seen'[k] = seen[k] /\ expected'[k] = expected[k]
         /\ expected'[l] = e.sequence + 1 /\ expected[l] <= e.sequence
         /\ \A o \in seen'[l] : o \in seen[l] \/ (o.event = e /\ o.answer = answer)
         /\ l = "reliable" => \E o \in seen'[l] : o.event = e
<1>1. /\ e \in Event /\ e.sequence \in Nat /\ expected[l] \in Nat \ {0}
      /\ seen[l] \in SUBSET [event : Event, answer : {"ok", "refused"}]
  BY EventTypes DEF LaneInv, Types
<1>2. PICK o : o = [event |-> e, answer |-> answer]
  OBVIOUS
<1>3. o \in [event : Event, answer : {"ok", "refused"}] /\ o.event = e /\ o.answer = answer
  BY <1>1, <1>2
<1>4. /\ seen' = [seen EXCEPT ![l] = Pruned(l, seen[l] \cup {o})]
      /\ expected' = [expected EXCEPT ![l] = e.sequence + 1]
  BY <1>2 DEF Remember
<1>5. Pruned(l, seen[l] \cup {o}) \subseteq seen[l] \cup {o}
  BY PrunedIncluded
<1>6. Pruned(l, seen[l] \cup {o}) \in SUBSET [event : Event, answer : {"ok", "refused"}]
  BY <1>1, <1>3, <1>5
<1>7. /\ seen'[l] = Pruned(l, seen[l] \cup {o}) /\ expected'[l] = e.sequence + 1
      /\ seen' \in [Lanes -> SUBSET [event : Event, answer : {"ok", "refused"}]]
      /\ expected' \in [Lanes -> Nat \ {0}]
      /\ \A k \in Lanes : k # l => seen'[k] = seen[k] /\ expected'[k] = expected[k]
  <2>1. seen \in [Lanes -> SUBSET [event : Event, answer : {"ok", "refused"}]]
    BY DEF LaneInv, Types
  <2>2. expected \in [Lanes -> Nat \ {0}] /\ e.sequence + 1 \in Nat \ {0}
    BY <1>1 DEF LaneInv, Types
  <2>3. /\ seen'[l] = Pruned(l, seen[l] \cup {o})
        /\ seen' \in [Lanes -> SUBSET [event : Event, answer : {"ok", "refused"}]]
        /\ \A k \in Lanes : k # l => seen'[k] = seen[k]
    BY <1>4, <1>6, <2>1, Zenon
  <2>4. /\ expected'[l] = e.sequence + 1
        /\ expected' \in [Lanes -> Nat \ {0}]
        /\ \A k \in Lanes : k # l => expected'[k] = expected[k]
    BY <1>4, <2>2
  <2> QED
    BY <2>3, <2>4
<1>8. expected[l] <= e.sequence
  <2>1. CASE l = "realtime"
    BY <1>1, <2>1 DEF Admissible
  <2>2. CASE l # "realtime" /\ e.cleanup
    BY <1>1, <2>2 DEF Admissible
  <2>3. CASE l # "realtime" /\ ~e.cleanup
    <3>1. e.sequence = expected[l]
      BY <2>3, Zenon DEF Admissible
    <3> QED
      BY <1>1, <3>1
  <2> QED
    BY <1>1, <2>1, <2>2, <2>3
<1>9. l = "reliable" => o \in seen'[l]
  <2>1. seen[l] \cup {o} \in SUBSET [event : Event, answer : {"ok", "refused"}] /\ o \in seen[l] \cup {o}
    BY <1>1, <1>3
  <2>2. ASSUME NEW p \in seen[l] \cup {o}, p # o
        PROVE  p.event.sequence < o.event.sequence
    <3>1. p.event.sequence < expected[l] /\ p.event.sequence \in Nat
      BY <1>1, <2>2 DEF LaneInv, AnswersOK, Event
    <3> QED
      BY <1>1, <1>3, <1>8, <3>1
  <2> QED
    BY <1>7, <2>1, <2>2, NewestKept
<1> QED
  BY <1>3, <1>5, <1>7, <1>8, <1>9

\* A new event is admitted and injected, or refused by the injector.
LEMMA AdmitInv ==
  ASSUME LaneInv, NEW l \in Lanes, NEW i \in Arriving(wire, l), wire' = Taken(wire, l, i),
         Admissible(l, wire[l][i]), NEW answer \in {"ok", "refused"},
         Remember(l, wire[l][i], answer), Reply(l, wire[l][i], answer),
         applied' = IF answer = "ok" THEN [applied EXCEPT ![l] = Append(@, wire[l][i])]
                                     ELSE applied,
         UNCHANGED <<sender, route>>
  PROVE  LaneInv'
<1>1. PICK e : e = wire[l][i]
  OBVIOUS
<1>2. /\ e \in Event /\ e \in Known(l) /\ wire' \in [Lanes -> Seq(Event)]
      /\ \A k \in Lanes : \A j \in DOMAIN wire'[k] :
           \E m \in DOMAIN wire[k] : wire'[k][j] = wire[k][m]
  BY <1>1, ArrivalFacts
<1>3. /\ back' \in [Lanes -> Seq(Ack)]
      /\ \A k \in Lanes : k # l => back'[k] = back[k]
      /\ \A j \in DOMAIN back'[l] :
           \/ back'[l][j].id = e.id /\ back'[l][j].answer = answer
           \/ \E k \in DOMAIN back[l] : back'[l][j] = back[l][k]
  BY <1>1, <1>2, ReplyFacts, ZenonT(60)
<1>4. /\ seen' \in [Lanes -> SUBSET [event : Event, answer : {"ok", "refused"}]]
      /\ expected' \in [Lanes -> Nat \ {0}]
      /\ \A k \in Lanes : k # l => seen'[k] = seen[k] /\ expected'[k] = expected[k]
      /\ expected'[l] = e.sequence + 1 /\ expected[l] <= e.sequence
      /\ \A o \in seen'[l] : o \in seen[l] \/ (o.event = e /\ o.answer = answer)
      /\ l = "reliable" => \E o \in seen'[l] : o.event = e
  BY <1>1, <1>2, AdmitFacts
<1>5. /\ applied' \in [Lanes -> Seq(Event)]
      /\ \A k \in Lanes : k # l => applied'[k] = applied[k]
      /\ applied'[l] = IF answer = "ok" THEN Append(applied[l], e) ELSE applied[l]
  BY <1>1, <1>2 DEF LaneInv, Types
<1>6. UNCHANGED <<sequence, nextId, request, phase, releases, final, told>>
  BY DEF sender
<1>7. Types'
  BY <1>2, <1>3, <1>4, <1>5, <1>6 DEF LaneInv, Types, Idle
<1>8. /\ \A j \in DOMAIN applied[l] : j \in DOMAIN applied'[l] /\ applied'[l][j] = applied[l][j]
      /\ \A j \in DOMAIN applied'[l] :
           \/ j \in DOMAIN applied[l]
           \/ /\ applied'[l][j] = e /\ answer = "ok"
              /\ \A k \in DOMAIN applied[l] : k < j
              /\ \A k \in DOMAIN applied'[l] : k <= j
      /\ answer = "ok" => \E j \in DOMAIN applied'[l] : applied'[l][j] = e
  <2>1. applied[l] \in Seq(Event)
    BY DEF LaneInv, Types
  <2>2. CASE answer = "ok"
    <3>1. /\ DOMAIN applied[l] = 1..Len(applied[l]) /\ Len(applied[l]) \in Nat
          /\ DOMAIN applied'[l] = 1..Len(applied[l]) + 1
          /\ applied'[l][Len(applied[l]) + 1] = e
          /\ \A j \in 1..Len(applied[l]) : applied'[l][j] = applied[l][j]
      BY <1>2, <1>5, <2>1, <2>2
    <3> QED
      BY <2>2, <3>1
  <2>3. CASE answer # "ok"
    BY <1>5, <2>3
  <2> QED
    BY <2>2, <2>3
<1>9. \A k \in Lanes : Known(k)' \subseteq Known(k)
  <2>1. Known(l)' \subseteq Known(l)
    <3>1. \A j \in DOMAIN applied'[l] : applied'[l][j] \in Known(l)
      BY <1>2, <1>8 DEF Known
    <3>2. \A o \in seen'[l] : o.event \in Known(l)
      BY <1>2, <1>4 DEF Known
    <3>3. \A j \in DOMAIN wire'[l] : wire'[l][j] \in Known(l)
      BY <1>2 DEF Known
    <3>4. ~Idle(l)' => request'[l].event \in Known(l)
      BY <1>6 DEF Known, Idle
    <3> QED
      BY <3>1, <3>2, <3>3, <3>4 DEF Known
  <2>2. \A k \in Lanes : k # l => Known(k)' \subseteq Known(k)
    BY <1>2, <1>4, <1>5, <1>6, KnownKept DEF Idle
  <2> QED
    BY <2>1, <2>2
<1>10. \A k \in Lanes : NumbersOK(k)'
  <2>1. \A k \in Lanes : nextId' >= nextId /\ sequence'[k] >= sequence[k]
    BY <1>6 DEF LaneInv, Types
  <2> QED
    BY <1>7, <1>9, <2>1, NumbersKept DEF LaneInv
<1>11. e.sequence \in Nat /\ expected[l] \in Nat
  BY <1>2, EventTypes DEF LaneInv, Types
<1>12. ASSUME NEW k \in Lanes
       PROVE  AnswersOK(k)'
  <2>1. CASE k # l
    <3>1. nextId' >= nextId
      BY <1>6 DEF LaneInv, Types
    <3> QED
      BY <1>3, <1>4, <1>5, <1>7, <2>1, <3>1, AnswersKept DEF LaneInv
  <2>2. CASE k = l
    <3>1. /\ \A j \in DOMAIN applied[l] : applied[l][j].sequence < expected[l] /\ applied[l][j].sequence \in Nat
          /\ \A a, b \in DOMAIN applied[l] : a < b => applied[l][a].sequence < applied[l][b].sequence
      <4>1. \A j \in DOMAIN applied[l] : applied[l][j] \in Event
        BY DEF LaneInv, Types
      <4> QED
        BY <4>1 DEF LaneInv, AnswersOK, Event
    <3>2. \A j \in DOMAIN applied'[l] : j \in Nat
      BY <1>7 DEF Types
    <3>3. \A j \in DOMAIN applied'[l] : applied'[l][j].sequence < expected'[l]
      BY <1>4, <1>8, <1>11, <3>1
    <3>4. \A a, b \in DOMAIN applied'[l] : a < b => applied'[l][a].sequence < applied'[l][b].sequence
      <4> SUFFICES ASSUME NEW a \in DOMAIN applied'[l], NEW b \in DOMAIN applied'[l], a < b
                   PROVE  applied'[l][a].sequence < applied'[l][b].sequence
        OBVIOUS
      <4>1. a \in DOMAIN applied[l]
        BY <1>8, <3>2
      <4>2. CASE b \in DOMAIN applied[l]
        BY <1>8, <3>1, <4>1, <4>2
      <4>3. CASE applied'[l][b] = e
        <5>1. applied'[l][a].sequence < expected[l] /\ applied'[l][a].sequence \in Nat
          BY <1>8, <3>1, <4>1
        <5> QED
          BY <1>4, <1>11, <4>3, <5>1
      <4> QED
        BY <1>8, <4>2, <4>3
    <3>5. ASSUME NEW o \in seen'[l]
          PROVE  /\ o.event.sequence < expected'[l]
                 /\ o.answer = "ok" => \E j \in DOMAIN applied'[l] : applied'[l][j].id = o.event.id
      <4>1. CASE o \in seen[l]
        <5>1. /\ o.event.sequence < expected[l] /\ o.event.sequence \in Nat
          BY <4>1 DEF LaneInv, Types, AnswersOK, Event
        <5>2. o.answer = "ok" => \E j \in DOMAIN applied[l] : applied[l][j].id = o.event.id
          BY <4>1 DEF LaneInv, AnswersOK
        <5>3. o.event.sequence < expected'[l]
          BY <1>4, <1>11, <5>1
        <5> QED
          BY <1>8, <5>2, <5>3
      <4>2. CASE o.event = e /\ o.answer = answer
        <5>1. o.event.sequence < expected'[l]
          BY <1>4, <1>11, <4>2
        <5> QED
          BY <1>8, <4>2, <5>1
      <4> QED
        BY <1>4, <4>1, <4>2
    <3>6. ASSUME NEW j \in DOMAIN back'[l]
          PROVE  /\ back'[l][j].id < nextId'
                 /\ back'[l][j].answer = "ok" =>
                      \E b \in DOMAIN applied'[l] : applied'[l][b].id = back'[l][j].id
      <4>1. CASE back'[l][j].id = e.id /\ back'[l][j].answer = answer
        <5>1. e.id < nextId
          BY <1>2 DEF LaneInv, NumbersOK
        <5> QED
          BY <1>6, <1>8, <4>1, <5>1
      <4>2. CASE \E m \in DOMAIN back[l] : back'[l][j] = back[l][m]
        <5>1. PICK m \in DOMAIN back[l] : back'[l][j] = back[l][m]
          BY <4>2
        <5>2. /\ back[l][m].id < nextId
              /\ back[l][m].answer = "ok" =>
                   \E b \in DOMAIN applied[l] : applied[l][b].id = back[l][m].id
          BY DEF LaneInv, AnswersOK
        <5> QED
          BY <1>6, <1>8, <5>1, <5>2
      <4> QED
        BY <1>3, <4>1, <4>2
    <3> QED
      BY <2>2, <3>3, <3>4, <3>5, <3>6 DEF AnswersOK
  <2> QED
    BY <2>1, <2>2
<1>13. SessionOK' /\ ReleasesOK'
  BY <1>6 DEF LaneInv, SessionOK, ReleasesOK, Wan, Idle
<1>14. OkMeansInjected'
  <2> SUFFICES ASSUME NEW id \in told
               PROVE  \E k \in Lanes : \E j \in DOMAIN applied'[k] : applied'[k][j].id = id
    BY <1>6 DEF OkMeansInjected
  <2>1. PICK k \in Lanes : \E j \in DOMAIN applied[k] : applied[k][j].id = id
    BY DEF LaneInv, OkMeansInjected
  <2> QED
    BY <1>5, <1>8, <2>1
<1>15. ReliableOK'
  <2>1. CASE l # "reliable"
    BY <1>3, <1>4, <1>6, <1>9, <2>1 DEF LaneInv, ReliableOK, Wan, Idle
  <2>2. CASE l = "reliable" /\ ~Wan
    <3> DEFINE n == sequence["reliable"]
               x == expected["reliable"]
               y == e.sequence + 1
    <3>1. n \in Nat /\ x \in Nat /\ y \in Nat /\ x < y /\ y <= n
      <4>1. e.sequence < n /\ n \in Nat
        BY <1>2, <2>2 DEF LaneInv, NumbersOK, Types
      <4> QED
        BY <1>4, <1>11, <2>2, <4>1
    <3>2. expected'["reliable"] = y /\ sequence'["reliable"] = n
      BY <1>4, <1>6, <2>2
    <3>3. phase' \in {"open", "failing"} =>
            IF Idle("reliable")' THEN y = n
            ELSE request'["reliable"].event.sequence + 1 = n /\ n <= y + 1
      <4>1. phase \in {"open", "failing"} =>
              IF Idle("reliable") THEN x = n
              ELSE request["reliable"].event.sequence + 1 = n /\ n <= x + 1
        BY <2>2 DEF LaneInv, ReliableOK
      <4>2. (Idle("reliable")' <=> Idle("reliable")) /\ request' = request /\ phase' = phase
        BY <1>6 DEF Idle
      <4> QED
        BY <3>1, <4>1, <4>2
    <3>4. phase' = "closing" => n <= y + 1
      <4>1. phase = "closing" => n <= x + 1
        BY <2>2 DEF LaneInv, ReliableOK
      <4> QED
        BY <1>6, <3>1, <4>1
    <3>5. ASSUME final # 0
          PROVE  /\ n <= y + 2
                 /\ \A f \in Known("reliable")' : f.id + releases > final => f.cleanup
                 /\ \A f \in Known("reliable")' : f.id = final <=> f.sequence + 1 = n
                 /\ y = n => \E o \in seen'["reliable"] : o.event.id = final
                 /\ \A k \in DOMAIN back'["reliable"] :
                      back'["reliable"][k].id = final => back'["reliable"][k].answer # "replay"
      <4>1. /\ n <= x + 2
            /\ \A f \in Known("reliable") : f.id + releases > final => f.cleanup
            /\ \A f \in Known("reliable") : f.id = final <=> f.sequence + 1 = n
            /\ \A k \in DOMAIN back["reliable"] :
                 back["reliable"][k].id = final => back["reliable"][k].answer # "replay"
        BY <2>2, <3>5 DEF LaneInv, ReliableOK
      <4>2. n <= y + 2
        BY <3>1, <4>1
      <4>3. y = n => \E o \in seen'["reliable"] : o.event.id = final
        BY <1>2, <1>4, <2>2, <4>1
      <4>4. \A k \in DOMAIN back'["reliable"] :
              back'["reliable"][k].id = final => back'["reliable"][k].answer # "replay"
        BY <1>3, <2>2, <4>1
      <4>5. /\ \A f \in Known("reliable")' : f.id + releases > final => f.cleanup
            /\ \A f \in Known("reliable")' : f.id = final <=> f.sequence + 1 = n
        BY <1>9, <2>2, <4>1
      <4> QED
        BY <4>2, <4>3, <4>4, <4>5
    <3>6. phase' = "releasing" /\ Idle("reliable")' => y = n
      <4>1. phase = "releasing" /\ Idle("reliable") => x = n
        BY <2>2 DEF LaneInv, ReliableOK
      <4>2. Idle("reliable")' <=> Idle("reliable")
        BY <1>6 DEF Idle
      <4> QED
        BY <1>6, <3>1, <4>1, <4>2
    <3> HIDE DEF n, x, y
    <3> QED
      BY <1>6, <3>1, <3>2, <3>3, <3>4, <3>5, <3>6 DEF ReliableOK, Wan
  <2>3. CASE Wan
    BY <2>3 DEF ReliableOK, Wan
  <2> QED
    BY <2>1, <2>2, <2>3
<1> QED
  BY <1>7, <1>10, <1>12, <1>13, <1>14, <1>15 DEF LaneInv

LEMMA ReceiveInv ==
  ASSUME LaneInv, NEW l \in Lanes, NEW i \in Arriving(wire, l), Receive(l, i)
  PROVE  LaneInv'
<1> DEFINE e == wire[l][i]
<1>1. wire' = Taken(wire, l, i) /\ UNCHANGED <<sender, route>>
  BY DEF Receive
<1>2. e \in Event /\ e \in Known(l)
  BY <1>1, ArrivalFacts
<1>3. CASE Reply(l, e, "refused") /\ UNCHANGED receiver
  BY <1>1, <1>3, AnswerOnly
<1>4. CASE UNCHANGED <<back, receiver>>
  <2>1. /\ back' \in [Lanes -> Seq(Ack)]
        /\ \A m \in Lanes : \A j \in DOMAIN back'[m] : \E k \in DOMAIN back[m] : back'[m][j] = back[m][k]
    BY <1>4 DEF LaneInv, Types
  <2>2. /\ wire' \in [Lanes -> Seq(Event)]
        /\ \A m \in Lanes : m # l => wire'[m] = wire[m]
        /\ \A j \in DOMAIN wire'[l] : \E k \in DOMAIN wire[l] : wire'[l][j] = wire[l][k]
    BY <1>1, ArrivalFacts
  <2> QED
    BY <1>1, <1>4, <2>1, <2>2, SkipInv
<1>5. CASE (\E o \in seen[l] : o.event = e /\ Reply(l, e, o.answer)) /\ UNCHANGED receiver
  <2>1. PICK o \in seen[l] : o.event = e /\ Reply(l, e, o.answer)
    BY <1>5
  <2>2. o.answer \in {"ok", "refused"}
    BY DEF LaneInv, Types
  <2> QED
    BY <1>1, <1>5, <2>1, <2>2, AnswerOnly
<1>6. CASE Inject(l, e)
  <2>1. Admissible(l, e)
    BY <1>6 DEF Inject
  <2>2. CASE /\ Remember(l, e, "ok") /\ Reply(l, e, "ok")
             /\ applied' = [applied EXCEPT ![l] = Append(@, e)]
    BY <1>1, <2>1, <2>2, AdmitInv
  <2>3. CASE /\ Remember(l, e, "refused") /\ Reply(l, e, "refused") /\ UNCHANGED applied
    BY <1>1, <2>1, <2>3, AdmitInv
  <2> QED
    BY <1>6, <2>2, <2>3 DEF Inject
<1>7. CASE /\ ~Retry(l, e) /\ ~Admissible(l, e)
           /\ Reply(l, e, "replay") /\ UNCHANGED receiver
  <2>1. l = "reliable" /\ final # 0 => e.id # final
    BY <1>2, <1>7, LastAdmissible
  <2> QED
    BY <1>1, <1>7, <2>1, AnswerOnly
<1> QED
  BY <1>3, <1>5, <1>6, <1>7, <1>4 DEF Receive, Spurned

-----------------------------------------------------------------------------
(* The theorems. *)

LEMMA InitInv == Init => LaneInv
<1> SUFFICES ASSUME Init
             PROVE  LaneInv
  OBVIOUS
<1>1. Types
  BY DEF Init, Types, Idle, Phases
<1>2. ASSUME NEW l \in Lanes
      PROVE  NumbersOK(l) /\ AnswersOK(l)
  <2>1. /\ wire[l] = << >> /\ back[l] = << >> /\ applied[l] = << >> /\ seen[l] = {}
        /\ Idle(l)
    BY DEF Init, Idle
  <2>2. Known(l) = {}
    BY <2>1 DEF Known
  <2> QED
    BY <2>1, <2>2 DEF NumbersOK, AnswersOK
<1>3. SessionOK /\ OkMeansInjected /\ ReleasesOK
  BY ScopesGranted DEF Init, SessionOK, OkMeansInjected, ReleasesOK, Idle
<1>4. ReliableOK
  BY DEF Init, ReliableOK, Idle
<1> QED
  BY <1>1, <1>2, <1>3, <1>4 DEF LaneInv

LEMMA StutterInv == LaneInv /\ UNCHANGED vars => LaneInv'
<1> SUFFICES ASSUME LaneInv, UNCHANGED vars
             PROVE  LaneInv'
  OBVIOUS
<1>1. UNCHANGED <<route, sequence, nextId, request, phase, releases, final, told, wire, back,
                  expected, seen, target, applied>>
  BY DEF vars, sender, receiver
<1>2. \A l \in Lanes : Known(l)' = Known(l)
  BY <1>1 DEF Known, Idle
<1>3. Types'
  BY <1>1 DEF LaneInv, Types, Idle
<1>4. \A l \in Lanes : NumbersOK(l)' /\ AnswersOK(l)'
  BY <1>1, <1>2 DEF LaneInv, NumbersOK, AnswersOK, Wan
<1>5. SessionOK' /\ OkMeansInjected' /\ ReleasesOK'
  BY <1>1 DEF LaneInv, SessionOK, OkMeansInjected, ReleasesOK, Wan, Idle
<1>6. ReliableOK'
  BY <1>1, <1>2 DEF LaneInv, ReliableOK, Wan, Idle
<1> QED
  BY <1>3, <1>4, <1>5, <1>6 DEF LaneInv

LEMMA NextInv == LaneInv /\ [Next]_vars => LaneInv'
<1> SUFFICES ASSUME LaneInv, [Next]_vars
             PROVE  LaneInv'
  OBVIOUS
<1>1. ASSUME NEW l \in Lanes, NEW cleanup \in BOOLEAN, Send(l, cleanup)
      PROVE  LaneInv'
  BY <1>1, SendInv
<1>2. ASSUME NEW l \in Lanes, Resend(l)
      PROVE  LaneInv'
  BY <1>2, ResendInv
<1>3. ASSUME NEW l \in Lanes, GiveUp(l)
      PROVE  LaneInv'
  BY <1>3, GiveUpInv
<1>4. ASSUME NEW l \in Lanes, NEW i \in Arriving(back, l), Answered(l, i)
      PROVE  LaneInv'
  BY <1>4, AnsweredInv
<1>5. ASSUME NEW l \in Lanes, NEW i \in Arriving(wire, l), Receive(l, i)
      PROVE  LaneInv'
  BY <1>5, ReceiveInv
<1>6. ASSUME "reliable" \in Lanes, ReleaseAndEnd
      PROVE  LaneInv'
  BY <1>6, ReleaseAndEndInv
<1>7. CASE UNCHANGED vars
  BY <1>7, StutterInv
<1> QED
  BY <1>1, <1>2, <1>3, <1>4, <1>5, <1>6, <1>7 DEF Next

\* The inductive invariant holds in every state of both senders.
THEOREM LaneInvariant == Spec => []LaneInv
BY InitInv, NextInv, PTL DEF Spec

\* Every lane injects events in the order they were sent, none twice, whatever
\* the network loses, repeats, delays or reorders (control_input.rs: the
\* observation windows).
THEOREM LanesInjectInOrder == Spec => []InjectedInOrder
<1>1. LaneInv => InjectedInOrder
  <2> SUFFICES ASSUME LaneInv, NEW l \in Lanes, NEW i \in DOMAIN applied[l],
                      NEW j \in DOMAIN applied[l], i < j
               PROVE  applied[l][i].id < applied[l][j].id
    BY DEF InjectedInOrder
  <2>1. applied[l][i] \in Known(l) /\ applied[l][j] \in Known(l)
    BY DEF Known
  <2>2. applied[l][i].sequence < applied[l][j].sequence
    BY DEF LaneInv, AnswersOK
  <2> QED
    BY <2>1, <2>2 DEF LaneInv, NumbersOK
<1> QED
  BY <1>1, LaneInvariant, PTL

\* The caller is told "applied" only of an injected event: the answers are
\* cached with the event they belong to, never with its number alone.
THEOREM ToldMeansInjected == Spec => []OkMeansInjected
<1>1. LaneInv => OkMeansInjected
  BY DEF LaneInv
<1> QED
  BY <1>1, LaneInvariant, PTL

\* Of the ReleaseAlls that end a LAN session the one in flight is never taken
\* for a replay, nothing but ReleaseAll is injected behind the first, and an
\* acknowledged end has released every granted scope (lan_control_input.rs:
\* finalize_outgoing_control_failure_under_security_gate and observe).
THEOREM ReleaseIsLast == Spec => []FinalReleaseWins
<1>1. LaneInv => FinalReleaseWins
  <2> SUFFICES ASSUME LaneInv, final # 0
               PROVE  /\ \A i \in DOMAIN back["reliable"] :
                           back["reliable"][i].id = final => back["reliable"][i].answer # "replay"
                      /\ \A i, j \in DOMAIN applied["reliable"] :
                           i < j /\ applied["reliable"][i].id + releases > final
                             => applied["reliable"][j].cleanup
                      /\ phase = "ended" /\ final \in told =>
                           releases = Scopes /\ \A k \in 0..releases - 1 : final - k \in told
    BY DEF FinalReleaseWins
  <2>1. "reliable" \in Lanes /\ ~Wan
    BY DEF LaneInv, SessionOK
  <2>2. ASSUME NEW i \in DOMAIN back["reliable"], back["reliable"][i].id = final
        PROVE  back["reliable"][i].answer # "replay"
    BY <2>1, <2>2 DEF LaneInv, ReliableOK
  <2>3. releases \in Nat /\ final \in Nat /\ releases <= final
    BY DEF LaneInv, ReleasesOK, Types
  <2>4. ASSUME NEW i \in DOMAIN applied["reliable"], NEW j \in DOMAIN applied["reliable"],
               i < j, applied["reliable"][i].id + releases > final
        PROVE  applied["reliable"][j].cleanup
    <3>1. PICK s : s = applied["reliable"]
      OBVIOUS
    <3>2. s[i] \in Known("reliable") /\ s[j] \in Known("reliable")
      BY <3>1 DEF Known
    <3>3. s[i].id < s[j].id /\ s[i].id \in Nat /\ s[j].id \in Nat
      <4>1. s[i].sequence < s[j].sequence
        BY <2>1, <2>4, <3>1 DEF LaneInv, AnswersOK
      <4> QED
        BY <2>1, <3>2, <4>1, EventTypes DEF LaneInv, NumbersOK
    <3>4. s[j].id + releases > final
      BY <2>3, <2>4, <3>1, <3>3
    <3> QED
      BY <2>1, <3>1, <3>2, <3>4 DEF LaneInv, ReliableOK
  <2>5. ASSUME phase = "ended", final \in told
        PROVE  releases = Scopes /\ \A k \in 0..releases - 1 : final - k \in told
    <3>1. releases = Scopes /\ \A id \in Nat : id < final /\ id + releases > final => id \in told
      BY <2>5 DEF LaneInv, ReleasesOK
    <3> QED
      BY <2>3, <2>5, <3>1
  <2> QED
    BY <2>2, <2>4, <2>5
<1> QED
  BY <1>1, LaneInvariant, PTL
=============================================================================
