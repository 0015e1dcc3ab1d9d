------------------------- MODULE RelayFailoverProofs -------------------------
(***************************************************************************)
(* What a relay failover leaves, for every number of recovery calls, nodes,*)
(* generations and attempts: input stays frozen while an attempt migrates, *)
(* and once no task is left no phase, no fence and no superseded route is, *)
(* but for the exceptions the properties name.  Nothing is assumed of the  *)
(* time a spawned guard or thaw takes, nor of where the deadline falls.    *)
(***************************************************************************)
EXTENDS RelayFailover, TLAPS

-----------------------------------------------------------------------------
(* The inductive invariant. *)

Planned == {"Refresh", "Claim"}
Claimed == Migrating \cup {"Freeze", "Recheck", "Retry"}
Working == Planned \cup Claimed
Owning  == Working \cup {"DiscardEnd", "End"}
Shown   == {"Publishing", "Check", "Commit"}

\* Only calls of the session's own end run; only a controller plans a generation
\* a second time.
SideInv ==
    /\ \A c \in Calls : Running(c) => (c \in Agents <=> s.end = "agent")
    /\ s.end = "agent" => overtaken = {}

\* A generation names one call, and a guard of that generation besides it means
\* that the generation was overtaken.  An answering end has one guard for each.
AttemptInv ==
    /\ \A b, c \in Calls : Running(b) /\ Running(c) /\ call[b].gen = call[c].gen => b = c
    /\ \A c \in Calls, d \in drops : Running(c) /\ d.gen = call[c].gen => d.gen \in overtaken
    /\ s.end = "agent" => \A d, e \in drops : d.gen = e.gen => d = e

\* An answering end takes a generation once.
OfferInv ==
    s.end = "agent" =>
         /\ \A c \in Calls : Running(c) => call[c].gen <= sent
         /\ \A d \in drops : d.gen <= sent

\* The monitor makes one call at a time and waits for its thaw; what it plans is
\* newer than every claim; a guard has work only when a generation was overtaken.
MonitorInv ==
    s.end = "controller" =>
         /\ \A b, c \in Calls : Running(b) /\ Running(c) => b = c
         /\ \A n \in thaws : \E c \in Calls : call[c].stage = "Thaw" /\ call[c].id = n
         /\ \A c \in Calls : /\ call[c].stage \in Planned => call[c].gen > s.high
                             /\ call[c].stage \in Claimed => call[c].gen = s.high
         /\ s.phase = "Planning" => s.pgen > s.high
         /\ s.phase = "InFlight" => s.pgen = s.high
         /\ overtaken = {} => late = {} /\ \A d \in drops : d.step = "Look"

\* A call at work holds the phase, unless the session has ended or the guard of
\* an earlier attempt in the same generation took it.
HoldInv ==
    ~s.ended => \A c \in Calls : call[c].gen \notin overtaken =>
        /\ call[c].stage \in Planned => s.phase = "Planning" /\ s.pgen = call[c].gen
        /\ call[c].stage \in Claimed => s.phase = "InFlight" /\ s.pgen = call[c].gen
        /\ call[c].stage # "Discard"

\* A phase that is held has a call or a dropped guard that will give it back.
OwnerInv ==
    ~s.ended /\ s.phase # "Idle" =>
        \/ \E c \in Calls : call[c].gen = s.pgen /\ call[c].stage \in Owning
        \/ \E d \in drops : /\ d.gen = s.pgen /\ s.end = "agent"
                            /\ \/ d.step = "Look"
                               \/ s.phase = "InFlight" /\ d.step \in {"Discard", "Settle"}

\* A fence has someone who will remove it.
LiftInv ==
    ~s.ended /\ frozen /\ s.high \notin overtaken =>
         s.phase = "InFlight" \/ thaws # {} \/ \E d \in drops : d.step = "Thaw"

\* No thaw is left that could undo the fence of an attempt at work.
FenceInv ==
    ~s.ended /\ overtaken = {} =>
      \A c \in Calls : call[c].stage \in Working /\ call[c].gen \notin late =>
         /\ thaws = {} /\ \A d \in drops : d.step # "Thaw"
         /\ call[c].stage \in Migrating \cup {"Recheck"} => frozen

\* A published generation that is not the session's has someone who will commit
\* it or close it, unless the deadline cut its commit off.
RouteInv ==
    /\ s.ended <=> cleanup # "None"
    /\ cleanup = "Done" => ~host.open
    /\ ~s.ended => \A c \in Calls : call[c].stage \in Shown => host.active = call[c].gen
    /\ ~s.ended /\ host.open /\ host.active # s.gen /\ host.active \notin cut =>
         \/ \E c \in Calls : call[c].stage \in Shown \cup {"Discard"} /\ call[c].gen = host.active
         \/ \E d \in drops : /\ d.gen = host.active /\ d.step \in {"Look", "Discard"}
                             /\ s.end = "agent" /\ Holds("InFlight", d.gen)

FailoverInv ==
    /\ TypeOK /\ SideInv /\ AttemptInv /\ OfferInv /\ MonitorInv /\ HoldInv /\ OwnerInv
    /\ LiftInv /\ FenceInv /\ RouteInv

-----------------------------------------------------------------------------
(* The entries of calls and guards. *)

CallRecord == [stage : Stages, id : Attempts, gen : Generations,
               avoid : Domains \cup {Direct}, target : Domains \cup {Direct}]

GuardRecord == [id : Attempts, gen : Generations,
                step : {"Look", "Discard", "Settle", "Thaw"}]

HostRecord == [open : BOOLEAN, active : Generations, seen : Generations, pending : Generations]

SessionRecord == [gen : Generations, high : Generations, phase : Phases,
                  pgen : Generations, ended : BOOLEAN, domain : Domains \cup {Direct},
                  end : {"controller", "agent"}]

\* Call c is at stage st after the step, in the same attempt.
Moves(c, st) ==
    /\ call' \in [Calls -> CallRecord]
    /\ call'[c].stage = st /\ call'[c].gen = call[c].gen /\ call'[c].id = call[c].id
    /\ \A b \in Calls : b # c => call'[b] = call[b]

\* Call c is gone after the step, and its guard has been dropped.
Left(c) ==
    /\ call' \in [Calls -> CallRecord] /\ call'[c].stage = "Out"
    /\ \A b \in Calls : b # c => call'[b] = call[b]
    /\ drops' \subseteq GuardRecord /\ drops \subseteq drops'
    /\ \E d \in drops' : d.gen = call[c].gen /\ d.step = "Look"
    /\ \A d \in drops' : d \in drops \/ (d.gen = call[c].gen /\ d.step = "Look")
    /\ s.end = "agent" => \A d, e \in drops' : d.gen = e.gen => d = e

LEMMA Shapes ==
  ASSUME TypeOK
  PROVE  /\ call \in [Calls -> CallRecord] /\ drops \subseteq GuardRecord
         /\ host \in HostRecord /\ s \in SessionRecord /\ thaws \subseteq Attempts
         /\ s.gen \in Generations /\ s.high \in Generations /\ s.pgen \in Generations
         /\ s.phase \in Phases /\ s.ended \in BOOLEAN /\ sent \in Generations
         /\ s.end \in {"controller", "agent"} /\ begun \in Attempts
         /\ cut \subseteq Generations /\ frozen \in BOOLEAN
         /\ grace \in {"None", "Running", "Over"}
         /\ cleanup \in {"None", "Freeze", "Close", "Done"}
BY DEF TypeOK, CallRecord, GuardRecord, HostRecord, SessionRecord

LEMMA GotoMoves ==
  ASSUME TypeOK, NEW c \in Calls, NEW st \in Stages, Goto(c, st)
  PROVE  Moves(c, st)
<1>1. call \in [Calls -> CallRecord]
  BY Shapes
<1>2. call' = [call EXCEPT ![c] = [@ EXCEPT !.stage = st]]
  BY DEF Goto
<1>3. [call[c] EXCEPT !.stage = st] \in CallRecord
  BY <1>1 DEF CallRecord
<1>4. call'[c] = [call[c] EXCEPT !.stage = st] /\ call' \in [Calls -> CallRecord]
  BY <1>1, <1>2, <1>3
<1>5. call'[c].stage = st /\ call'[c].gen = call[c].gen /\ call'[c].id = call[c].id
  BY <1>1, <1>4 DEF CallRecord
<1>6. \A b \in Calls : b # c => call'[b] = call[b]
  BY <1>1, <1>2
<1> QED
  BY <1>4, <1>5, <1>6 DEF Moves

LEMMA LeaveFacts ==
  ASSUME TypeOK, SideInv, AttemptInv, NEW c \in Calls, Running(c), Leave(c)
  PROVE  Left(c)
<1>1. call \in [Calls -> CallRecord] /\ drops \subseteq GuardRecord
  BY Shapes
<1>2. Absent \in CallRecord /\ Absent.stage = "Out"
  BY RelayAssumption DEF Absent, CallRecord, Stages, Generations, Attempts
<1>3. /\ call' = [call EXCEPT ![c] = Absent]
      /\ drops' = drops \cup {[id |-> call[c].id, gen |-> call[c].gen, step |-> "Look"]}
  BY DEF Leave
<1>4. /\ call' \in [Calls -> CallRecord] /\ call'[c] = Absent
      /\ \A b \in Calls : b # c => call'[b] = call[b]
  BY <1>1, <1>2, <1>3
<1>5. PICK n : n = [id |-> call[c].id, gen |-> call[c].gen, step |-> "Look"]
  OBVIOUS
<1>6. n \in GuardRecord /\ n.gen = call[c].gen /\ n.step = "Look"
  BY <1>1, <1>5 DEF GuardRecord, CallRecord
<1>7. drops' = drops \cup {n}
  BY <1>3, <1>5
<1>8. s.end = "agent" => \A d, e \in drops' : d.gen = e.gen => d = e
  <2>1. s.end = "agent" => \A d \in drops : d.gen # n.gen
    BY <1>6 DEF AttemptInv, SideInv
  <2> QED
    BY <1>7, <2>1 DEF AttemptInv
<1> QED
  BY <1>1, <1>2, <1>4, <1>6, <1>7, <1>8 DEF Left

\* The names of attempts stay distinct when no attempt begins.
LEMMA Identities ==
  ASSUME TypeOK, SideInv, AttemptInv, OfferInv, s'.end = s.end, sent' = sent,
         overtaken' = overtaken,
         \A b \in Calls : Running(b)' => Running(b) /\ call'[b].gen = call[b].gen,
         \A d \in drops' :
            \/ \E e \in drops : e.gen = d.gen
            \/ \E b \in Calls : Running(b) /\ ~Running(b)' /\ d.gen = call[b].gen,
         s.end = "agent" => \A d, e \in drops' : d.gen = e.gen => d = e
  PROVE  SideInv' /\ AttemptInv' /\ OfferInv'
<1>1. SideInv'
  BY DEF SideInv
<1>2. AttemptInv'
  <2>1. ASSUME NEW c \in Calls, NEW d \in drops', Running(c)', d.gen = call'[c].gen
        PROVE  d.gen \in overtaken
    <3>1. CASE \E e \in drops : e.gen = d.gen
      BY <2>1, <3>1 DEF AttemptInv
    <3>2. CASE \E b \in Calls : Running(b) /\ ~Running(b)' /\ d.gen = call[b].gen
      BY <2>1, <3>2 DEF AttemptInv
    <3> QED
      BY <3>1, <3>2
  <2>2. \A b, c \in Calls : Running(b)' /\ Running(c)' /\ call'[b].gen = call'[c].gen => b = c
    BY DEF AttemptInv
  <2> QED
    BY <2>1, <2>2 DEF AttemptInv
<1>3. OfferInv'
  BY DEF OfferInv
<1> QED
  BY <1>1, <1>2, <1>3

-----------------------------------------------------------------------------
(* Who holds the phase. *)

\* A call at work is the only one; unless its generation was overtaken it holds
\* the phase and no guard shares its generation.
LEMMA Alone ==
  ASSUME FailoverInv, ~s.ended, NEW c \in Calls, call[c].stage \in Working
  PROVE  /\ Running(c)
         /\ \A b \in Calls : b # c => call[b].stage \notin Working
         /\ call[c].gen \notin overtaken =>
              /\ s.pgen = call[c].gen /\ s.phase \in {"Planning", "InFlight"}
              /\ \A d \in drops : d.gen # s.pgen
<1>1. \A b \in Calls : call[b].stage \in Working => Running(b)
  BY DEF Running, Working, Planned, Claimed, Migrating
<1>2. \A b \in Calls : call[b].stage \in Working /\ call[b].gen \notin overtaken =>
         s.pgen = call[b].gen /\ s.phase \in {"Planning", "InFlight"}
  BY DEF Working, FailoverInv, HoldInv
<1>3. \A b \in Calls : b # c => call[b].stage \notin Working
  <2>1. CASE s.end = "controller"
    BY <1>1, <2>1 DEF FailoverInv, MonitorInv
  <2>2. CASE s.end = "agent"
    BY <1>1, <1>2, <2>2 DEF FailoverInv, AttemptInv, SideInv
  <2> QED
    BY <2>1, <2>2, Shapes DEF FailoverInv
<1>4. call[c].gen \notin overtaken => \A d \in drops : d.gen # s.pgen
  BY <1>1, <1>2 DEF FailoverInv, AttemptInv
<1> QED
  BY <1>1, <1>2, <1>3, <1>4

\* A call that has claimed has its generation on record.
LEMMA ClaimedInFlight ==
  ASSUME FailoverInv, ~s.ended, NEW c \in Calls, call[c].stage \in Claimed,
         s.high \notin overtaken
  PROVE  s.phase = "InFlight"
<1>1. CASE call[c].gen \notin overtaken
  BY <1>1 DEF FailoverInv, HoldInv
<1>2. CASE call[c].gen \in overtaken
  <2>1. s.end = "controller"
    BY <1>2, Shapes DEF FailoverInv, SideInv
  <2> QED
    BY <1>2, <2>1 DEF FailoverInv, MonitorInv
<1> QED
  BY <1>1, <1>2

\* A guard whose generation holds the phase: who works was overtaken.
LEMMA GuardAlone ==
  ASSUME FailoverInv, NEW d \in drops, Holds("Planning", d.gen) \/ Holds("InFlight", d.gen)
  PROVE  /\ \A b \in Calls : call[b].stage \in Working \cup {"Discard"} => call[b].gen \in overtaken
         /\ s.end = "controller" => overtaken # {}
<1>1. ~s.ended /\ s.pgen = d.gen /\ s.phase # "Idle"
  BY DEF Holds
<1>2. ASSUME NEW b \in Calls, call[b].stage \in Working
      PROVE  call[b].gen \in overtaken
  BY <1>1, <1>2, Alone
<1>3. \A b \in Calls : call[b].stage = "Discard" => call[b].gen \in overtaken
  BY <1>1 DEF FailoverInv, HoldInv
<1>4. ASSUME s.end = "controller"
      PROVE  overtaken # {}
  <2>1. PICK c \in Calls : call[c].gen = s.pgen /\ call[c].stage \in Owning
    BY <1>1, <1>4 DEF FailoverInv, OwnerInv
  <2>2. Running(c)
    BY <2>1 DEF Running, Owning, Working, Planned, Claimed, Migrating
  <2> QED
    BY <1>1, <2>1, <2>2 DEF FailoverInv, AttemptInv
<1> QED
  BY <1>2, <1>3, <1>4

\* While the session plans or idles, the host of an answering end shows the
\* session's generation, or one that was cut off.
LEMMA ShownIsOwn ==
  ASSUME FailoverInv, ~s.ended, host.open, host.active \notin cut,
         \/ s.end = "agent" /\ s.phase # "InFlight"
         \/ s.end = "controller" /\ \A b \in Calls : call[b].stage \notin Shown \cup {"Discard"}
  PROVE  host.active = s.gen
<1>1. CASE s.end = "agent" /\ s.phase # "InFlight"
  <2>1. \A b \in Calls : call[b].stage \notin Shown \cup {"Discard"}
    BY <1>1 DEF FailoverInv, HoldInv, SideInv, Shown, Claimed, Migrating
  <2> QED
    BY <1>1, <2>1 DEF FailoverInv, RouteInv, Holds
<1>2. CASE s.end = "controller" /\ \A b \in Calls : call[b].stage \notin Shown \cup {"Discard"}
  BY <1>2 DEF FailoverInv, RouteInv
<1> QED
  BY <1>1, <1>2

-----------------------------------------------------------------------------
(* Steps of a call that keep its phase. *)

\* The monitor's call goes on.
LEMMA MonitorKept ==
  ASSUME FailoverInv, NEW c \in Calls, NEW st \in Stages \ {"Out"}, Running(c),
         call[c].stage # "Thaw", Moves(c, st), UNCHANGED <<s, thaws, drops, overtaken, late>>,
         st \in Planned => call[c].stage \in Planned,
         st \in Claimed => call[c].stage \in Claimed
  PROVE  MonitorInv'
<1>1. /\ call'[c].stage = st /\ call'[c].gen = call[c].gen /\ call'[c].id = call[c].id
      /\ \A b \in Calls : b # c => call'[b] = call[b]
  BY DEF Moves
<1> SUFFICES ASSUME s.end = "controller"
             PROVE  /\ \A a, b \in Calls : Running(a)' /\ Running(b)' => a = b
                    /\ \A n \in thaws : \E b \in Calls : call'[b].stage = "Thaw" /\ call'[b].id = n
                    /\ \A b \in Calls : /\ call'[b].stage \in Planned => call'[b].gen > s.high
                                        /\ call'[b].stage \in Claimed => call'[b].gen = s.high
  BY DEF FailoverInv, MonitorInv
<1>2. \A b \in Calls : Running(b)' => Running(b)
  BY <1>1 DEF Running
<1>3. \A a, b \in Calls : Running(a)' /\ Running(b)' => a = b
  BY <1>2 DEF FailoverInv, MonitorInv
<1>4. \A n \in thaws : \E b \in Calls : call'[b].stage = "Thaw" /\ call'[b].id = n
  BY <1>1 DEF FailoverInv, MonitorInv
<1>5. \A b \in Calls : /\ call'[b].stage \in Planned => call'[b].gen > s.high
                       /\ call'[b].stage \in Claimed => call'[b].gen = s.high
  BY <1>1 DEF FailoverInv, MonitorInv
<1> QED
  BY <1>3, <1>4, <1>5

\* The call goes on to a later stage.
LEMMA AdvanceInv ==
  ASSUME FailoverInv, NEW c \in Calls, NEW st \in Stages \ {"Out"}, Running(c),
         call[c].stage # "Thaw", Moves(c, st),
         UNCHANGED <<s, grace, cleanup, thaws, drops, sent, begun, overtaken, late>>,
         st \in Planned => call[c].stage \in Planned,
         st \in Claimed => call[c].stage \in Claimed,
         st = "Discard" => s.ended \/ call[c].gen \in overtaken,
         call[c].stage \in Owning => st \in Owning \/ s.ended \/ s.phase = "Idle" \/ s.pgen # call[c].gen,
         frozen' \in BOOLEAN, frozen => frozen', frozen' => frozen \/ call[c].stage \in Claimed,
         st \in Migrating \cup {"Recheck"} =>
            frozen' = TRUE \/ call[c].stage \in Migrating \cup {"Recheck"},
         host' \in HostRecord, cut' \subseteq Generations, RouteInv'
  PROVE  FailoverInv'
<1>1. /\ call' \in [Calls -> CallRecord] /\ call'[c].stage = st /\ call'[c].gen = call[c].gen
      /\ \A b \in Calls : b # c => call'[b] = call[b]
  BY DEF Moves
<1>2. TypeOK'
  BY <1>1 DEF FailoverInv, TypeOK, CallRecord, HostRecord
<1>3. \A b \in Calls : (Running(b)' <=> Running(b)) /\ call'[b].gen = call[b].gen
  BY <1>1 DEF Running
<1>4. MonitorInv'
  BY MonitorKept
<1>5. SideInv' /\ AttemptInv' /\ OfferInv'
  <2>1. s.end = "agent" => \A d, e \in drops' : d.gen = e.gen => d = e
    BY DEF FailoverInv, AttemptInv
  <2> QED
    BY <1>3, <2>1, Identities DEF FailoverInv
<1>6. HoldInv'
  BY <1>1 DEF FailoverInv, HoldInv
<1>7. OwnerInv'
  <2> SUFFICES ASSUME ~s.ended, s.phase # "Idle",
                      NEW b \in Calls, call[b].gen = s.pgen, call[b].stage \in Owning
               PROVE  call'[b].gen = s.pgen /\ call'[b].stage \in Owning
    BY DEF FailoverInv, OwnerInv
  <2> QED
    BY <1>1
<1>8. LiftInv'
  BY ClaimedInFlight DEF FailoverInv, LiftInv
<1>9. FenceInv'
  <2> SUFFICES ASSUME ~s.ended, overtaken = {}, NEW b \in Calls,
                      call'[b].stage \in Working, call'[b].gen \notin late
               PROVE  /\ thaws = {} /\ \A d \in drops : d.step # "Thaw"
                      /\ call'[b].stage \in Migrating \cup {"Recheck"} => frozen'
    BY DEF FenceInv
  <2>1. call[b].stage \in Working /\ call[b].gen \notin late
    BY <1>1, <1>3 DEF Working
  <2>2. thaws = {} /\ \A d \in drops : d.step # "Thaw"
    BY <2>1 DEF FailoverInv, FenceInv
  <2>3. call'[b].stage \in Migrating \cup {"Recheck"} => frozen'
    BY <1>1, <2>1 DEF FailoverInv, FenceInv
  <2> QED
    BY <2>2, <2>3
<1> QED
  BY <1>2, <1>4, <1>5, <1>6, <1>7, <1>8, <1>9 DEF FailoverInv

\* The published generation stays, and so does the one who answers for it.
LEMMA RouteKept ==
  ASSUME FailoverInv, NEW c \in Calls, NEW st \in Stages, Moves(c, st),
         UNCHANGED <<s, cleanup, drops>>, cut \subseteq cut',
         host'.active = host.active, host'.open => host.open,
         st \in Shown => call[c].stage \in Shown,
         call[c].stage \in Shown \cup {"Discard"} =>
            st \in Shown \cup {"Discard"} \/ ~host'.open \/ call[c].gen \in cut'
  PROVE  RouteInv'
<1>1. /\ call'[c].stage = st /\ call'[c].gen = call[c].gen
      /\ \A b \in Calls : b # c => call'[b] = call[b]
  BY DEF Moves
<1>2. /\ s'.ended <=> cleanup' # "None"
      /\ cleanup' = "Done" => ~host'.open
      /\ ~s'.ended => \A b \in Calls : call'[b].stage \in Shown => host'.active = call'[b].gen
  BY <1>1 DEF FailoverInv, RouteInv
<1>3. ASSUME ~s.ended, host'.open, host'.active # s.gen, host'.active \notin cut'
      PROVE  \/ \E b \in Calls : call'[b].stage \in Shown \cup {"Discard"} /\ call'[b].gen = host'.active
             \/ \E d \in drops : /\ d.gen = host'.active /\ d.step \in {"Look", "Discard"}
                                 /\ s.end = "agent" /\ Holds("InFlight", d.gen)
  BY <1>1, <1>3 DEF FailoverInv, RouteInv
<1>4. \A d : Holds("InFlight", d.gen)' <=> Holds("InFlight", d.gen)
  BY DEF Holds
<1> QED
  BY <1>2, <1>3, <1>4 DEF RouteInv

\* The call ends, by returning or by being dropped: its guard takes over.  A
\* controller's call returns only when it holds nothing any more.
LEMMA LeaveInv ==
  ASSUME FailoverInv, NEW c \in Calls, Running(c), Leave(c),
         UNCHANGED <<s, grace, cleanup, frozen, thaws, sent, begun, overtaken, late, cut>>,
         host' \in HostRecord, host'.active = host.active, host'.open => host.open,
         s.end = "controller" =>
            /\ s.ended \/ s.phase = "Idle" \/ s.pgen # call[c].gen
            /\ call[c].stage \notin Shown
            /\ call[c].stage = "Discard" /\ call[c].gen = host.active => ~host'.open
            /\ call[c].stage = "Thaw" => call[c].id \notin thaws
  PROVE  FailoverInv'
<1>1. /\ call' \in [Calls -> CallRecord] /\ call'[c].stage = "Out"
      /\ \A b \in Calls : b # c => call'[b] = call[b]
      /\ drops' \subseteq GuardRecord /\ drops \subseteq drops'
      /\ \E d \in drops' : d.gen = call[c].gen /\ d.step = "Look"
      /\ \A d \in drops' : d \in drops \/ (d.gen = call[c].gen /\ d.step = "Look")
      /\ s.end = "agent" => \A d, e \in drops' : d.gen = e.gen => d = e
  BY LeaveFacts DEF FailoverInv, Left
<1>2. TypeOK'
  BY <1>1 DEF FailoverInv, TypeOK, CallRecord, HostRecord, GuardRecord
<1>3. ~Running(c)' /\ \A b \in Calls : b # c => (Running(b)' <=> Running(b)) /\ call'[b] = call[b]
  BY <1>1 DEF Running
<1>4. SideInv' /\ AttemptInv' /\ OfferInv'
  <2>1. \A b \in Calls : Running(b)' => Running(b) /\ call'[b].gen = call[b].gen
    BY <1>3
  <2>2. \A d \in drops' : \/ \E e \in drops : e.gen = d.gen
                          \/ \E b \in Calls : Running(b) /\ ~Running(b)' /\ d.gen = call[b].gen
    BY <1>1, <1>3
  <2> QED
    BY <1>1, <2>1, <2>2, Identities DEF FailoverInv
<1>5. MonitorInv'
  <2> SUFFICES ASSUME s.end = "controller"
               PROVE  /\ \A a, b \in Calls : Running(a)' /\ Running(b)' => a = b
                      /\ \A n \in thaws : \E b \in Calls : call'[b].stage = "Thaw" /\ call'[b].id = n
                      /\ \A b \in Calls : /\ call'[b].stage \in Planned => call'[b].gen > s.high
                                          /\ call'[b].stage \in Claimed => call'[b].gen = s.high
                      /\ overtaken = {} => \A d \in drops' : d.step = "Look"
    BY DEF FailoverInv, MonitorInv
  <2>1. \A b \in Calls : ~Running(b)'
    BY <1>3 DEF FailoverInv, MonitorInv
  <2>2. thaws = {}
    <3>1. ASSUME NEW n \in thaws
          PROVE  FALSE
      <4>1. PICK b \in Calls : call[b].stage = "Thaw" /\ call[b].id = n
        BY <3>1 DEF FailoverInv, MonitorInv
      <4>2. b = c
        BY <4>1 DEF Running, FailoverInv, MonitorInv
      <4> QED
        BY <3>1, <4>1, <4>2
    <3> QED
      BY <3>1
  <2>3. \A b \in Calls : call'[b].stage \notin Planned /\ call'[b].stage \notin Claimed
    BY <2>1 DEF Running, Planned, Claimed, Migrating
  <2>4. overtaken = {} => \A d \in drops' : d.step = "Look"
    BY <1>1 DEF FailoverInv, MonitorInv
  <2> QED
    BY <2>1, <2>2, <2>3, <2>4
<1>6. HoldInv'
  BY <1>1 DEF FailoverInv, HoldInv, Planned, Claimed, Migrating
<1>7. OwnerInv'
  <2> SUFFICES ASSUME ~s.ended, s.phase # "Idle"
               PROVE  \/ \E b \in Calls : call'[b].gen = s.pgen /\ call'[b].stage \in Owning
                      \/ \E d \in drops' :
                            /\ d.gen = s.pgen /\ s.end = "agent"
                            /\ \/ d.step = "Look"
                               \/ s.phase = "InFlight" /\ d.step \in {"Discard", "Settle"}
    BY DEF OwnerInv
  <2>1. CASE \E b \in Calls : call[b].gen = s.pgen /\ call[b].stage \in Owning
    <3>1. PICK b \in Calls : call[b].gen = s.pgen /\ call[b].stage \in Owning
      BY <2>1
    <3>2. CASE b # c
      BY <1>3, <3>1, <3>2
    <3>3. CASE b = c
      <4>1. s.end = "agent"
        BY <3>1, <3>3, Shapes DEF FailoverInv
      <4> QED
        BY <1>1, <3>1, <3>3, <4>1
    <3> QED
      BY <3>2, <3>3
  <2>2. CASE \E d \in drops : /\ d.gen = s.pgen /\ s.end = "agent"
                              /\ \/ d.step = "Look"
                                 \/ s.phase = "InFlight" /\ d.step \in {"Discard", "Settle"}
    BY <1>1, <2>2
  <2> QED
    BY <2>1, <2>2 DEF FailoverInv, OwnerInv
<1>8. LiftInv'
  BY <1>1 DEF FailoverInv, LiftInv
<1>9. FenceInv'
  <2>1. \A b \in Calls : call'[b].stage \in Working => call'[b] = call[b]
    BY <1>1 DEF Working, Planned, Claimed, Migrating
  <2> QED
    BY <1>1, <2>1 DEF FailoverInv, FenceInv
<1>10. RouteInv'
  <2>1. /\ s'.ended <=> cleanup' # "None"
        /\ cleanup' = "Done" => ~host'.open
        /\ ~s'.ended => \A b \in Calls : call'[b].stage \in Shown => host'.active = call'[b].gen
    BY <1>1 DEF FailoverInv, RouteInv, Shown
  <2>2. \A g : Holds("InFlight", g)' <=> Holds("InFlight", g)
    BY DEF Holds
  <2>3. ASSUME ~s.ended, host'.open, host'.active # s.gen, host'.active \notin cut
        PROVE  \/ \E b \in Calls : call'[b].stage \in Shown \cup {"Discard"} /\ call'[b].gen = host'.active
               \/ \E d \in drops' : /\ d.gen = host'.active /\ d.step \in {"Look", "Discard"}
                                    /\ s.end = "agent" /\ Holds("InFlight", d.gen)
    <3>1. CASE \E b \in Calls : call[b].stage \in Shown \cup {"Discard"} /\ call[b].gen = host.active
      <4>1. PICK b \in Calls : call[b].stage \in Shown \cup {"Discard"} /\ call[b].gen = host.active
        BY <3>1
      <4>2. CASE b = c
        <5>1. s.end = "agent"
          BY <2>3, <4>1, <4>2, Shapes DEF FailoverInv
        <5>2. Holds("InFlight", call[c].gen)
          BY <2>3, <4>1, <4>2, <5>1 DEF FailoverInv, SideInv, HoldInv, Holds, Shown, Claimed, Migrating
        <5> QED
          BY <1>1, <4>1, <4>2, <5>1, <5>2
      <4>3. CASE b # c
        BY <1>1, <4>1, <4>3
      <4> QED
        BY <4>2, <4>3
    <3>2. CASE \E d \in drops : /\ d.gen = host.active /\ d.step \in {"Look", "Discard"}
                                /\ s.end = "agent" /\ Holds("InFlight", d.gen)
      BY <1>1, <3>2
    <3> QED
      BY <2>3, <3>1, <3>2 DEF FailoverInv, RouteInv
  <2> QED
    BY <2>1, <2>2, <2>3 DEF RouteInv
<1> QED
  BY <1>2, <1>4, <1>5, <1>6, <1>7, <1>8, <1>9, <1>10 DEF FailoverInv

\* Generations that were cut off stay so.
LEMMA CutTyped ==
  ASSUME FailoverInv, UNCHANGED cut
  PROVE  cut' \subseteq Generations /\ cut \subseteq cut'
BY Shapes DEF FailoverInv

\* What most stages do: go on, or end the session later, and touch no route.
LEMMA StageInv ==
  ASSUME FailoverInv, NEW c \in Calls, NEW st \in Stages \ {"Out", "Freeze", "Recheck", "Discard"},
         Running(c), call[c].stage \in Owning, Moves(c, st), st \in Owning,
         UNCHANGED <<s, grace, cleanup, frozen, thaws, drops, sent, begun, overtaken, late>>,
         cut' \subseteq Generations, cut \subseteq cut',
         st \in Planned => call[c].stage \in Planned,
         st \in Migrating => call[c].stage \in Migrating \cup {"Recheck"},
         st = "Retry" => call[c].stage \in Claimed,
         host' \in HostRecord, host'.active = host.active, host'.open => host.open,
         st \in Shown => call[c].stage \in Shown,
         call[c].stage \in Shown => st \in Shown \/ ~host'.open \/ call[c].gen \in cut'
  PROVE  FailoverInv'
<1>1. call[c].stage # "Discard" /\ call[c].stage # "Thaw"
  BY DEF Owning, Working, Planned, Claimed, Migrating
<1>2. RouteInv'
  BY <1>1, RouteKept
<1>3. st \in Claimed => call[c].stage \in Claimed
  BY DEF Claimed
<1>4. frozen \in BOOLEAN
  BY DEF FailoverInv, TypeOK
<1> QED
  BY <1>1, <1>2, <1>3, <1>4, AdvanceInv

LEMMA RefreshedInv ==
  ASSUME FailoverInv, NEW c \in Calls, Refreshed(c)
  PROVE  FailoverInv'
<1>1. /\ call[c].stage = "Refresh" /\ Running(c)
      /\ UNCHANGED <<s, grace, cleanup, frozen, host, thaws, drops, sent, begun, overtaken, late, cut>>
      /\ host' \in HostRecord
  BY Shapes DEF Refreshed, history, Running, FailoverInv
<1>2. ASSUME NEW st \in {"Claim", "End"}, Moves(c, st)
      PROVE  FailoverInv'
  BY <1>1, <1>2, StageInv, CutTyped DEF Stages, Owning, Working, Planned, Claimed, Migrating, Shown
<1>3. ASSUME NEW d \in Domains, call' = [call EXCEPT ![c].stage = "Claim", ![c].target = d]
      PROVE  Moves(c, "Claim")
  <2>1. call \in [Calls -> CallRecord]
    BY Shapes DEF FailoverInv
  <2>2. PICK r : r = [call[c] EXCEPT !.stage = "Claim", !.target = d]
    OBVIOUS
  <2>3. r \in CallRecord /\ r.stage = "Claim" /\ r.gen = call[c].gen /\ r.id = call[c].id
    BY <2>1, <2>2 DEF CallRecord, Stages
  <2>4. call' = [call EXCEPT ![c] = r]
    BY <1>3, <2>1, <2>2
  <2> QED
    BY <2>1, <2>3, <2>4 DEF Moves
<1>4. ASSUME NEW st \in {"Claim", "End"}, Goto(c, st)
      PROVE  Moves(c, st)
  BY <1>4, GotoMoves DEF FailoverInv, Stages
<1> QED
  BY <1>2, <1>3, <1>4 DEF Refreshed

LEMMA RefreshRefusedInv ==
  ASSUME FailoverInv, NEW c \in Calls, RefreshRefused(c)
  PROVE  FailoverInv'
<1>1. /\ call[c].stage = "Refresh" /\ Running(c) /\ Goto(c, "End")
      /\ UNCHANGED <<s, grace, cleanup, frozen, host, thaws, drops, sent, begun, overtaken, late, cut>>
      /\ host' \in HostRecord
  BY Shapes DEF RefreshRefused, history, Running, FailoverInv
<1>2. Moves(c, "End")
  BY <1>1, GotoMoves DEF FailoverInv, Stages
<1> QED
  BY <1>1, <1>2, StageInv, CutTyped DEF Stages, Owning, Working, Planned, Claimed, Migrating, Shown

LEMMA FreezeInv ==
  ASSUME FailoverInv, NEW c \in Calls, Freeze(c)
  PROVE  FailoverInv'
<1>1. /\ call[c].stage = "Freeze" /\ Running(c) /\ frozen' = TRUE
      /\ UNCHANGED <<s, grace, cleanup, host, thaws, drops, sent, begun, overtaken, late, cut>>
      /\ host' \in HostRecord
  BY Shapes DEF Freeze, history, Running, FailoverInv
<1>2. ASSUME NEW st \in {"Begin", "Recheck", "End"}, Goto(c, st)
      PROVE  FailoverInv'
  <2>1. Moves(c, st)
    BY <1>2, GotoMoves DEF FailoverInv, Stages
  <2>2. RouteInv'
    BY <1>1, <2>1, RouteKept DEF Stages, Shown
  <2> QED
    BY <1>1, <2>1, <2>2, CutTyped, AdvanceInv DEF Stages, Owning, Working, Planned, Claimed, Migrating
<1> QED
  BY <1>2 DEF Freeze

\* A claim that its call does not hold any more is nobody's.
LEMMA ClaimedHeld ==
  ASSUME FailoverInv, s.end = "controller", NEW c \in Calls, call[c].stage \in Claimed,
         ~Holds("InFlight", call[c].gen)
  PROVE  s.ended \/ s.phase = "Idle" \/ s.pgen # call[c].gen
<1>1. s.phase \in Phases /\ s.high \in Nat
  BY Shapes, RelayAssumption DEF FailoverInv, Generations
<1>2. s.phase = "Terminal" => s.ended
  BY DEF FailoverInv, TypeOK
<1> QED
  BY <1>1, <1>2 DEF FailoverInv, MonitorInv, Holds, Phases

LEMMA RecheckInv ==
  ASSUME FailoverInv, NEW c \in Calls, Recheck(c)
  PROVE  FailoverInv'
<1>1. /\ call[c].stage = "Recheck" /\ Running(c)
      /\ UNCHANGED <<s, grace, cleanup, frozen, host, thaws, sent, begun, overtaken, late, cut>>
      /\ host' \in HostRecord
  BY Shapes DEF Recheck, history, Running, FailoverInv
<1>2. CASE Goto(c, "Begin") /\ UNCHANGED drops
  <2>1. Moves(c, "Begin")
    BY <1>2, GotoMoves DEF FailoverInv, Stages
  <2> QED
    BY <1>1, <1>2, <2>1, StageInv, CutTyped DEF Stages, Owning, Working, Planned, Claimed, Migrating, Shown
<1>3. CASE Leave(c) /\ ~Holds("InFlight", call[c].gen)
  <2>1. s.end = "controller" => s.ended \/ s.phase = "Idle" \/ s.pgen # call[c].gen
    BY <1>1, <1>3, ClaimedHeld DEF Claimed
  <2> QED
    BY <1>1, <1>3, <2>1, LeaveInv DEF Shown
<1> QED
  BY <1>2, <1>3 DEF Recheck

LEMMA BeginInv ==
  ASSUME FailoverInv, NEW c \in Calls, Begin(c)
  PROVE  FailoverInv'
<1>1. /\ call[c].stage = "Begin" /\ Running(c)
      /\ UNCHANGED <<s, grace, cleanup, frozen, thaws, drops, sent, begun, overtaken, late, cut>>
  BY DEF Begin, Running, history
<1>2. host' \in HostRecord /\ host'.active = host.active /\ host'.open = host.open
  <2>1. host \in HostRecord /\ call[c].gen \in Generations
    BY Shapes DEF FailoverInv, CallRecord
  <2> QED
    BY <2>1 DEF Begin, HostRecord
<1>3. ASSUME NEW st \in {"Exchange", "End", "Retry"}, Goto(c, st)
      PROVE  FailoverInv'
  <2>1. Moves(c, st)
    BY <1>3, GotoMoves DEF FailoverInv, Stages
  <2> QED
    BY <1>1, <1>2, <2>1, StageInv, CutTyped DEF Stages, Owning, Working, Planned, Claimed, Migrating, Shown
<1> QED
  BY <1>3 DEF Begin

\* The host publishes the generation of the call that holds the phase.
LEMMA PublishInv ==
  ASSUME FailoverInv, NEW c \in Calls, Publish(c)
  PROVE  FailoverInv'
<1>1. /\ call[c].stage = "Exchange" /\ Running(c)
      /\ UNCHANGED <<s, grace, cleanup, frozen, thaws, drops, sent, begun, overtaken, late, cut>>
  BY DEF Publish, Running, history
<1>2. host \in HostRecord /\ call[c].gen \in Generations
  BY Shapes DEF FailoverInv, CallRecord
<1>3. CASE /\ host' = [host EXCEPT !.active = call[c].gen, !.pending = 0]
           /\ Goto(c, "Publishing")
  <2>1. Moves(c, "Publishing")
    BY <1>3, GotoMoves DEF FailoverInv, Stages
  <2>2. host' \in HostRecord /\ host'.active = call[c].gen /\ host'.open = host.open
    <3>1. 0 \in Generations
      BY RelayAssumption DEF Generations
    <3> QED
      BY <1>2, <1>3, <3>1 DEF HostRecord
  <2>3. /\ call'[c].stage = "Publishing" /\ call'[c].gen = call[c].gen
        /\ \A b \in Calls : b # c => call'[b] = call[b]
    BY <2>1 DEF Moves
  <2>4. ~s.ended => \A b \in Calls : b # c => call[b].stage \notin Shown
    BY <1>1, Alone DEF Working, Claimed, Migrating, Shown
  <2>5. RouteInv'
    <3>1. (s'.ended <=> cleanup' # "None") /\ (cleanup' = "Done" => ~host'.open)
      BY <1>1, <2>2 DEF FailoverInv, RouteInv
    <3>2. ~s'.ended => \A b \in Calls : call'[b].stage \in Shown => host'.active = call'[b].gen
      BY <1>1, <2>2, <2>3, <2>4
    <3>3. call'[c].stage \in Shown /\ call'[c].gen = host'.active
      BY <2>2, <2>3 DEF Shown
    <3> QED
      BY <3>1, <3>2, <3>3 DEF RouteInv
  <2>7. frozen \in BOOLEAN
    BY DEF FailoverInv, TypeOK
  <2> QED
    BY <1>1, <2>1, <2>2, <2>5, <2>7, CutTyped, AdvanceInv
       DEF Stages, Owning, Working, Planned, Claimed, Migrating
<1>4. CASE UNCHANGED host /\ Goto(c, "Retry")
  <2>1. Moves(c, "Retry")
    BY <1>4, GotoMoves DEF FailoverInv, Stages
  <2> QED
    BY <1>1, <1>2, <1>4, <2>1, StageInv, CutTyped DEF Stages, Owning, Working, Planned, Claimed, Migrating, Shown
<1> QED
  BY <1>3, <1>4 DEF Publish

LEMMA PublishedInv ==
  ASSUME FailoverInv, NEW c \in Calls, Published(c)
  PROVE  FailoverInv'
<1>1. /\ call[c].stage = "Publishing" /\ Running(c) /\ Goto(c, "Check")
      /\ UNCHANGED <<s, grace, cleanup, frozen, host, thaws, drops, sent, begun, overtaken, late, cut>>
      /\ host' \in HostRecord
  BY Shapes DEF Published, history, Running, FailoverInv
<1>2. Moves(c, "Check")
  BY <1>1, GotoMoves DEF FailoverInv, Stages
<1> QED
  BY <1>1, <1>2, StageInv, CutTyped DEF Stages, Owning, Working, Planned, Claimed, Migrating, Shown

\* A deadline after the publication puts the generation on record.
LEMMA ExecutorFailsInv ==
  ASSUME FailoverInv, NEW c \in Calls, ExecutorFails(c)
  PROVE  FailoverInv'
<1>1. /\ call[c].stage \in {"Begin", "Exchange", "Publishing"} /\ Running(c) /\ Goto(c, "Retry")
      /\ UNCHANGED <<s, grace, cleanup, frozen, host, thaws, drops, sent, begun, overtaken, late>>
      /\ cut' = (IF call[c].stage = "Publishing" THEN cut \cup {call[c].gen} ELSE cut)
  BY DEF ExecutorFails, Running
<1>2. Moves(c, "Retry")
  BY <1>1, GotoMoves DEF FailoverInv, Stages
<1>3. host' \in HostRecord /\ cut \subseteq Generations /\ call[c].gen \in Generations
  BY <1>1, Shapes DEF FailoverInv, CallRecord
<1>4. /\ cut' \subseteq Generations /\ cut \subseteq cut'
      /\ call[c].stage = "Publishing" => call[c].gen \in cut'
  BY <1>1, <1>3
<1> QED
  BY <1>1, <1>2, <1>3, <1>4, StageInv
     DEF Stages, Owning, Working, Planned, Claimed, Migrating, Shown

LEMMA ExecutorRefusesInv ==
  ASSUME FailoverInv, NEW c \in Calls, ExecutorRefuses(c)
  PROVE  FailoverInv'
<1>1. /\ call[c].stage \in {"Begin", "Exchange"} /\ Running(c) /\ Goto(c, "End")
      /\ UNCHANGED <<s, grace, cleanup, frozen, host, thaws, drops, sent, begun, overtaken, late, cut>>
      /\ host' \in HostRecord
  BY Shapes DEF ExecutorRefuses, history, Running, FailoverInv
<1>2. Moves(c, "End")
  BY <1>1, GotoMoves DEF FailoverInv, Stages
<1> QED
  BY <1>1, <1>2, StageInv, CutTyped DEF Stages, Owning, Working, Planned, Claimed, Migrating, Shown

LEMMA CheckInv ==
  ASSUME FailoverInv, NEW c \in Calls, Check(c)
  PROVE  FailoverInv'
<1>1. /\ call[c].stage = "Check" /\ Running(c)
      /\ UNCHANGED <<s, grace, cleanup, frozen, host, thaws, drops, sent, begun, overtaken, late, cut>>
      /\ host' \in HostRecord
  BY Shapes DEF Check, history, Running, FailoverInv
<1>2. ASSUME NEW st \in {"Commit", "DiscardEnd"}, Goto(c, st), st = "DiscardEnd" => ~host.open
      PROVE  FailoverInv'
  <2>1. Moves(c, st)
    BY <1>2, GotoMoves DEF FailoverInv, Stages
  <2> QED
    BY <1>1, <1>2, <2>1, StageInv, CutTyped DEF Stages, Owning, Working, Planned, Claimed, Migrating, Shown
<1> QED
  BY <1>2 DEF Check

\* The phase of a controller is not a running call's that has no use for it.
LEMMA NotOwned ==
  ASSUME FailoverInv, s.end = "controller", NEW c \in Calls, Running(c), call[c].stage \notin Owning
  PROVE  s.ended \/ s.phase = "Idle" \/ s.pgen # call[c].gen
<1>1. \A b \in Calls : call[b].stage \in Owning => Running(b)
  BY DEF Running, Owning, Working, Planned, Claimed, Migrating
<1> QED
  BY <1>1 DEF FailoverInv, OwnerInv, MonitorInv

LEMMA DiscardInv ==
  ASSUME FailoverInv, NEW c \in Calls, Discard(c)
  PROVE  FailoverInv'
<1>1. UNCHANGED <<s, grace, cleanup, frozen, thaws, sent, begun, overtaken, late, cut>>
  BY DEF Discard, history
<1>2. host' \in HostRecord /\ host'.active = host.active /\ (host'.open => host.open)
  <2>1. host \in HostRecord
    BY Shapes DEF FailoverInv
  <2> QED
    BY <2>1 DEF Discard, Discarded, HostRecord
<1>3. CASE call[c].stage = "Discard" /\ Leave(c)
  <2>1. s.end = "controller" => s.ended \/ s.phase = "Idle" \/ s.pgen # call[c].gen
    BY <1>3, NotOwned DEF Running, Owning, Working, Planned, Claimed, Migrating
  <2>2. call[c].gen = host.active => ~host'.open
    <3>1. host \in HostRecord
      BY Shapes DEF FailoverInv
    <3> QED
      BY <3>1 DEF Discard, Discarded, HostRecord
  <2> QED
    BY <1>1, <1>2, <1>3, <2>1, <2>2, LeaveInv DEF Running, Shown
<1>4. CASE call[c].stage = "DiscardEnd" /\ Goto(c, "End") /\ UNCHANGED drops
  <2>1. Moves(c, "End")
    BY <1>4, GotoMoves DEF FailoverInv, Stages
  <2> QED
    BY <1>1, <1>2, <1>4, <2>1, StageInv, CutTyped DEF Running, Stages, Owning, Working, Planned, Claimed, Migrating, Shown
<1> QED
  BY <1>3, <1>4 DEF Discard

LEMMA ReturnInv ==
  ASSUME FailoverInv, NEW c \in Calls, Thawed(c) \/ Cancel(c) \/ Finish(c)
  PROVE  FailoverInv'
<1>1. /\ Running(c) /\ Leave(c)
      /\ UNCHANGED <<s, grace, cleanup, frozen, host, thaws, sent, begun, overtaken, late, cut>>
  BY DEF Thawed, Cancel, Finish, Running, history
<1>2. host' \in HostRecord
  BY <1>1, Shapes DEF FailoverInv
<1>3. s.end = "controller" => /\ call[c].stage \in {"Thaw", "Ended"}
                              /\ call[c].stage = "Thaw" => call[c].id \notin thaws
  <2>1. Cancel(c) => s.end = "agent"
    BY <1>1, RelayAssumption DEF Cancel, FailoverInv, SideInv
  <2> QED
    BY <2>1 DEF Thawed, Finish
<1>4. s.end = "controller" => s.ended \/ s.phase = "Idle" \/ s.pgen # call[c].gen
  BY <1>1, <1>3, NotOwned DEF Owning, Working, Planned, Claimed, Migrating
<1> QED
  BY <1>1, <1>2, <1>3, <1>4, LeaveInv DEF Shown

-----------------------------------------------------------------------------
(* Steps that take or give back the phase. *)

\* The phase is given back: who still works was overtaken.
LEMMA IdleInv ==
  ASSUME TypeOK', SideInv', AttemptInv', OfferInv', MonitorInv', s'.phase = "Idle",
         \A b \in Calls : call'[b].stage \in Working \cup {"Discard"} => call'[b].gen \in overtaken',
         frozen' /\ s'.high \notin overtaken' => thaws' # {} \/ \E d \in drops' : d.step = "Thaw",
         RouteInv'
  PROVE  FailoverInv'
<1>1. HoldInv' /\ OwnerInv'
  BY DEF HoldInv, OwnerInv, Working
<1>2. LiftInv' /\ FenceInv'
  BY DEF LiftInv, FenceInv
<1> QED
  BY <1>1, <1>2 DEF FailoverInv

LEMMA Idled ==
  ASSUME TypeOK, NEW g \in Generations, Holds("Planning", g) \/ Holds("InFlight", g),
         s' = Cleared(g)
  PROVE  /\ s' \in SessionRecord /\ s'.phase = "Idle" /\ ~s'.ended /\ s' # s
         /\ s'.gen = s.gen /\ s'.end = s.end /\ s'.high = s.high
<1>1. s \in SessionRecord /\ 0 \in Generations /\ "Idle" \in Phases
  BY RelayAssumption DEF TypeOK, SessionRecord, Generations, Phases
<1>2. s' = [s EXCEPT !.phase = "Idle", !.pgen = 0] /\ ~s.ended /\ s.phase # "Idle"
  BY DEF Cleared, Holds
<1> QED
  BY <1>1, <1>2, ZenonT(60) DEF SessionRecord

LEMMA NotIdled ==
  ASSUME NEW g, ~Holds("Planning", g), ~Holds("InFlight", g)
  PROVE  Cleared(g) = s
BY DEF Cleared

\* A plan that is the call's own is held in phase Planning and no other.
LEMMA PlannedHeld ==
  ASSUME FailoverInv, NEW c \in Calls, call[c].stage \in Planned,
         ~Holds("Planning", call[c].gen)
  PROVE  /\ ~Holds("InFlight", call[c].gen)
         /\ s.end = "controller" => s.ended \/ s.phase = "Idle" \/ s.pgen # call[c].gen
<1>1. s.phase \in Phases /\ s.high \in Nat /\ call[c].gen \in Nat
  BY Shapes, RelayAssumption DEF FailoverInv, Generations, CallRecord
<1>2. s.phase = "Terminal" => s.ended
  BY DEF FailoverInv, TypeOK
<1>3. CASE s.end = "controller"
  BY <1>1, <1>2, <1>3 DEF FailoverInv, MonitorInv, Holds, Phases
<1>4. CASE s.end = "agent"
  BY <1>4 DEF FailoverInv, SideInv, HoldInv, Holds
<1> QED
  BY <1>3, <1>4, Shapes DEF FailoverInv

LEMMA RefreshFailsInv ==
  ASSUME FailoverInv, NEW c \in Calls, RefreshFails(c)
  PROVE  FailoverInv'
<1>1. /\ call[c].stage = "Refresh" /\ Running(c) /\ s' = Cleared(call[c].gen) /\ Leave(c)
      /\ UNCHANGED <<grace, cleanup, frozen, host, thaws, sent, begun, overtaken, late, cut>>
  BY DEF RefreshFails, Running, history
<1>2. host' \in HostRecord /\ call[c].gen \in Generations
  BY <1>1, Shapes DEF FailoverInv, CallRecord
<1>3. CASE ~Holds("Planning", call[c].gen)
  <2>1. /\ ~Holds("InFlight", call[c].gen)
        /\ s.end = "controller" => s.ended \/ s.phase = "Idle" \/ s.pgen # call[c].gen
    BY <1>1, <1>3, PlannedHeld DEF Planned
  <2>2. s' = s
    BY <1>1, <1>3, <2>1, NotIdled
  <2> QED
    BY <1>1, <1>2, <2>1, <2>2, LeaveInv DEF Shown
<1>4. CASE Holds("Planning", call[c].gen)
  <2>1. ~s.ended /\ s.phase = "Planning" /\ s.pgen = call[c].gen
    BY <1>4 DEF Holds
  <2>2. /\ s' \in SessionRecord /\ s'.phase = "Idle" /\ ~s'.ended
        /\ s'.gen = s.gen /\ s'.end = s.end /\ s'.high = s.high
    BY <1>1, <1>2, <1>4, Idled DEF FailoverInv
  <2>3. /\ call' \in [Calls -> CallRecord] /\ call'[c].stage = "Out"
        /\ \A b \in Calls : b # c => call'[b] = call[b]
        /\ drops' \subseteq GuardRecord /\ drops \subseteq drops'
        /\ \A d \in drops' : d \in drops \/ (d.gen = call[c].gen /\ d.step = "Look")
        /\ s.end = "agent" => \A d, e \in drops' : d.gen = e.gen => d = e
    BY <1>1, LeaveFacts DEF FailoverInv, Left
  <2>4. TypeOK'
    BY <1>1, <2>2, <2>3 DEF FailoverInv, TypeOK, CallRecord, GuardRecord, SessionRecord
  <2>5. ~Running(c)' /\ \A b \in Calls : Running(b)' => Running(b) /\ call'[b] = call[b]
    BY <2>3 DEF Running
  <2>6. SideInv' /\ AttemptInv' /\ OfferInv'
    <3>1. \A d \in drops' : \/ \E e \in drops : e.gen = d.gen
                            \/ \E b \in Calls : Running(b) /\ ~Running(b)' /\ d.gen = call[b].gen
      BY <1>1, <2>3, <2>5
    <3> QED
      BY <1>1, <2>2, <2>3, <2>5, <3>1, Identities DEF FailoverInv
  <2>7. \A b \in Calls : call'[b].stage \notin Working
    BY <1>1, <2>1, <2>3, Alone DEF Working, Planned, Claimed, Migrating
  <2>8. \A b \in Calls : call'[b].stage = "Discard" => call'[b].gen \in overtaken
    BY <2>1, <2>3 DEF FailoverInv, HoldInv
  <2>9. MonitorInv'
    <3> SUFFICES ASSUME s.end = "controller"
                 PROVE  /\ \A b \in Calls : ~Running(b)'
                        /\ thaws = {}
                        /\ overtaken = {} => \A d \in drops' : d.step = "Look"
      BY <1>1, <2>2, <2>7 DEF MonitorInv, FailoverInv, Working
    <3>1. \A b \in Calls : ~Running(b)'
      BY <1>1, <2>5 DEF FailoverInv, MonitorInv
    <3>2. thaws = {}
      BY <1>1 DEF FailoverInv, MonitorInv, Running
    <3>3. overtaken = {} => \A d \in drops' : d.step = "Look"
      BY <2>3 DEF FailoverInv, MonitorInv
    <3> QED
      BY <3>1, <3>2, <3>3
  <2>10. frozen /\ s.high \notin overtaken => thaws # {} \/ \E d \in drops' : d.step = "Thaw"
    BY <2>1, <2>3 DEF FailoverInv, LiftInv
  <2>11. host.open /\ host.active \notin cut => host.active = s.gen
    <3>1. s.end = "controller" => \A b \in Calls : call[b].stage \notin Shown \cup {"Discard"}
      BY <1>1 DEF FailoverInv, MonitorInv, Running, Shown
    <3> QED
      BY <2>1, <3>1, ShownIsOwn, Shapes DEF FailoverInv
  <2>12. RouteInv'
    <3>1. cleanup = "None"
      BY <2>1 DEF FailoverInv, RouteInv
    <3>2. \A b \in Calls : call'[b].stage \notin Shown
      BY <2>7 DEF Working, Claimed, Migrating, Shown
    <3> QED
      BY <1>1, <2>2, <2>11, <3>1, <3>2 DEF RouteInv
  <2> QED
    BY <1>1, <2>2, <2>4, <2>6, <2>7, <2>8, <2>9, <2>10, <2>12, IdleInv
<1> QED
  BY <1>3, <1>4

\* A call that held the phase gives it back and waits for its thaw.
LEMMA GiveBackInv ==
  ASSUME FailoverInv, ~s.ended, NEW c \in Calls, call[c].stage \in Claimed,
         Goto(c, "Thaw"), thaws' = thaws \cup {call[c].id},
         s' \in SessionRecord, s'.phase = "Idle", ~s'.ended, s'.end = s.end, s'.high = s.high,
         grace' \in {"None", "Running", "Over"},
         UNCHANGED <<cleanup, frozen, host, drops, sent, begun, overtaken, late, cut>>,
         host.open /\ host.active \notin cut => host.active = s'.gen
  PROVE  FailoverInv'
<1>1. Moves(c, "Thaw")
  BY GotoMoves DEF FailoverInv, Stages
<1>2. /\ call' \in [Calls -> CallRecord] /\ call'[c].stage = "Thaw" /\ call'[c].gen = call[c].gen
      /\ call'[c].id = call[c].id
      /\ \A b \in Calls : b # c => call'[b] = call[b]
  BY <1>1 DEF Moves
<1>3. TypeOK'
  <2>1. thaws' \subseteq Attempts
    BY Shapes DEF FailoverInv, CallRecord
  <2> QED
    BY <1>2, <2>1 DEF FailoverInv, TypeOK, CallRecord, SessionRecord
<1>4. Running(c)
  BY DEF Running, Claimed, Migrating
<1>5. \A b \in Calls : (Running(b)' <=> Running(b)) /\ call'[b].gen = call[b].gen
  BY <1>2, <1>4 DEF Running
<1>6. SideInv' /\ AttemptInv' /\ OfferInv'
  <2>1. s.end = "agent" => \A d, e \in drops' : d.gen = e.gen => d = e
    BY DEF FailoverInv, AttemptInv
  <2> QED
    BY <1>5, <2>1, Identities DEF FailoverInv
<1>7. \A b \in Calls : call'[b].stage \notin Working
  BY <1>2, Alone DEF Working, Planned, Claimed, Migrating
<1>8. \A b \in Calls : call'[b].stage = "Discard" => call'[b].gen \in overtaken
  BY <1>2 DEF FailoverInv, HoldInv
<1>9. MonitorInv'
  <2> SUFFICES ASSUME s.end = "controller"
               PROVE  /\ \A a, b \in Calls : Running(a)' /\ Running(b)' => a = b
                      /\ \A n \in thaws' : \E b \in Calls : call'[b].stage = "Thaw" /\ call'[b].id = n
    BY <1>7 DEF MonitorInv, FailoverInv, Working
  <2>1. thaws = {}
    BY <1>4 DEF FailoverInv, MonitorInv, Running, Claimed, Migrating
  <2> QED
    BY <1>2, <1>5, <2>1 DEF FailoverInv, MonitorInv
<1>10. RouteInv'
  <2>1. cleanup = "None"
    BY DEF FailoverInv, RouteInv
  <2>2. \A b \in Calls : call'[b].stage \notin Shown
    BY <1>7 DEF Working, Claimed, Migrating, Shown
  <2> QED
    BY <2>1, <2>2 DEF RouteInv
<1>11. thaws' # {}
  OBVIOUS
<1> QED
  BY <1>3, <1>6, <1>7, <1>8, <1>9, <1>10, <1>11, IdleInv

LEMMA RetryInv ==
  ASSUME FailoverInv, NEW c \in Calls, Retry(c)
  PROVE  FailoverInv'
<1>1. /\ call[c].stage = "Retry" /\ Running(c) /\ s' = Cleared(call[c].gen)
      /\ UNCHANGED <<grace, cleanup, frozen, host, sent, begun, overtaken, late, cut>>
  BY DEF Retry, Running, history
<1>2. host' \in HostRecord /\ call[c].gen \in Generations
  BY <1>1, Shapes DEF FailoverInv, CallRecord
<1>3. CASE ~Holds("InFlight", call[c].gen)
  <2>1. ~Holds("Planning", call[c].gen)
    <3>1. CASE s.end = "controller"
      BY <1>1, <1>3, <3>1, ClaimedHeld DEF Claimed, Holds
    <3>2. CASE s.end = "agent"
      BY <1>1, <3>2 DEF FailoverInv, SideInv, HoldInv, Holds, Claimed
    <3> QED
      BY <3>1, <3>2, Shapes DEF FailoverInv
  <2>2. s' = s
    BY <1>1, <1>3, <2>1, NotIdled
  <2>3. UNCHANGED thaws /\ Leave(c)
    BY <2>2 DEF Retry
  <2>4. s.end = "controller" => s.ended \/ s.phase = "Idle" \/ s.pgen # call[c].gen
    BY <1>1, <1>3, ClaimedHeld DEF Claimed
  <2> QED
    BY <1>1, <1>2, <2>2, <2>3, <2>4, LeaveInv DEF Shown
<1>4. CASE Holds("InFlight", call[c].gen)
  <2>1. ~s.ended
    BY <1>4 DEF Holds
  <2>2. /\ s' \in SessionRecord /\ s'.phase = "Idle" /\ ~s'.ended /\ s' # s
        /\ s'.gen = s.gen /\ s'.end = s.end /\ s'.high = s.high
    BY <1>1, <1>2, <1>4, Idled DEF FailoverInv
  <2>3. thaws' = thaws \cup {call[c].id} /\ Goto(c, "Thaw") /\ UNCHANGED drops
    BY <2>2 DEF Retry
  <2>4. host.open /\ host.active \notin cut => host.active = s.gen
    <3>1. CASE s.end = "controller"
      <4>1. \A b \in Calls : call[b].stage \notin Shown \cup {"Discard"}
        BY <1>1, <3>1 DEF FailoverInv, MonitorInv, Running, Shown
      <4> QED
        BY <2>1, <3>1, <4>1, ShownIsOwn
    <3>2. CASE s.end = "agent"
      <4>1. \A b \in Calls : call[b].stage \notin Shown
        BY <1>1, <2>1, Alone DEF Working, Claimed, Migrating, Shown
      <4>2. \A b \in Calls : call[b].stage # "Discard"
        BY <2>1, <3>2 DEF FailoverInv, SideInv, HoldInv
      <4>3. \A d \in drops : ~Holds("InFlight", d.gen)
        BY <1>1, <2>1, <3>2, Alone DEF FailoverInv, SideInv, Working, Claimed, Holds
      <4> QED
        BY <2>1, <4>1, <4>2, <4>3 DEF FailoverInv, RouteInv
    <3> QED
      BY <3>1, <3>2, Shapes DEF FailoverInv
  <2>5. grace' \in {"None", "Running", "Over"}
    BY <1>1 DEF FailoverInv, TypeOK
  <2> QED
    BY <1>1, <2>1, <2>2, <2>3, <2>4, <2>5, GiveBackInv DEF Claimed
<1> QED
  BY <1>3, <1>4

LEMMA CommitInv ==
  ASSUME FailoverInv, NEW c \in Calls, Commit(c)
  PROVE  FailoverInv'
<1>1. /\ call[c].stage = "Commit" /\ Running(c)
      /\ UNCHANGED <<cleanup, frozen, host, drops, sent, begun, overtaken, late, cut>>
  BY DEF Commit, Running, history
<1>2. host' \in HostRecord /\ call[c] \in CallRecord
  BY <1>1, Shapes DEF FailoverInv
<1>3. CASE Holds("InFlight", call[c].gen)
  <2>1. /\ s' = [s EXCEPT !.gen = call[c].gen, !.domain = call[c].target,
                          !.phase = "Idle", !.pgen = 0]
        /\ grace' = "None" /\ thaws' = thaws \cup {call[c].id} /\ Goto(c, "Thaw")
    BY <1>3 DEF Commit
  <2>2. s \in SessionRecord /\ 0 \in Generations /\ "Idle" \in Phases /\ ~s.ended
    BY <1>3, RelayAssumption DEF FailoverInv, TypeOK, SessionRecord, Generations, Phases, Holds
  <2>3. /\ s' \in SessionRecord /\ s'.phase = "Idle" /\ ~s'.ended
        /\ s'.gen = call[c].gen /\ s'.end = s.end /\ s'.high = s.high
    BY <1>2, <2>1, <2>2 DEF SessionRecord, CallRecord
  <2>4. host.active = call[c].gen
    BY <1>1, <2>2 DEF FailoverInv, RouteInv, Shown
  <2> QED
    BY <1>1, <2>1, <2>2, <2>3, <2>4, GiveBackInv DEF Claimed, Migrating
<1>4. CASE ~Holds("InFlight", call[c].gen)
  <2>1. UNCHANGED <<s, grace, thaws>> /\ Goto(c, "Discard")
    BY <1>4 DEF Commit
  <2>2. s.ended \/ call[c].gen \in overtaken
    BY <1>1, <1>4 DEF FailoverInv, HoldInv, Holds, Claimed, Migrating
  <2>3. s.ended \/ s.phase = "Idle" \/ s.pgen # call[c].gen
    <3>1. s.ended \/ s.end = "controller"
      BY <2>2, Shapes DEF FailoverInv, SideInv
    <3> QED
      BY <1>1, <1>4, <3>1, ClaimedHeld DEF Claimed, Migrating
  <2>4. Moves(c, "Discard")
    BY <2>1, GotoMoves DEF FailoverInv, Stages
  <2>5. RouteInv'
    BY <1>1, <2>1, <2>4, CutTyped, RouteKept DEF Stages, Shown
  <2>6. frozen \in BOOLEAN /\ cut' \subseteq Generations
    BY <1>1, Shapes DEF FailoverInv
  <2> QED
    BY <1>1, <1>2, <2>1, <2>2, <2>3, <2>4, <2>5, <2>6, AdvanceInv
       DEF Stages, Planned, Claimed, Migrating
<1> QED
  BY <1>3, <1>4

LEMMA ClaimInv ==
  ASSUME FailoverInv, NEW c \in Calls, Claim(c)
  PROVE  FailoverInv'
<1>1. /\ call[c].stage = "Claim" /\ Running(c)
      /\ UNCHANGED <<grace, cleanup, frozen, host, thaws, sent, begun, overtaken, late, cut>>
  BY DEF Claim, Running, history
<1>2. host' \in HostRecord /\ call[c].gen \in Generations
  BY <1>1, Shapes DEF FailoverInv, CallRecord
<1>3. CASE Holds("Planning", call[c].gen)
  <2>1. /\ s' = [s EXCEPT !.phase = "InFlight", !.high = call[c].gen]
        /\ Goto(c, "Freeze") /\ UNCHANGED drops /\ ~s.ended
        /\ s.phase = "Planning" /\ s.pgen = call[c].gen
    BY <1>3 DEF Claim, Holds
  <2>2. /\ s' \in SessionRecord /\ s'.phase = "InFlight" /\ s'.pgen = s.pgen /\ ~s'.ended
        /\ s'.gen = s.gen /\ s'.end = s.end /\ s'.high = call[c].gen
    <3>1. s \in SessionRecord /\ "InFlight" \in Phases
      BY DEF FailoverInv, TypeOK, SessionRecord, Phases
    <3> QED
      BY <1>2, <2>1, <3>1 DEF SessionRecord
  <2>3. Moves(c, "Freeze")
    BY <2>1, GotoMoves DEF FailoverInv, Stages
  <2>4. /\ call' \in [Calls -> CallRecord] /\ call'[c].stage = "Freeze" /\ call'[c].gen = call[c].gen
        /\ \A b \in Calls : b # c => call'[b] = call[b]
    BY <2>3 DEF Moves
  <2>5. TypeOK'
    BY <1>1, <2>1, <2>2, <2>4 DEF FailoverInv, TypeOK, CallRecord, SessionRecord
  <2>6. \A b \in Calls : (Running(b)' <=> Running(b)) /\ call'[b].gen = call[b].gen
    BY <1>1, <2>4 DEF Running
  <2>7. SideInv' /\ AttemptInv' /\ OfferInv'
    <3>1. s.end = "agent" => \A d, e \in drops' : d.gen = e.gen => d = e
      BY <2>1 DEF FailoverInv, AttemptInv
    <3> QED
      BY <1>1, <2>1, <2>2, <2>6, <3>1, Identities DEF FailoverInv
  <2>8. \A b \in Calls : b # c => call'[b].stage \notin Working
    BY <1>1, <2>1, <2>4, Alone DEF Working, Planned
  <2>9. MonitorInv'
    <3> SUFFICES ASSUME s.end = "controller"
                 PROVE  /\ \A a, b \in Calls : Running(a)' /\ Running(b)' => a = b
                        /\ thaws = {}
      BY <1>1, <2>1, <2>2, <2>4, <2>8 DEF MonitorInv, FailoverInv, Working, Planned
    <3>1. thaws = {}
      BY <1>1 DEF FailoverInv, MonitorInv, Running
    <3> QED
      BY <2>6, <3>1 DEF FailoverInv, MonitorInv
  <2>10. HoldInv'
    <3>1. \A b \in Calls : call'[b].stage = "Discard" => call'[b].gen \in overtaken
      BY <2>1, <2>4 DEF FailoverInv, HoldInv
    <3> QED
      BY <1>1, <2>1, <2>2, <2>4, <2>8, <3>1 DEF HoldInv, Working, Planned
  <2>11. OwnerInv'
    BY <2>1, <2>2, <2>4 DEF OwnerInv, Owning, Working, Claimed
  <2>12. LiftInv'
    BY <2>2 DEF LiftInv
  <2>13. FenceInv'
    <3> SUFFICES ASSUME overtaken = {}, NEW b \in Calls,
                        call'[b].stage \in Working, call'[b].gen \notin late
                 PROVE  /\ thaws = {} /\ \A d \in drops : d.step # "Thaw"
                        /\ call'[b].stage \notin Migrating \cup {"Recheck"}
      BY <1>1, <2>1 DEF FenceInv
    <3>1. b = c /\ call[c].gen \notin late
      BY <2>4, <2>8
    <3>2. thaws = {} /\ \A d \in drops : d.step # "Thaw"
      BY <1>1, <2>1, <3>1 DEF FailoverInv, FenceInv, Working, Planned
    <3> QED
      BY <2>4, <3>1, <3>2 DEF Migrating
  <2>14. RouteInv'
    <3>1. host.open /\ host.active \notin cut => host.active = s.gen
      <4>1. s.end = "controller" => \A b \in Calls : call[b].stage \notin Shown \cup {"Discard"}
        BY <1>1 DEF FailoverInv, MonitorInv, Running, Shown
      <4> QED
        BY <2>1, <4>1, ShownIsOwn, Shapes DEF FailoverInv
    <3>2. \A b \in Calls : call'[b].stage \notin Shown
      BY <2>4, <2>8 DEF Working, Claimed, Migrating, Shown
    <3> QED
      BY <1>1, <2>1, <2>2, <3>1, <3>2 DEF FailoverInv, RouteInv
  <2> QED
    BY <2>5, <2>7, <2>9, <2>10, <2>11, <2>12, <2>13, <2>14 DEF FailoverInv
<1>4. CASE ~Holds("Planning", call[c].gen)
  <2>1. s.end = "controller" => s.ended \/ s.phase = "Idle" \/ s.pgen # call[c].gen
    BY <1>1, <1>4, PlannedHeld DEF Planned
  <2> QED
    BY <1>1, <1>2, <1>4, <2>1, LeaveInv DEF Claim, Shown
<1> QED
  BY <1>3, <1>4

\* A new attempt.  Only a controller may have a guard of the same generation left,
\* and then the generation counts as overtaken.
LEMMA PlanInv ==
  ASSUME FailoverInv, NEW c \in Calls, NEW g \in Generations, NEW d \in Domains \cup {Direct},
         Plan(c, g, d), ~Running(c), ~s.ended, s.phase = "Idle",
         UNCHANGED <<cleanup, frozen, host, thaws, drops, cut>>,
         grace' \in {"None", "Running", "Over"}, sent' \in Generations,
         c \in Agents <=> s.end = "agent",
         s.end = "agent" => g > sent /\ sent' = g,
         s.end = "controller" => g > s.high /\ \A b \in Calls : ~Running(b)
  PROVE  FailoverInv'
<1>1. /\ s' = [s EXCEPT !.phase = "Planning", !.pgen = g] /\ begun < MaxAttempts /\ begun' = begun + 1
      /\ call' = [call EXCEPT ![c] = [stage |-> "Refresh", id |-> begun + 1, gen |-> g,
                                      avoid |-> s.domain, target |-> d]]
      /\ overtaken' = (IF \E e \in drops : e.gen = g THEN overtaken \cup {g} ELSE overtaken)
      /\ late' = (IF thaws # {} \/ \E e \in drops : e.step = "Thaw" THEN late \cup {g} ELSE late)
  BY DEF Plan
<1>2. /\ s' \in SessionRecord /\ s'.phase = "Planning" /\ s'.pgen = g /\ ~s'.ended
      /\ s'.gen = s.gen /\ s'.end = s.end /\ s'.high = s.high
      /\ s.domain \in Domains \cup {Direct} /\ s.end \in {"controller", "agent"}
  <2>1. s \in SessionRecord /\ "Planning" \in Phases
    BY DEF FailoverInv, TypeOK, SessionRecord, Phases
  <2> QED
    BY <1>1, <2>1 DEF SessionRecord
<1>3. begun + 1 \in Attempts
  BY <1>1, RelayAssumption, Shapes DEF FailoverInv, Attempts
<1>4. /\ call' \in [Calls -> CallRecord] /\ call'[c].stage = "Refresh" /\ call'[c].gen = g
      /\ \A b \in Calls : b # c => call'[b] = call[b]
  <2>1. PICK r : r = [stage |-> "Refresh", id |-> begun + 1, gen |-> g, avoid |-> s.domain, target |-> d]
    OBVIOUS
  <2>2. r \in CallRecord /\ r.stage = "Refresh" /\ r.gen = g
    BY <1>2, <1>3, <2>1 DEF CallRecord, Stages
  <2>3. call \in [Calls -> CallRecord] /\ call' = [call EXCEPT ![c] = r]
    BY <1>1, <2>1, Shapes DEF FailoverInv
  <2> QED
    BY <2>2, <2>3
<1>5. /\ overtaken \subseteq overtaken' /\ overtaken' \subseteq overtaken \cup {g}
      /\ (\E e \in drops : e.gen = g) => g \in overtaken'
      /\ (\A e \in drops : e.gen # g) => overtaken' = overtaken
      /\ late \subseteq late' /\ late' \subseteq late \cup {g}
      /\ g \notin late' => thaws = {} /\ \A e \in drops : e.step # "Thaw"
      /\ thaws = {} /\ (\A e \in drops : e.step # "Thaw") => late' = late
  BY <1>1
<1>6. TypeOK'
  <2>1. overtaken' \subseteq Generations /\ late' \subseteq Generations
    BY <1>5 DEF FailoverInv, TypeOK
  <2>2. begun' \in Attempts
    BY <1>1, <1>3
  <2> QED
    BY <1>2, <1>4, <2>1, <2>2 DEF FailoverInv, TypeOK, CallRecord, SessionRecord
<1>7. Running(c)' /\ \A b \in Calls : b # c => (Running(b)' <=> Running(b)) /\ call'[b] = call[b]
  BY <1>4 DEF Running
<1>8. Generations \subseteq Nat
  BY RelayAssumption DEF Generations
<1>9. SideInv' /\ AttemptInv' /\ OfferInv' /\ MonitorInv'
  <2>1. CASE s.end = "agent"
    <3>1. \A b \in Calls : b # c /\ Running(b)' => call'[b].gen <= sent /\ call'[b].gen \in Nat
      BY <1>7, <1>8, <2>1, Shapes DEF FailoverInv, OfferInv, CallRecord
    <3>2. \A e \in drops : e.gen <= sent /\ e.gen \in Nat
      BY <1>8, <2>1, Shapes DEF FailoverInv, OfferInv, GuardRecord
    <3>3. sent \in Nat /\ g \in Nat /\ g > sent /\ sent' = g
      BY <1>8, <2>1, Shapes DEF FailoverInv
    <3>4. overtaken' = {} /\ overtaken = {}
      BY <1>5, <2>1, <3>2, <3>3 DEF FailoverInv, SideInv
    <3>5. SideInv'
      BY <1>2, <1>7, <2>1, <3>4 DEF FailoverInv, SideInv
    <3>6. AttemptInv'
      <4>1. \A a, b \in Calls : Running(a)' /\ Running(b)' /\ call'[a].gen = call'[b].gen => a = b
        BY <1>4, <1>7, <3>1, <3>3 DEF FailoverInv, AttemptInv
      <4>2. \A b \in Calls, e \in drops : Running(b)' => e.gen # call'[b].gen
        BY <1>4, <1>7, <3>2, <3>3, <3>4 DEF FailoverInv, AttemptInv
      <4>3. \A e, f \in drops : e.gen = f.gen => e = f
        BY <2>1 DEF FailoverInv, AttemptInv
      <4> QED
        BY <4>1, <4>2, <4>3 DEF AttemptInv
    <3>7. OfferInv'
      <4>1. \A b \in Calls : Running(b)' => call'[b].gen <= sent'
        BY <1>4, <3>1, <3>3
      <4>2. \A e \in drops : e.gen <= sent'
        BY <3>2, <3>3
      <4> QED
        BY <1>2, <2>1, <4>1, <4>2 DEF OfferInv
    <3>8. MonitorInv'
      BY <1>2, <2>1 DEF MonitorInv
    <3> QED
      BY <3>5, <3>6, <3>7, <3>8
  <2>2. CASE s.end = "controller"
    <3>1. \A b \in Calls : Running(b)' => b = c
      BY <1>7, <2>2
    <3>2. \A b \in Calls : b # c => call'[b].stage = "Out"
      BY <1>4, <2>2 DEF Running
    <3>3. thaws = {}
      BY <2>2 DEF FailoverInv, MonitorInv, Running
    <3>4. SideInv' /\ OfferInv'
      BY <1>2, <2>2, <3>1 DEF SideInv, OfferInv
    <3>5. AttemptInv'
      BY <1>2, <1>4, <1>5, <2>2, <3>1 DEF AttemptInv
    <3>6. overtaken' = {} => late' = {} /\ \A e \in drops : e.step = "Look"
      <4>1. ASSUME overtaken' = {}
            PROVE  late = {} /\ \A e \in drops : e.step = "Look"
        BY <1>5, <2>2, <4>1 DEF FailoverInv, MonitorInv
      <4> QED
        BY <1>5, <3>3, <4>1
    <3>7. MonitorInv'
      BY <1>2, <1>4, <2>2, <3>1, <3>2, <3>3, <3>6 DEF MonitorInv, Planned, Claimed, Migrating
    <3> QED
      BY <3>4, <3>5, <3>7
  <2> QED
    BY <1>2, <2>1, <2>2
<1>10. \A b \in Calls : b # c => /\ call'[b].stage \notin Working
                                 /\ call'[b].stage = "Discard" => call'[b].gen \in overtaken'
  <2>1. CASE s.end = "agent"
    BY <1>4, <1>5, <2>1 DEF FailoverInv, HoldInv, SideInv, Working
  <2>2. CASE s.end = "controller"
    BY <1>4, <2>2 DEF Running, Working, Planned, Claimed, Migrating
  <2> QED
    BY <1>2, <2>1, <2>2
<1>11. HoldInv'
  BY <1>2, <1>4, <1>10 DEF HoldInv, Working, Claimed, Migrating
<1>12. OwnerInv'
  BY <1>2, <1>4 DEF OwnerInv, Owning, Working, Planned
<1>13. LiftInv'
  BY <1>2, <1>5 DEF FailoverInv, LiftInv
<1>14. FenceInv'
  <2> SUFFICES ASSUME NEW b \in Calls, call'[b].stage \in Working, call'[b].gen \notin late'
               PROVE  /\ thaws = {} /\ \A e \in drops : e.step # "Thaw"
                      /\ call'[b].stage \notin Migrating \cup {"Recheck"}
    BY DEF FenceInv
  <2>1. b = c
    BY <1>10
  <2> QED
    BY <1>4, <1>5, <2>1 DEF Migrating
<1>15. RouteInv'
  <2>1. host.open /\ host.active \notin cut => host.active = s.gen
    <3>1. s.end = "controller" => \A b \in Calls : call[b].stage \notin Shown \cup {"Discard"}
      BY DEF Running, Shown
    <3> QED
      BY <1>2, <3>1, ShownIsOwn
  <2>2. \A b \in Calls : call'[b].stage \notin Shown
    BY <1>4, <1>10 DEF Working, Claimed, Migrating, Shown
  <2> QED
    BY <1>2, <2>1, <2>2 DEF FailoverInv, RouteInv
<1> QED
  BY <1>6, <1>9, <1>11, <1>12, <1>13, <1>14, <1>15 DEF FailoverInv

\* Only the clock of the grace, or the newest offer, changes.
LEMMA AsideInv ==
  ASSUME FailoverInv, grace' \in {"None", "Running", "Over"}, sent' \in Generations, sent' >= sent,
         UNCHANGED <<s, cleanup, frozen, host, call, thaws, drops, begun, overtaken, late, cut>>
  PROVE  FailoverInv'
<1>1. TypeOK'
  BY DEF FailoverInv, TypeOK
<1>2. \A c \in Calls : Running(c)' <=> Running(c)
  BY DEF Running
<1>3. SideInv' /\ AttemptInv' /\ MonitorInv'
  BY <1>2 DEF FailoverInv, SideInv, AttemptInv, MonitorInv
<1>4. HoldInv' /\ OwnerInv' /\ LiftInv' /\ FenceInv'
  BY DEF FailoverInv, HoldInv, OwnerInv, LiftInv, FenceInv
<1>5. OfferInv'
  <2>1. /\ \A c \in Calls : call[c].gen \in Nat
        /\ \A d \in drops : d.gen \in Nat
        /\ sent \in Nat /\ sent' \in Nat
    BY Shapes, RelayAssumption DEF FailoverInv, CallRecord, GuardRecord, Generations
  <2> QED
    BY <1>2, <2>1 DEF FailoverInv, OfferInv
<1>6. RouteInv'
  BY DEF FailoverInv, RouteInv, Holds
<1> QED
  BY <1>1, <1>3, <1>4, <1>5, <1>6 DEF FailoverInv

LEMMA MonitorAlone ==
  ASSUME FailoverInv, NEW c \in Calls, MayObserve(c)
  PROVE  s.end = "controller" /\ c \notin Agents /\ \A b \in Calls : ~Running(b)
BY DEF MayObserve, FailoverInv, SideInv

LEMMA ObserveInv ==
  ASSUME FailoverInv, NEW c \in Calls, NEW g, Fails(c, g) \/ Disconnects(c)
  PROVE  FailoverInv'
<1>1. MayObserve(c) /\ ~s.ended /\ s.phase = "Idle"
      /\ UNCHANGED <<cleanup, frozen, host, thaws, drops, sent, cut>>
  BY DEF Fails, Disconnects
<1>2. grace \in {"None", "Running", "Over"} /\ sent \in Generations /\ sent \in Nat
  BY RelayAssumption DEF FailoverInv, TypeOK, Generations
<1>3. CASE s.high < MaxGen /\ Plan(c, s.high + 1, Direct) /\ grace' \in {"None", grace}
  <2>1. s.high + 1 \in Generations /\ s.high + 1 > s.high
    BY <1>3, Shapes, RelayAssumption DEF FailoverInv, Generations
  <2> QED
    BY <1>1, <1>2, <1>3, <2>1, MonitorAlone, PlanInv
<1>4. CASE grace' = "Running" /\ UNCHANGED <<s, call, begun, overtaken, late>>
  BY <1>1, <1>2, <1>4, AsideInv
<1> QED
  BY <1>3, <1>4 DEF Fails, Disconnects

LEMMA OfferedInv ==
  ASSUME FailoverInv, NEW c \in Calls, NEW g \in Generations, NEW d \in Domains, Offered(c, g, d)
  PROVE  FailoverInv'
<1>1. /\ s.end = "agent" /\ c \in Agents /\ ~Running(c) /\ g > sent /\ sent' = g
      /\ UNCHANGED <<grace, cleanup, frozen, host, thaws, drops, cut>>
  BY DEF Offered
<1>2. grace \in {"None", "Running", "Over"}
  BY DEF FailoverInv, TypeOK
<1>3. CASE ~s.ended /\ s.phase = "Idle" /\ Plan(c, g, d)
  BY <1>1, <1>2, <1>3, PlanInv
<1>4. CASE UNCHANGED <<s, call, begun, overtaken, late>>
  <2>1. sent' >= sent
    BY <1>1, Shapes, RelayAssumption DEF FailoverInv, Generations
  <2> QED
    BY <1>1, <1>2, <1>4, <2>1, AsideInv
<1> QED
  BY <1>3, <1>4 DEF Offered

LEMMA GraceInv ==
  ASSUME FailoverInv, Reconnects \/ GraceOver
  PROVE  FailoverInv'
<1>1. /\ UNCHANGED <<s, cleanup, frozen, host, call, thaws, drops, sent, begun, overtaken, late, cut>>
      /\ grace' \in {"None", "Running", "Over"}
  BY DEF Reconnects, GraceOver, history
<1>2. sent \in Generations /\ sent \in Nat
  BY RelayAssumption DEF FailoverInv, TypeOK, Generations
<1> QED
  BY <1>1, <1>2, AsideInv

-----------------------------------------------------------------------------
(* The terminal path. *)

\* An ended session owes nobody a phase, a thaw or a route: its cleanup does it.
LEMMA EndedInv ==
  ASSUME FailoverInv, Ended,
         UNCHANGED <<grace, frozen, host, thaws, drops, sent, begun, overtaken, late, cut>>,
         \/ UNCHANGED call
         \/ \E c \in Calls : call[c].stage = "End" /\ Goto(c, "Ended")
  PROVE  FailoverInv'
<1>1. /\ s' \in SessionRecord /\ s'.phase = "Terminal" /\ s'.ended /\ s'.end = s.end
      /\ s'.high = s.high
  <2>1. s \in SessionRecord /\ 0 \in Generations /\ "Terminal" \in Phases
    BY RelayAssumption DEF FailoverInv, TypeOK, SessionRecord, Generations, Phases
  <2> QED
    BY <2>1 DEF Ended, SessionRecord
<1>2. /\ call' \in [Calls -> CallRecord]
      /\ \A b \in Calls : \/ call'[b] = call[b]
                          \/ /\ call[b].stage = "End" /\ call'[b].stage = "Ended"
                             /\ call'[b].gen = call[b].gen
  <2>1. CASE UNCHANGED call
    BY <2>1, Shapes DEF FailoverInv
  <2>2. CASE \E c \in Calls : call[c].stage = "End" /\ Goto(c, "Ended")
    <3>1. PICK c \in Calls : call[c].stage = "End" /\ Goto(c, "Ended")
      BY <2>2
    <3>2. Moves(c, "Ended")
      BY <3>1, GotoMoves DEF FailoverInv, Stages
    <3> QED
      BY <3>1, <3>2 DEF Moves
  <2> QED
    BY <2>1, <2>2
<1>3. TypeOK'
  BY <1>1, <1>2 DEF FailoverInv, TypeOK, CallRecord, SessionRecord, Ended
<1>4. \A b \in Calls : (Running(b)' <=> Running(b)) /\ call'[b].gen = call[b].gen
  BY <1>2 DEF Running
<1>5. SideInv' /\ AttemptInv' /\ OfferInv'
  <2>1. s.end = "agent" => \A d, e \in drops' : d.gen = e.gen => d = e
    BY DEF FailoverInv, AttemptInv
  <2> QED
    BY <1>1, <1>4, <2>1, Identities DEF FailoverInv
<1>6. MonitorInv'
  <2> SUFFICES ASSUME s.end = "controller"
               PROVE  /\ \A a, b \in Calls : Running(a)' /\ Running(b)' => a = b
                      /\ \A n \in thaws : \E b \in Calls : call'[b].stage = "Thaw" /\ call'[b].id = n
                      /\ \A b \in Calls : /\ call'[b].stage \in Planned => call'[b].gen > s.high
                                          /\ call'[b].stage \in Claimed => call'[b].gen = s.high
    BY <1>1 DEF MonitorInv, FailoverInv
  <2>1. \A a, b \in Calls : Running(a)' /\ Running(b)' => a = b
    BY <1>4 DEF MonitorInv, FailoverInv
  <2>2. \A n \in thaws : \E b \in Calls : call'[b].stage = "Thaw" /\ call'[b].id = n
    BY <1>2 DEF MonitorInv, FailoverInv
  <2>3. \A b \in Calls : /\ call'[b].stage \in Planned => call'[b].gen > s.high
                         /\ call'[b].stage \in Claimed => call'[b].gen = s.high
    BY <1>2 DEF MonitorInv, FailoverInv, Planned, Claimed, Migrating
  <2> QED
    BY <2>1, <2>2, <2>3
<1>7. HoldInv' /\ OwnerInv' /\ LiftInv' /\ FenceInv'
  BY <1>1 DEF HoldInv, OwnerInv, LiftInv, FenceInv
<1>8. RouteInv'
  BY <1>1 DEF FailoverInv, RouteInv, Ended
<1> QED
  BY <1>3, <1>5, <1>6, <1>7, <1>8 DEF FailoverInv

\* Spawned tasks that touch only the fence, the cleanup and the transport.
LEMMA FenceStepInv ==
  ASSUME FailoverInv, UNCHANGED <<s, grace, call, drops, sent, begun, overtaken, late, cut>>,
         thaws' \subseteq thaws, frozen' \in BOOLEAN, cleanup' \in {"None", "Freeze", "Close", "Done"},
         host' \in HostRecord, LiftInv', FenceInv', RouteInv'
  PROVE  FailoverInv'
<1>1. TypeOK'
  BY DEF FailoverInv, TypeOK, HostRecord
<1>2. \A b \in Calls : (Running(b)' <=> Running(b)) /\ call'[b] = call[b]
  BY DEF Running
<1>3. SideInv' /\ AttemptInv' /\ OfferInv'
  <2>1. s.end = "agent" => \A d, e \in drops' : d.gen = e.gen => d = e
    BY DEF FailoverInv, AttemptInv
  <2> QED
    BY <1>2, <2>1, Identities DEF FailoverInv
<1>4. MonitorInv'
  BY <1>2 DEF FailoverInv, MonitorInv
<1>5. HoldInv' /\ OwnerInv'
  BY <1>2 DEF FailoverInv, HoldInv, OwnerInv
<1> QED
  BY <1>1, <1>3, <1>4, <1>5 DEF FailoverInv

LEMMA CleanupInv ==
  ASSUME FailoverInv, CleanupStep \/ CloseTransport
  PROVE  FailoverInv'
<1>1. UNCHANGED <<s, grace, call, thaws, drops, sent, begun, overtaken, late, cut>>
  BY DEF CleanupStep, CloseTransport, history
<1>2. /\ host' \in HostRecord /\ host'.active = host.active /\ (host'.open => host.open)
      /\ frozen' \in BOOLEAN /\ cleanup' \in {"None", "Freeze", "Close", "Done"}
      /\ frozen => frozen'
  <2>1. host \in HostRecord /\ frozen \in BOOLEAN /\ cleanup \in {"None", "Freeze", "Close", "Done"}
    BY Shapes DEF FailoverInv, TypeOK
  <2> QED
    BY <2>1 DEF CleanupStep, CloseTransport, HostRecord
<1>3. /\ cleanup' = "None" <=> cleanup = "None"
      /\ cleanup' = "Done" => ~host'.open
      /\ frozen' # frozen => s.ended
  <2>1. host \in HostRecord
    BY Shapes DEF FailoverInv
  <2> QED
    BY <2>1 DEF CleanupStep, CloseTransport, FailoverInv, RouteInv, HostRecord
<1>4. LiftInv' /\ FenceInv'
  BY <1>1, <1>2, <1>3 DEF FailoverInv, LiftInv, FenceInv
<1>5. RouteInv'
  <2>1. \A g : Holds("InFlight", g)' <=> Holds("InFlight", g)
    BY <1>1 DEF Holds
  <2> QED
    BY <1>1, <1>2, <1>3, <2>1 DEF FailoverInv, RouteInv
<1> QED
  BY <1>1, <1>2, <1>4, <1>5, FenceStepInv

\* A spawned thaw: no attempt at work has one to fear.
LEMMA RunThawInv ==
  ASSUME FailoverInv, NEW n \in thaws, RunThaw(n)
  PROVE  FailoverInv'
<1>1. /\ thaws' = thaws \ {n} /\ frozen' = FALSE
      /\ UNCHANGED <<s, grace, cleanup, host, call, drops, sent, begun, overtaken, late, cut>>
  BY DEF RunThaw, history
<1>2. host' \in HostRecord /\ cleanup' \in {"None", "Freeze", "Close", "Done"}
  BY <1>1, Shapes DEF FailoverInv, TypeOK
<1>3. LiftInv'
  BY <1>1 DEF LiftInv
<1>4. FenceInv'
  BY <1>1 DEF FailoverInv, FenceInv
<1>5. RouteInv'
  BY <1>1 DEF FailoverInv, RouteInv, Holds
<1> QED
  BY <1>1, <1>2, <1>3, <1>4, <1>5, FenceStepInv

-----------------------------------------------------------------------------
(* The task of a dropped guard. *)

LEMMA BecomeFacts ==
  ASSUME TypeOK, AttemptInv, NEW d \in drops, NEW st \in {"Look", "Discard", "Settle", "Thaw"},
         Become(d, st)
  PROVE  /\ drops' \subseteq GuardRecord
         /\ \A e \in drops : e # d => e \in drops'
         /\ \E n \in drops' : n.gen = d.gen /\ n.step = st
         /\ \A e \in drops' : e \in drops \/ (e.gen = d.gen /\ e.step = st)
         /\ s.end = "agent" => \A e, f \in drops' : e.gen = f.gen => e = f
<1>1. drops \subseteq GuardRecord
  BY Shapes
<1>2. PICK n : n = [d EXCEPT !.step = st]
  OBVIOUS
<1>3. n \in GuardRecord /\ n.gen = d.gen /\ n.step = st
  BY <1>1, <1>2 DEF GuardRecord
<1>4. drops' = (drops \ {d}) \cup {n}
  BY <1>2 DEF Become
<1>5. s.end = "agent" => \A e, f \in drops' : e.gen = f.gen => e = f
  BY <1>3, <1>4 DEF AttemptInv
<1> QED
  BY <1>1, <1>3, <1>4, <1>5

\* A guard's step leaves the names of attempts distinct.
LEMMA GuardNames ==
  ASSUME FailoverInv, NEW d \in drops,
         \/ Gone(d)
         \/ \E st \in {"Look", "Discard", "Settle", "Thaw"} :
               Become(d, st) /\ (s.end = "controller" => overtaken # {}),
         s' \in SessionRecord, s'.ended <=> s'.phase = "Terminal", s'.end = s.end, s'.high = s.high,
         s'.phase = "Idle" \/ UNCHANGED s,
         host' \in HostRecord, frozen' \in BOOLEAN,
         UNCHANGED <<grace, cleanup, call, thaws, sent, begun, overtaken, late, cut>>
  PROVE  TypeOK' /\ SideInv' /\ AttemptInv' /\ OfferInv' /\ MonitorInv'
<1>1. /\ drops' \subseteq GuardRecord
      /\ \A e \in drops' : \E f \in drops : f.gen = e.gen
      /\ s.end = "agent" => \A e, f \in drops' : e.gen = f.gen => e = f
      /\ s.end = "controller" /\ overtaken = {} => drops' \subseteq drops
  <2>1. CASE Gone(d)
    <3>1. drops' \subseteq drops
      BY <2>1 DEF Gone
    <3> QED
      BY <3>1, Shapes DEF FailoverInv, AttemptInv
  <2>2. CASE \E st \in {"Look", "Discard", "Settle", "Thaw"} :
               Become(d, st) /\ (s.end = "controller" => overtaken # {})
    BY <2>2, BecomeFacts DEF FailoverInv
  <2> QED
    BY <2>1, <2>2
<1>2. TypeOK'
  BY <1>1 DEF FailoverInv, TypeOK, SessionRecord, HostRecord, GuardRecord
<1>3. \A b \in Calls : (Running(b)' <=> Running(b)) /\ call'[b] = call[b]
  BY DEF Running
<1>4. SideInv' /\ AttemptInv' /\ OfferInv'
  BY <1>1, <1>3, Identities DEF FailoverInv
<1>5. MonitorInv'
  <2>1. s.end = "controller" /\ overtaken = {} => late = {} /\ \A e \in drops' : e.step = "Look"
    BY <1>1 DEF FailoverInv, MonitorInv
  <2> QED
    BY <1>3, <2>1 DEF FailoverInv, MonitorInv
<1> QED
  BY <1>2, <1>4, <1>5

\* A guard settles a phase its generation holds.
LEMMA GuardIdles ==
  ASSUME FailoverInv, NEW d \in drops, Holds("Planning", d.gen) \/ Holds("InFlight", d.gen),
         s' = Cleared(d.gen), UNCHANGED <<grace, cleanup, frozen, host, call, thaws, sent,
                                          begun, overtaken, late, cut>>,
         \/ d.step = "Look" /\ Holds("Planning", d.gen) /\ Gone(d)
         \/ d.step = "Settle" /\ Holds("InFlight", d.gen) /\ Become(d, "Thaw")
  PROVE  FailoverInv'
<1>1. host' \in HostRecord /\ d.gen \in Generations /\ frozen' \in BOOLEAN
  BY Shapes DEF FailoverInv, TypeOK, GuardRecord
<1>2. /\ s' \in SessionRecord /\ s'.phase = "Idle" /\ ~s'.ended
      /\ s'.gen = s.gen /\ s'.end = s.end /\ s'.high = s.high
  BY <1>1, Idled DEF FailoverInv
<1>3. /\ \A b \in Calls : call[b].stage \in Working \cup {"Discard"} => call[b].gen \in overtaken
      /\ s.end = "controller" => overtaken # {}
  BY GuardAlone
<1>4. TypeOK' /\ SideInv' /\ AttemptInv' /\ OfferInv' /\ MonitorInv'
  BY <1>1, <1>2, <1>3, GuardNames
<1>5. ~s.ended /\ s.pgen = d.gen /\ cleanup = "None"
  BY DEF Holds, FailoverInv, RouteInv
<1>6. frozen /\ s.high \notin overtaken => thaws # {} \/ \E e \in drops' : e.step = "Thaw"
  <2>1. CASE d.step = "Look" /\ Holds("Planning", d.gen) /\ Gone(d)
    BY <1>5, <2>1 DEF FailoverInv, LiftInv, Holds, Gone
  <2>2. CASE d.step = "Settle" /\ Holds("InFlight", d.gen) /\ Become(d, "Thaw")
    BY <2>2, BecomeFacts DEF FailoverInv
  <2> QED
    BY <2>1, <2>2
<1>7. RouteInv'
  <2>1. \A b \in Calls : call[b].stage \in Shown => host.active = call[b].gen
    BY <1>5 DEF FailoverInv, RouteInv
  <2>2. ASSUME host.open, host.active # s.gen, host.active \notin cut
        PROVE  \E b \in Calls : call[b].stage \in Shown \cup {"Discard"} /\ call[b].gen = host.active
    <3>1. s.end = "agent" => \A e \in drops : Holds("InFlight", e.gen) => e.step = "Settle"
      BY <1>5 DEF FailoverInv, AttemptInv, Holds
    <3> QED
      BY <1>5, <2>2, <3>1 DEF FailoverInv, RouteInv
  <2> QED
    BY <1>2, <1>5, <2>1, <2>2 DEF RouteInv
<1> QED
  BY <1>2, <1>3, <1>4, <1>6, <1>7, IdleInv

\* The guard leaves the phase alone: what it owed is done or still owed.
LEMMA GuardOwes ==
  ASSUME FailoverInv, NEW d \in drops,
         \/ Gone(d)
         \/ \E st \in {"Look", "Discard", "Settle"} :
               Become(d, st) /\ (s.end = "controller" => overtaken # {}),
         UNCHANGED <<s, grace, cleanup, call, thaws, sent, begun, overtaken, late, cut>>,
         host' \in HostRecord, host'.active = host.active, host'.open => host.open,
         frozen' \in BOOLEAN, frozen' => frozen,
         frozen' # frozen => d.step = "Thaw",
         frozen' => d.step # "Thaw",
         ~s.ended /\ s.phase # "Idle" /\ d.gen = s.pgen /\ d.step # "Thaw" =>
            /\ s.phase = "Planning" => d.step # "Look"
            /\ s.phase = "InFlight" =>
                 \E n \in drops' : n.gen = d.gen /\ n.step \in {"Discard", "Settle"},
         /\ host'.open /\ d.gen = host.active /\ d.step \in {"Look", "Discard"}
         /\ Holds("InFlight", d.gen)
         => \E n \in drops' : n.gen = d.gen /\ n.step = "Discard"
  PROVE  FailoverInv'
<1>1. /\ \A e \in drops : e # d => e \in drops'
      /\ \A e \in drops' : e \in drops \/ e.step # "Thaw"
  <2>1. CASE Gone(d)
    BY <2>1 DEF Gone
  <2>2. CASE \E st \in {"Look", "Discard", "Settle"} : Become(d, st)
    BY <2>2, BecomeFacts DEF FailoverInv
  <2> QED
    BY <2>1, <2>2
<1>2. s' \in SessionRecord /\ (s'.ended <=> s'.phase = "Terminal") /\ s.phase \in Phases
  BY DEF FailoverInv, TypeOK, SessionRecord
<1>3. TypeOK' /\ SideInv' /\ AttemptInv' /\ OfferInv' /\ MonitorInv'
  BY <1>2, GuardNames
<1>4. HoldInv'
  BY DEF FailoverInv, HoldInv
<1>5. OwnerInv'
  <2> SUFFICES ASSUME ~s.ended, s.phase # "Idle"
               PROVE  \/ \E c \in Calls : call[c].gen = s.pgen /\ call[c].stage \in Owning
                      \/ \E n \in drops' :
                            /\ n.gen = s.pgen /\ s.end = "agent"
                            /\ \/ n.step = "Look"
                               \/ s.phase = "InFlight" /\ n.step \in {"Discard", "Settle"}
    BY DEF OwnerInv
  <2>1. CASE \E c \in Calls : call[c].gen = s.pgen /\ call[c].stage \in Owning
    BY <2>1
  <2>2. CASE \E e \in drops : /\ e.gen = s.pgen /\ s.end = "agent"
                              /\ \/ e.step = "Look"
                                 \/ s.phase = "InFlight" /\ e.step \in {"Discard", "Settle"}
    <3>1. PICK e \in drops : /\ e.gen = s.pgen /\ s.end = "agent"
                             /\ \/ e.step = "Look"
                                \/ s.phase = "InFlight" /\ e.step \in {"Discard", "Settle"}
      BY <2>2
    <3>2. CASE e # d
      BY <1>1, <3>1, <3>2
    <3>3. CASE e = d
      <4>1. s.phase \in {"Planning", "InFlight"}
        BY <1>2 DEF Phases, FailoverInv, TypeOK
      <4> QED
        BY <3>1, <3>3, <4>1
    <3> QED
      BY <3>2, <3>3
  <2> QED
    BY <2>1, <2>2 DEF FailoverInv, OwnerInv
<1>6. LiftInv'
  BY <1>1 DEF FailoverInv, LiftInv
<1>7. FenceInv'
  BY <1>1 DEF FailoverInv, FenceInv
<1>8. RouteInv'
  <2>1. /\ s'.ended <=> cleanup' # "None"
        /\ cleanup' = "Done" => ~host'.open
        /\ ~s'.ended => \A b \in Calls : call'[b].stage \in Shown => host'.active = call'[b].gen
    BY DEF FailoverInv, RouteInv
  <2>2. \A g : Holds("InFlight", g)' <=> Holds("InFlight", g)
    BY DEF Holds
  <2>3. ASSUME ~s.ended, host'.open, host'.active # s.gen, host'.active \notin cut
        PROVE  \/ \E b \in Calls : call[b].stage \in Shown \cup {"Discard"} /\ call[b].gen = host.active
               \/ \E n \in drops' : /\ n.gen = host.active /\ n.step \in {"Look", "Discard"}
                                    /\ s.end = "agent" /\ Holds("InFlight", n.gen)
    <3>1. CASE \E e \in drops : /\ e.gen = host.active /\ e.step \in {"Look", "Discard"}
                                /\ s.end = "agent" /\ Holds("InFlight", e.gen)
      <4>1. PICK e \in drops : /\ e.gen = host.active /\ e.step \in {"Look", "Discard"}
                               /\ s.end = "agent" /\ Holds("InFlight", e.gen)
        BY <3>1
      <4>2. CASE e # d
        BY <1>1, <4>1, <4>2
      <4>3. CASE e = d
        BY <2>3, <4>1, <4>3
      <4> QED
        BY <4>2, <4>3
    <3>2. CASE \E b \in Calls : call[b].stage \in Shown \cup {"Discard"} /\ call[b].gen = host.active
      BY <3>2
    <3> QED
      BY <2>3, <3>1, <3>2 DEF FailoverInv, RouteInv
  <2> QED
    BY <2>1, <2>2, <2>3 DEF RouteInv
<1> QED
  BY <1>3, <1>4, <1>5, <1>6, <1>7, <1>8 DEF FailoverInv

LEMMA GuardLooksInv ==
  ASSUME FailoverInv, NEW d \in drops, GuardLooks(d)
  PROVE  FailoverInv'
<1>1. /\ d.step = "Look"
      /\ UNCHANGED <<grace, cleanup, frozen, host, call, thaws, sent, begun, overtaken, late, cut>>
      /\ s' = (IF Holds("Planning", d.gen) THEN Cleared(d.gen) ELSE s)
  BY DEF GuardLooks, history
<1>2. host' \in HostRecord /\ d.gen \in Generations /\ frozen \in BOOLEAN
  BY <1>1, Shapes DEF FailoverInv, TypeOK, GuardRecord
<1>3. CASE Holds("Planning", d.gen)
  <2>1. Gone(d)
    BY <1>3 DEF GuardLooks, Holds
  <2> QED
    BY <1>1, <1>3, <2>1, GuardIdles
<1>4. CASE Holds("InFlight", d.gen)
  <2>1. Become(d, "Discard") /\ UNCHANGED s
    BY <1>1, <1>4 DEF GuardLooks, Holds
  <2>2. \E n \in drops' : n.gen = d.gen /\ n.step = "Discard"
    BY <2>1, BecomeFacts DEF FailoverInv
  <2>3. s.phase = "InFlight" /\ (s.end = "controller" => overtaken # {})
    BY <1>4, GuardAlone DEF Holds
  <2> QED
    BY <1>1, <1>2, <2>1, <2>2, <2>3, GuardOwes
<1>5. CASE ~Holds("Planning", d.gen) /\ ~Holds("InFlight", d.gen)
  <2>1. Gone(d) /\ UNCHANGED s
    BY <1>1, <1>5 DEF GuardLooks
  <2>2. ~s.ended /\ d.gen = s.pgen => s.phase \notin {"Planning", "InFlight"}
    BY <1>5 DEF Holds
  <2> QED
    BY <1>1, <1>2, <1>5, <2>1, <2>2, GuardOwes
<1> QED
  BY <1>3, <1>4, <1>5

LEMMA GuardDiscardsInv ==
  ASSUME FailoverInv, NEW d \in drops, GuardDiscards(d)
  PROVE  FailoverInv'
<1>1. /\ d.step = "Discard" /\ host' = Discarded(d.gen) /\ Become(d, "Settle")
      /\ UNCHANGED <<s, grace, cleanup, frozen, call, thaws, sent, begun, overtaken, late, cut>>
  BY DEF GuardDiscards, history
<1>2. /\ host' \in HostRecord /\ host'.active = host.active /\ (host'.open => host.open)
      /\ d.gen = host.active => ~host'.open
      /\ frozen \in BOOLEAN
  <2>1. host \in HostRecord /\ frozen \in BOOLEAN
    BY Shapes DEF FailoverInv, TypeOK
  <2> QED
    BY <1>1, <2>1 DEF Discarded, HostRecord
<1>3. \E n \in drops' : n.gen = d.gen /\ n.step = "Settle"
  BY <1>1, BecomeFacts DEF FailoverInv
<1>4. s.end = "controller" => overtaken # {}
  BY <1>1 DEF FailoverInv, MonitorInv
<1> QED
  BY <1>1, <1>2, <1>3, <1>4, GuardOwes

LEMMA GuardSettlesInv ==
  ASSUME FailoverInv, NEW d \in drops, GuardSettles(d)
  PROVE  FailoverInv'
<1>1. /\ d.step = "Settle"
      /\ UNCHANGED <<grace, cleanup, frozen, host, call, thaws, sent, begun, overtaken, late, cut>>
  BY DEF GuardSettles, history
<1>2. host' \in HostRecord /\ frozen \in BOOLEAN
  BY <1>1, Shapes DEF FailoverInv, TypeOK
<1>3. CASE Holds("InFlight", d.gen)
  BY <1>1, <1>3, GuardIdles DEF GuardSettles
<1>4. CASE ~Holds("InFlight", d.gen)
  <2>1. Gone(d) /\ UNCHANGED s
    BY <1>4 DEF GuardSettles
  <2>2. ~s.ended /\ d.gen = s.pgen => s.phase # "InFlight"
    BY <1>4 DEF Holds
  <2> QED
    BY <1>1, <1>2, <2>1, <2>2, GuardOwes
<1> QED
  BY <1>3, <1>4

LEMMA GuardThawsInv ==
  ASSUME FailoverInv, NEW d \in drops, GuardThaws(d)
  PROVE  FailoverInv'
<1>1. /\ d.step = "Thaw" /\ frozen' = FALSE /\ Gone(d)
      /\ UNCHANGED <<s, grace, cleanup, host, call, thaws, sent, begun, overtaken, late, cut>>
  BY DEF GuardThaws, history
<1>2. host' \in HostRecord /\ frozen \in BOOLEAN
  BY <1>1, Shapes DEF FailoverInv, TypeOK
<1> QED
  BY <1>1, <1>2, GuardOwes

-----------------------------------------------------------------------------
(* The theorems. *)

LEMMA InitInv == Init => FailoverInv
<1> SUFFICES ASSUME Init
             PROVE  FailoverInv
  OBVIOUS
<1>1. 0 \in Generations /\ 0 \in Attempts
  BY RelayAssumption DEF Generations, Attempts
<1>2. TypeOK
  <2>1. Absent \in CallRecord
    BY <1>1 DEF Absent, Stages, CallRecord
  <2>2. PICK d \in Domains \cup {Direct}, end \in {"controller", "agent"} :
          s = [gen |-> 0, high |-> 0, phase |-> "Idle", pgen |-> 0,
               ended |-> FALSE, domain |-> d, end |-> end]
    BY DEF Init
  <2>3. s \in SessionRecord /\ (s.ended <=> s.phase = "Terminal")
    BY <1>1, <2>2 DEF SessionRecord, Phases
  <2>4. host \in HostRecord
    BY <1>1 DEF Init, HostRecord
  <2>5. call \in [Calls -> CallRecord]
    BY <2>1 DEF Init
  <2> QED
    BY <1>1, <2>3, <2>4, <2>5 DEF Init, TypeOK, SessionRecord, HostRecord, CallRecord
<1>3. /\ s.phase = "Idle" /\ ~s.ended /\ s.gen = 0 /\ drops = {} /\ thaws = {} /\ frozen = FALSE
      /\ cleanup = "None" /\ host.active = 0 /\ overtaken = {} /\ late = {}
  BY DEF Init
<1>4. \A c \in Calls : call[c].stage = "Out"
  BY DEF Init, Absent
<1>5. SideInv /\ AttemptInv /\ OfferInv /\ MonitorInv /\ HoldInv /\ OwnerInv
  BY <1>3, <1>4 DEF SideInv, AttemptInv, OfferInv, MonitorInv, HoldInv, OwnerInv, Running,
                    Planned, Claimed, Migrating
<1>6. LiftInv /\ FenceInv /\ RouteInv
  BY <1>3, <1>4 DEF LiftInv, FenceInv, RouteInv, Working, Planned, Claimed, Migrating, Shown
<1> QED
  BY <1>2, <1>5, <1>6 DEF FailoverInv

LEMMA StutterInv == FailoverInv /\ UNCHANGED vars => FailoverInv'
<1> SUFFICES ASSUME FailoverInv, UNCHANGED vars
             PROVE  FailoverInv'
  OBVIOUS
<1>1. grace' \in {"None", "Running", "Over"} /\ sent' \in Generations /\ sent' >= sent
  BY RelayAssumption DEF FailoverInv, TypeOK, Generations, vars
<1> QED
  BY <1>1, AsideInv DEF vars, history

LEMMA StepInv ==
  ASSUME FailoverInv, NEW c \in Calls, Step(c)
  PROVE  FailoverInv'
<1>1. CASE Refreshed(c) \/ RefreshFails(c) \/ RefreshRefused(c)
  BY <1>1, RefreshedInv, RefreshFailsInv, RefreshRefusedInv
<1>2. CASE Claim(c) \/ Freeze(c) \/ Recheck(c) \/ Begin(c)
  BY <1>2, ClaimInv, FreezeInv, RecheckInv, BeginInv
<1>3. CASE Publish(c) \/ Published(c) \/ ExecutorFails(c) \/ ExecutorRefuses(c)
  BY <1>3, PublishInv, PublishedInv, ExecutorFailsInv, ExecutorRefusesInv
<1>4. CASE Retry(c) \/ Check(c) \/ Commit(c) \/ Discard(c) \/ Thawed(c) \/ Finish(c)
  BY <1>4, RetryInv, CheckInv, CommitInv, DiscardInv, ReturnInv
<1>5. CASE End(c)
  BY <1>5, EndedInv DEF End, history
<1> QED
  BY <1>1, <1>2, <1>3, <1>4, <1>5 DEF Step

LEMMA NextInv == FailoverInv /\ [Next]_vars => FailoverInv'
<1> SUFFICES ASSUME FailoverInv, [Next]_vars
             PROVE  FailoverInv'
  OBVIOUS
<1>1. ASSUME NEW c \in Calls, NEW g \in Generations, Fails(c, g)
      PROVE  FailoverInv'
  BY <1>1, ObserveInv
<1>2. ASSUME NEW c \in Calls, NEW g \in Generations, NEW d \in Domains, Offered(c, g, d)
      PROVE  FailoverInv'
  BY <1>2, OfferedInv
<1>3. ASSUME NEW c \in Calls, Disconnects(c)
      PROVE  FailoverInv'
  BY <1>3, ObserveInv
<1>4. ASSUME NEW c \in Calls, Step(c) \/ Cancel(c)
      PROVE  FailoverInv'
  BY <1>4, StepInv, ReturnInv
<1>5. CASE Reconnects \/ GraceOver
  BY <1>5, GraceInv
<1>6. CASE Terminate
  BY <1>6, EndedInv DEF Terminate, history
<1>7. CASE CleanupStep \/ CloseTransport
  BY <1>7, CleanupInv
<1>8. ASSUME NEW d \in drops, GuardStep(d)
      PROVE  FailoverInv'
  BY <1>8, GuardLooksInv, GuardDiscardsInv, GuardSettlesInv, GuardThawsInv DEF GuardStep
<1>9. ASSUME NEW n \in thaws, RunThaw(n)
      PROVE  FailoverInv'
  BY <1>9, RunThawInv
<1>10. CASE UNCHANGED vars
  BY <1>10, StutterInv
<1> QED
  BY <1>1, <1>2, <1>3, <1>4, <1>5, <1>6, <1>7, <1>8, <1>9, <1>10 DEF Next

\* The inductive invariant of the coordinator: its types, the names of attempts,
\* and who still owes what (RelayFailoverCoordinator, RelayRecoveryCancellationGuard),
\* whenever a spawned guard or thaw runs and wherever the deadline falls.
THEOREM FailoverInvariant == Spec => []FailoverInv
BY InitInv, NextInv, PTL DEF Spec

\* The input of an attempt that migrates is frozen, whatever was cancelled, retried
\* or ended before, unless a generation was planned twice (a controller) or a thaw
\* was left when it was planned (an answering end): recover, accept_remote_offer and
\* thaw_cancellation_safe.
THEOREM MigratesFrozen == Spec => []InputFrozenInFlight
<1>1. FailoverInv => InputFrozenInFlight
  <2> SUFFICES ASSUME FailoverInv, overtaken = {}, NEW c \in Calls, call[c].stage \in Migrating,
                      Holds("InFlight", call[c].gen), c \in Agents => call[c].gen \notin late
               PROVE  frozen
    BY DEF InputFrozenInFlight
  <2>1. Running(c) /\ call[c].stage \in Working /\ ~s.ended
    BY DEF Running, Working, Claimed, Migrating, Holds
  <2>2. call[c].gen \notin late
    <3>1. CASE s.end = "controller"
      BY <3>1 DEF FailoverInv, MonitorInv
    <3>2. CASE s.end = "agent"
      BY <2>1, <3>2 DEF FailoverInv, SideInv
    <3> QED
      BY <3>1, <3>2, Shapes DEF FailoverInv
  <2> QED
    BY <2>1, <2>2 DEF FailoverInv, FenceInv
<1> QED
  BY <1>1, FailoverInvariant, PTL

\* Once no task is left, an open transport shows the generation the coordinator
\* has committed, or one whose commit the deadline cut off after the publication
\* (close_session_if_generation, the cancellation guard, executor.rs migrate).
THEOREM LosersAreClosed == Spec => []LoserClosed
<1>1. FailoverInv => LoserClosed
  <2> SUFFICES ASSUME FailoverInv, Quiet, host.open, host.active \notin cut
               PROVE  host.active = s.gen
    BY DEF LoserClosed
  <2>1. \A c \in Calls : call[c].stage \notin Shown \cup {"Discard"}
    BY DEF Quiet, Running, Shown
  <2>2. ~s.ended
    BY DEF Quiet, FailoverInv, RouteInv
  <2> QED
    BY <2>1, <2>2 DEF Quiet, FailoverInv, RouteInv
<1> QED
  BY <1>1, FailoverInvariant, PTL

\* Once no task is left the session is idle or over, and the input of one that is
\* not over is free unless the newest claim was of a generation planned twice (the
\* drop of RelayRecoveryCancellationGuard).
THEOREM AttemptsLeaveNothing == Spec => []NothingLeftBehind
<1>1. FailoverInv => NothingLeftBehind
  <2> SUFFICES ASSUME FailoverInv, Quiet
               PROVE  /\ s.phase \in {"Idle", "Terminal"}
                      /\ ~s.ended /\ s.high \notin overtaken => ~frozen
    BY DEF NothingLeftBehind
  <2>1. \A c \in Calls : call[c].stage \notin Owning
    BY DEF Quiet, Running, Owning, Working, Planned, Claimed, Migrating
  <2>2. ~s.ended => s.phase = "Idle"
    BY <2>1 DEF Quiet, FailoverInv, OwnerInv
  <2>3. s.ended => s.phase = "Terminal"
    BY DEF FailoverInv, TypeOK
  <2>4. ~s.ended /\ s.high \notin overtaken => ~frozen
    BY <2>2 DEF Quiet, FailoverInv, LiftInv
  <2>5. s.ended \in BOOLEAN
    BY Shapes DEF FailoverInv
  <2> QED
    BY <2>2, <2>3, <2>4, <2>5
<1> QED
  BY <1>1, FailoverInvariant, PTL
=============================================================================
