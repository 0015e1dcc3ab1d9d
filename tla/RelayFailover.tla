--------------------------- MODULE RelayFailover ---------------------------
(***************************************************************************)
(* The relay failover coordinator of one end of a session, the controller  *)
(* or the agent: the entry of its session table, the recovery calls that   *)
(* run over it, the input barrier they freeze and thaw, and the part of    *)
(* the transport host they drive.  Sources: mrd-service relay/migration.rs,*)
(* relay/executor.rs, relay/runtime.rs and the replacement calls of        *)
(* transports/webrtc.rs.                                                   *)
(*                                                                         *)
(* An action is one stretch of code between two awaits.  A recovery call   *)
(* (observe_health on the controller, accept_remote_offer on the agent)    *)
(* walks through its stages; terminalize and the drop of the cancellation  *)
(* guard spawn tasks of their own that run beside it.                      *)
(***************************************************************************)
EXTENDS Naturals, FiniteSets

CONSTANTS Calls,         \* recovery calls that may run at the same time
          Agents,        \* the calls of the answering end, made by the responder
          Cancellable,   \* the responder's calls, whose future may be dropped
          Domains,       \* failure domains of the relay nodes
          Direct,        \* the failure domain of a direct route: none
          MaxGen,        \* bound: migration generations tried
          MaxAttempts    \* bound: attempts begun, some in a generation tried before

ASSUME RelayAssumption ==
    /\ Agents \subseteq Calls
    /\ Cancellable \subseteq Agents
    /\ Direct \notin Domains
    /\ MaxGen \in Nat
    /\ MaxAttempts \in Nat

VARIABLES s,        \* the session entry: generations, phase, reason, active domain
          grace,    \* the disconnected grace: not started, running or over
          cleanup,  \* how far the terminal cleanup task is
          frozen,   \* the session is in migration_frozen_sessions
          host,     \* the transport host's session: open, active, seen, pending
          call,     \* the recovery calls
          begun,    \* attempts begun: each is known by its number
          thaws,    \* attempts whose spawned thaw has not run yet
          drops,    \* the tasks spawned by dropped cancellation guards
          sent      \* the newest generation the peer has offered

\* History, which no guard reads: what the properties make an exception of.
VARIABLES overtaken, \* generations planned before the guard of an earlier attempt ran
          late,      \* generations planned while a thaw had still to run
          cut        \* generations whose commit the deadline cut off after publishing

history == <<overtaken, late, cut>>
vars == <<s, grace, cleanup, frozen, host, call, begun, thaws, drops, sent, history>>

Generations == 0..MaxGen
Attempts == 0..MaxAttempts
Phases == {"Idle", "Planning", "InFlight", "Terminal"}
Stages == {"Out", "Refresh", "Claim", "Freeze", "Recheck", "Begin", "Exchange",
           "Publishing", "Check", "Commit", "Retry", "Thaw", "Discard",
           "DiscardEnd", "End", "Ended"}

Running(c) == call[c].stage # "Out"

\* The entry is still in phase p of generation g and not terminal.
Holds(p, g) == s.phase = p /\ s.pgen = g /\ ~s.ended

TypeOK ==
    /\ s \in [gen : Generations, high : Generations, phase : Phases,
              pgen : Generations, ended : BOOLEAN, domain : Domains \cup {Direct},
              end : {"controller", "agent"}]
    /\ s.ended <=> s.phase = "Terminal"
    /\ grace \in {"None", "Running", "Over"}
    /\ cleanup \in {"None", "Freeze", "Close", "Done"}
    /\ frozen \in BOOLEAN
    /\ host \in [open : BOOLEAN, active : Generations, seen : Generations,
                 pending : Generations]
    /\ call \in [Calls -> [stage : Stages, id : Attempts, gen : Generations,
                           avoid : Domains \cup {Direct}, target : Domains \cup {Direct}]]
    /\ begun \in Attempts
    /\ thaws \subseteq Attempts
    /\ sent \in Generations
    /\ drops \subseteq [id : Attempts, gen : Generations,
                        step : {"Look", "Discard", "Settle", "Thaw"}]
    /\ overtaken \subseteq Generations /\ late \subseteq Generations
    /\ cut \subseteq Generations

Absent == [stage |-> "Out", id |-> 0, gen |-> 0, avoid |-> Direct, target |-> Direct]

\* install_verified_session: generation zero on a relay, or direct.
Init ==
    /\ \E d \in Domains \cup {Direct}, end \in {"controller", "agent"} :
         s = [gen |-> 0, high |-> 0, phase |-> "Idle", pgen |-> 0,
              ended |-> FALSE, domain |-> d, end |-> end]
    /\ grace = "None" /\ cleanup = "None" /\ frozen = FALSE
    /\ host = [open |-> TRUE, active |-> 0, seen |-> 0, pending |-> 0]
    /\ call = [c \in Calls |-> Absent]
    /\ begun = 0 /\ thaws = {} /\ drops = {} /\ sent = 0
    /\ overtaken = {} /\ late = {} /\ cut = {}

------------------------------------------------------------------------------
(* The ends of a call. *)

Goto(c, stage) == call' = [call EXCEPT ![c].stage = stage]

\* The call's future ends, by returning or by being dropped: its guard is
\* dropped with it, and the guard always spawns its task.
Leave(c) ==
    /\ call' = [call EXCEPT ![c] = Absent]
    /\ drops' = drops \cup {[id |-> call[c].id, gen |-> call[c].gen, step |-> "Look"]}

------------------------------------------------------------------------------
(* Starting a recovery. *)

\* Every field a new attempt captures under the lock before its first await.  A
\* refresh that failed has not used its generation up, so g may have been tried
\* before; nothing waits for the guard or the thaw of an earlier attempt.
Plan(c, g, d) ==
    /\ begun < MaxAttempts /\ begun' = begun + 1
    /\ s' = [s EXCEPT !.phase = "Planning", !.pgen = g]
    /\ call' = [call EXCEPT ![c] = [stage |-> "Refresh", id |-> begun + 1, gen |-> g,
                                    avoid |-> s.domain, target |-> d]]
    /\ overtaken' = IF \E e \in drops : e.gen = g THEN overtaken \cup {g} ELSE overtaken
    /\ late' = IF thaws # {} \/ \E e \in drops : e.step = "Thaw"
                 THEN late \cup {g} ELSE late

\* The monitor of the controller is one task that is never aborted: it awaits a
\* call before it makes the next one.
MayObserve(c) ==
    /\ s.end = "controller"
    /\ c \notin Agents
    /\ \A m \in Calls \ Agents : ~Running(m)

\* observe_health with the generation the host reported when the route failed.
Fails(c, g) ==
    /\ MayObserve(c)
    /\ ~s.ended /\ g = s.gen /\ s.phase = "Idle" /\ s.high < MaxGen
    /\ Plan(c, s.high + 1, Direct)
    /\ grace' = "None"
    /\ UNCHANGED <<cleanup, frozen, host, thaws, drops, sent, cut>>

\* A disconnect starts the grace, and a recovery once the grace is over.
Disconnects(c) ==
    /\ MayObserve(c)
    /\ ~s.ended /\ s.phase = "Idle"
    /\ \/ /\ grace = "None" /\ grace' = "Running"
          /\ UNCHANGED <<s, call, begun, overtaken, late>>
       \/ /\ grace = "Over" /\ s.high < MaxGen
          /\ Plan(c, s.high + 1, Direct)
          /\ UNCHANGED grace
    /\ UNCHANGED <<cleanup, frozen, host, thaws, drops, sent, cut>>

Reconnects ==
    /\ ~s.ended /\ grace # "None" /\ grace' = "None"
    /\ UNCHANGED <<s, cleanup, frozen, host, call, thaws, drops, sent, begun, history>>

GraceOver ==
    /\ grace = "Running" /\ grace' = "Over"
    /\ UNCHANGED <<s, cleanup, frozen, host, call, thaws, drops, sent, begun, history>>

\* accept_remote_offer: only the next generation, and only while idle.  The
\* peer offers no generation twice: it claims one before it sends the offer.
Offered(c, g, d) ==
    /\ s.end = "agent"
    /\ c \in Agents /\ ~Running(c)
    /\ g > sent /\ sent' = g
    /\ IF ~s.ended /\ s.phase = "Idle" /\ g = s.high + 1
         THEN Plan(c, g, d)
         ELSE UNCHANGED <<s, call, begun, overtaken, late>>
    /\ UNCHANGED <<grace, cleanup, frozen, host, thaws, drops, cut>>

------------------------------------------------------------------------------
(* The stages of a recovery, in the order of the code. *)

\* The refreshed directory (or the cached one, while it is fresh) offers a node
\* in another failure domain; an agent takes the node the offer names.
Refreshed(c) ==
    /\ call[c].stage = "Refresh"
    /\ \/ /\ c \notin Agents
          /\ \E d \in Domains \ {call[c].avoid} :
               call' = [call EXCEPT ![c].stage = "Claim", ![c].target = d]
       \/ /\ c \in Agents
          /\ Goto(c, IF call[c].target \in Domains \ {call[c].avoid}
                       THEN "Claim" ELSE "End")
    /\ UNCHANGED <<s, grace, cleanup, frozen, host, thaws, drops, sent, begun, history>>

\* A refresh that is refused for a security reason ends the session.
RefreshRefused(c) ==
    /\ call[c].stage = "Refresh"
    /\ Goto(c, "End")
    /\ UNCHANGED <<s, grace, cleanup, frozen, host, thaws, drops, sent, begun, history>>

\* clear_phase: back to idle when the attempt still holds the phase.
Cleared(g) == IF Holds("Planning", g) \/ Holds("InFlight", g)
                THEN [s EXCEPT !.phase = "Idle", !.pgen = 0] ELSE s

\* retryable_or_suppressed: no backend, no fresh cache or no other domain.
RefreshFails(c) ==
    /\ call[c].stage = "Refresh"
    /\ s' = Cleared(call[c].gen)
    /\ Leave(c)
    /\ UNCHANGED <<grace, cleanup, frozen, host, thaws, sent, begun, history>>

Claim(c) ==
    /\ call[c].stage = "Claim"
    /\ IF Holds("Planning", call[c].gen)
         THEN /\ s' = [s EXCEPT !.phase = "InFlight", !.high = call[c].gen]
              /\ Goto(c, "Freeze") /\ UNCHANGED drops
         ELSE UNCHANGED s /\ Leave(c)
    /\ UNCHANGED <<grace, cleanup, frozen, host, thaws, sent, begun, history>>

\* freeze_after_release inserts the fence even when releasing a key fails.
Freeze(c) ==
    /\ call[c].stage = "Freeze"
    /\ frozen' = TRUE
    /\ \/ Goto(c, IF c \in Agents THEN "Begin" ELSE "Recheck")
       \/ Goto(c, "End")
    /\ UNCHANGED <<s, grace, cleanup, host, thaws, drops, sent, begun, history>>

\* The controller looks again after the freeze; the agent does not.
Recheck(c) ==
    /\ call[c].stage = "Recheck"
    /\ IF Holds("InFlight", call[c].gen)
         THEN Goto(c, "Begin") /\ UNCHANGED drops
         ELSE Leave(c)
    /\ UNCHANGED <<s, grace, cleanup, frozen, host, thaws, sent, begun, history>>

\* begin_replacement: the host tries each generation once, in order.
Begins(c) == host.open /\ call[c].gen = host.seen + 1

Begin(c) ==
    /\ call[c].stage = "Begin"
    /\ IF Begins(c)
         THEN /\ host' = [host EXCEPT !.seen = call[c].gen, !.pending = call[c].gen]
              /\ Goto(c, "Exchange")
         ELSE /\ UNCHANGED host
              /\ Goto(c, IF c \in Agents THEN "End" ELSE "Retry")
    /\ UNCHANGED <<s, grace, cleanup, frozen, thaws, drops, sent, begun, history>>

\* commit_replacement publishes the validated route and then waits for the old
\* one to shut down.
Publish(c) ==
    /\ call[c].stage = "Exchange"
    /\ IF host.open /\ host.pending = call[c].gen
         THEN /\ host' = [host EXCEPT !.active = call[c].gen, !.pending = 0]
              /\ Goto(c, "Publishing")
         ELSE UNCHANGED host /\ Goto(c, "Retry")
    /\ UNCHANGED <<s, grace, cleanup, frozen, thaws, drops, sent, begun, history>>

Published(c) ==
    /\ call[c].stage = "Publishing"
    /\ Goto(c, "Check")
    /\ UNCHANGED <<s, grace, cleanup, frozen, host, thaws, drops, sent, begun, history>>

\* The negotiation times out, or signaling or the transport fails.  The deadline
\* spans the commit too: it may fire when the new route is already published.
ExecutorFails(c) ==
    /\ call[c].stage \in {"Begin", "Exchange", "Publishing"}
    /\ cut' = IF call[c].stage = "Publishing" THEN cut \cup {call[c].gen} ELSE cut
    /\ Goto(c, "Retry")
    /\ UNCHANGED <<s, grace, cleanup, frozen, host, begun, thaws, drops, sent, overtaken, late>>

\* A wrong token, fingerprint, candidate or authorization ends the session.
ExecutorRefuses(c) ==
    /\ call[c].stage \in {"Begin", "Exchange"}
    /\ Goto(c, "End")
    /\ UNCHANGED <<s, grace, cleanup, frozen, host, thaws, drops, sent, begun, history>>

\* A retryable error gives the phase back and thaws, when it is still held.
Retry(c) ==
    /\ call[c].stage = "Retry"
    /\ s' = Cleared(call[c].gen)
    /\ IF s' # s
         THEN thaws' = thaws \cup {call[c].id} /\ Goto(c, "Thaw") /\ UNCHANGED drops
         ELSE UNCHANGED thaws /\ Leave(c)
    /\ UNCHANGED <<grace, cleanup, frozen, host, sent, begun, history>>

\* The published mux is looked at before the commit.
Check(c) ==
    /\ call[c].stage = "Check"
    /\ Goto(c, IF host.open THEN "Commit" ELSE "DiscardEnd")
    /\ UNCHANGED <<s, grace, cleanup, frozen, host, thaws, drops, sent, begun, history>>

Commit(c) ==
    /\ call[c].stage = "Commit"
    /\ IF Holds("InFlight", call[c].gen)
         THEN /\ s' = [s EXCEPT !.gen = call[c].gen, !.domain = call[c].target,
                                !.phase = "Idle", !.pgen = 0]
              /\ grace' = "None"
              /\ thaws' = thaws \cup {call[c].id} /\ Goto(c, "Thaw")
         ELSE UNCHANGED <<s, grace, thaws>> /\ Goto(c, "Discard")
    /\ UNCHANGED <<cleanup, frozen, host, drops, sent, begun, history>>

\* Fault: the loser's route is left to time out by itself.
DiscardedNever(g) == host

\* close_session_if_generation closes the session only at that generation.
Discarded(g) == IF host.active = g THEN [host EXCEPT !.open = FALSE] ELSE host

Discard(c) ==
    /\ host' = Discarded(call[c].gen)
    /\ \/ call[c].stage = "Discard" /\ Leave(c)
       \/ call[c].stage = "DiscardEnd" /\ Goto(c, "End") /\ UNCHANGED drops
    /\ UNCHANGED <<s, grace, cleanup, frozen, thaws, sent, begun, history>>

\* thaw_cancellation_safe: the spawned thaw, and the call that waits for it.
RunThaw(n) ==
    /\ n \in thaws /\ thaws' = thaws \ {n}
    /\ frozen' = FALSE
    /\ UNCHANGED <<s, grace, cleanup, host, call, drops, sent, begun, history>>

\* Fault: the call returns without waiting for the thaw it spawned.
ThawedEarly(c) ==
    /\ call[c].stage = "Thaw"
    /\ Leave(c)
    /\ UNCHANGED <<s, grace, cleanup, frozen, host, thaws, sent, begun, history>>

Thawed(c) ==
    /\ call[c].stage = "Thaw" /\ call[c].id \notin thaws
    /\ Leave(c)
    /\ UNCHANGED <<s, grace, cleanup, frozen, host, thaws, sent, begun, history>>

\* The future is dropped at one of its awaits.
Cancel(c) ==
    /\ c \in Cancellable /\ Running(c)
    /\ Leave(c)
    /\ UNCHANGED <<s, grace, cleanup, frozen, host, thaws, sent, begun, history>>

------------------------------------------------------------------------------
(* The terminal path. *)

\* Fault: nobody spawns the cleanup its callers wait for.
EndedUnclean ==
    /\ s' = [s EXCEPT !.phase = "Terminal", !.pgen = 0, !.ended = TRUE]
    /\ UNCHANGED cleanup

\* The first reason wins, and only it spawns the cleanup.
Ended ==
    /\ s' = [s EXCEPT !.phase = "Terminal", !.pgen = 0, !.ended = TRUE]
    /\ cleanup' = IF s.ended THEN cleanup ELSE "Freeze"

\* A recovery call ends the session, then waits for the cleanup like any other.
End(c) ==
    /\ call[c].stage = "End"
    /\ Ended
    /\ Goto(c, "Ended")
    /\ UNCHANGED <<grace, frozen, host, thaws, drops, sent, begun, history>>

Finish(c) ==
    /\ call[c].stage = "Ended" /\ cleanup = "Done"
    /\ Leave(c)
    /\ UNCHANGED <<s, grace, cleanup, frozen, host, thaws, sent, begun, history>>

\* terminate_security, from the session's cleanup, an install that is rolled
\* back or a lost authorization.
Terminate ==
    /\ ~s.ended
    /\ Ended
    /\ UNCHANGED <<grace, frozen, host, call, thaws, drops, sent, begun, history>>

\* The spawned cleanup runs to its end whatever becomes of its callers.
CleanupStep ==
    /\ \/ /\ cleanup = "Freeze" /\ cleanup' = "Close"
          /\ frozen' = TRUE /\ UNCHANGED host
       \/ /\ cleanup = "Close" /\ cleanup' = "Done"
          /\ host' = [host EXCEPT !.open = FALSE] /\ UNCHANGED frozen
    /\ UNCHANGED <<s, grace, call, thaws, drops, sent, begun, history>>

\* The session's own cleanup closes the transport before it ends the failover.
CloseTransport ==
    /\ host.open /\ host' = [host EXCEPT !.open = FALSE]
    /\ UNCHANGED <<s, grace, cleanup, frozen, call, thaws, drops, sent, begun, history>>

------------------------------------------------------------------------------
(* The task a dropped guard spawns. *)

Become(d, step) == drops' = (drops \ {d}) \cup {[d EXCEPT !.step = step]}
Gone(d) == drops' = drops \ {d}

GuardLooks(d) ==
    /\ d.step = "Look"
    /\ s' = IF Holds("Planning", d.gen) THEN Cleared(d.gen) ELSE s
    /\ IF Holds("InFlight", d.gen) THEN Become(d, "Discard") ELSE Gone(d)
    /\ UNCHANGED <<grace, cleanup, frozen, host, call, thaws, sent, begun, history>>

GuardDiscards(d) ==
    /\ d.step = "Discard"
    /\ host' = Discarded(d.gen)
    /\ Become(d, "Settle")
    /\ UNCHANGED <<s, grace, cleanup, frozen, call, thaws, sent, begun, history>>

\* Fault: the guard forgets to give the phase back.
GuardSettlesNothing(d) ==
    /\ d.step = "Settle"
    /\ Gone(d)
    /\ UNCHANGED <<s, grace, cleanup, frozen, host, call, thaws, sent, begun, history>>

GuardSettles(d) ==
    /\ d.step = "Settle"
    /\ IF Holds("InFlight", d.gen)
         THEN s' = Cleared(d.gen) /\ Become(d, "Thaw")
         ELSE UNCHANGED s /\ Gone(d)
    /\ UNCHANGED <<grace, cleanup, frozen, host, call, thaws, sent, begun, history>>

GuardThaws(d) ==
    /\ d.step = "Thaw"
    /\ frozen' = FALSE
    /\ Gone(d)
    /\ UNCHANGED <<s, grace, cleanup, host, call, thaws, sent, begun, history>>

GuardStep(d) == GuardLooks(d) \/ GuardDiscards(d) \/ GuardSettles(d) \/ GuardThaws(d)

------------------------------------------------------------------------------

\* The steps of a call that need nothing but the scheduler and a bounded wait.
Step(c) ==
    \/ Refreshed(c) \/ RefreshFails(c) \/ RefreshRefused(c)
    \/ Claim(c) \/ Freeze(c) \/ Recheck(c) \/ Begin(c)
    \/ Publish(c) \/ Published(c) \/ ExecutorFails(c) \/ ExecutorRefuses(c)
    \/ Retry(c) \/ Check(c) \/ Commit(c) \/ Discard(c) \/ Thawed(c)
    \/ End(c) \/ Finish(c)

Next ==
    \/ \E c \in Calls, g \in Generations :
         \/ g <= host.active /\ Fails(c, g)
         \/ \E d \in Domains : Offered(c, g, d)
    \/ \E c \in Calls : Disconnects(c) \/ Step(c) \/ Cancel(c)
    \/ \E n \in thaws : RunThaw(n)
    \/ Reconnects \/ GraceOver
    \/ Terminate \/ CleanupStep \/ CloseTransport
    \/ \E d \in drops : GuardStep(d)

Spec == Init /\ [][Next]_vars

\* Every await of a call is bounded or is a lock; spawned tasks run.
FairSpec ==
    /\ Spec
    /\ \A c \in Calls : WF_vars(Step(c))
    /\ \A n \in Attempts : WF_vars(RunThaw(n))
    /\ WF_vars(CleanupStep)
    /\ WF_vars(\E d \in drops : GuardStep(d))

------------------------------------------------------------------------------
(* Properties. *)

\* No task of the coordinator is left that could still act.
Quiet ==
    /\ \A c \in Calls : ~Running(c)
    /\ thaws = {} /\ drops = {} /\ cleanup \in {"None", "Done"}

Migrating == {"Begin", "Exchange", "Publishing", "Check", "Commit"}

\* While an attempt that holds the phase talks to the peer, its input is frozen:
\* no thaw and no guard of an earlier attempt undoes the fence, although they
\* run beside it and nothing joins a guard (observe_health awaits the thaw it
\* spawned, the guard compares generations).  Two exceptions, both in the code:
\* an answering end may accept the next offer while the thaw of an earlier attempt
\* is still to run (late); and a controller whose refresh failed may plan the same
\* generation again before the guard of the failed attempt has run (overtaken),
\* which then takes the new attempt for its own.
InputFrozenInFlight ==
    overtaken = {} =>
        \A c \in Calls :
            /\ call[c].stage \in Migrating
            /\ Holds("InFlight", call[c].gen)
            /\ c \in Agents => call[c].gen \notin late
            => frozen

\* A route the host published under a generation the coordinator gave up is not
\* left open: once no task is left an open transport shows the coordinator's own
\* generation.  The exception is the code's: a deadline that fires while the
\* commit waits for the old route to shut down reports a retryable failure, and
\* the route it had published stays (cut).
LoserClosed ==
    Quiet /\ host.open => host.active = s.gen \/ host.active \in cut

\* An attempt that ended, was overtaken or was dropped leaves nothing behind:
\* once no task is left the session waits for no attempt nobody makes, and
\* unless it has ended its input is free again (the promise of the guard).  Only
\* a generation that was planned twice may leave its fence: the guard of the
\* first attempt may thaw before the second one has frozen.
NothingLeftBehind ==
    Quiet => /\ s.phase \in {"Idle", "Terminal"}
             /\ ~s.ended /\ s.high \notin overtaken => ~frozen

\* A recovery that was started comes to its end.
CallsReturn == \A c \in Calls : Running(c) ~> ~Running(c)
=============================================================================
