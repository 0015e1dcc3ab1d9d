----------------------------- MODULE SignalBus -----------------------------
(***************************************************************************)
(* RelaySignalingBus and the task that drives it (signaling/runtime.rs):   *)
(* session code queues signed commands and waits on receipts, the          *)
(* connection task takes them to the socket, inbound events are published  *)
(* to scoped subscriptions, and closing a session silences it both ways.   *)
(*                                                                         *)
(* Each action is a stretch of code under one mutex, or up to an await.    *)
(* `lifecycle` is the fair RwLock of the bus: close takes it for writing,  *)
(* publish, the subscriptions and the connection's send take it for        *)
(* reading, and a waiting writer keeps new readers out.                    *)
(***************************************************************************)
EXTENDS Naturals, Sequences, FiniteSets

CONSTANTS
    Sessions,
    Subscribers,
    MaxRequests,   \* bound: commands accepted by try_send_authenticated
    MaxEvents,     \* bound: inbound events
    QueueCap,      \* AUTHENTICATED_SESSION_SIGNAL_QUEUE_CAPACITY
    EventCap       \* RELAY_EVENT_QUEUE_CAPACITY

ASSUME BusAssumption ==
    /\ MaxRequests \in Nat /\ MaxEvents \in Nat
    /\ QueueCap \in Nat \ {0} /\ EventCap \in Nat \ {0}

VARIABLES
    active,     \* the task runs and accepts commands
    shutdown,   \* the task has been told to stop
    conn,       \* the connection task: its stage and the command or event it holds
    requests,   \* the commands accepted so far: session and receipt, by request id
    pending,    \* ids with a completion in the pending map
    queued,     \* ids in the outbound queue
    relay,      \* a caller of RelaySignalingBus::send: its stage
    closing,    \* per session: how far close_authenticated_session has got
    closed,     \* sessions marked closed
    history,    \* the events kept for later subscribers
    subs,       \* the subscriptions
    log,        \* history variable: sessions of all published events, in order
    wire        \* history variable: the ids written to the socket, in order

busVars == <<active, shutdown, conn, requests, pending, queued, relay, closing,
             closed, history, subs, log, wire>>

Ids == 1 .. MaxRequests

Outcomes == {"waiting", "dropped", "ok", "closed", "unavailable", "invalid"}

ConnStages == {"down", "up", "popped", "admitted", "sending", "received",
               "relaySending", "inactive", "drained", "stopped"}

SubStages == {"none", "subscribing", "idle", "holding", "closed", "lagged"}

\* Before subscribe, and after the subscription has ended.
NoSub == [stage |-> "none", session |-> CHOOSE s \in Sessions : TRUE,
          replay |-> <<>>, live |-> <<>>, lag |-> FALSE, held |-> <<>>, got |-> <<>>]

BusInit ==
    /\ active = TRUE /\ shutdown = FALSE
    /\ conn = [stage |-> "down", item |-> 0]
    /\ requests = <<>> /\ pending = {} /\ queued = <<>>
    /\ relay = "none"
    /\ closing = [s \in Sessions |-> "open"] /\ closed = {}
    /\ history = <<>>
    /\ subs = [u \in Subscribers |-> NoSub]
    /\ log = <<>> /\ wire = <<>>

IsWaiting(r) == requests[r].receipt = "waiting"

Finished(rs, outcome) ==
    [r \in DOMAIN requests |->
        IF r \in rs /\ IsWaiting(r) THEN [requests[r] EXCEPT !.receipt = outcome]
                                    ELSE requests[r]]

SessionOf(r) == requests[r].session

\* The elements of a queue that are in S, in their order (retain).
Retain(seq, S) ==
    LET upTo[n \in 0..Len(seq)] ==
            IF n = 0 THEN <<>>
            ELSE IF seq[n] \in S THEN Append(upTo[n-1], seq[n]) ELSE upTo[n-1]
    IN  upTo[Len(seq)]

\* An event is named by its place in the log.
EventsOf(seq, s) == Retain(seq, {e \in DOMAIN log : log[e] = s})
-----------------------------------------------------------------------------
(* The lifecycle lock *)

\* Fault: the connection does not keep its admission while it sends.
NobodyReads == TRUE

\* The only reader that keeps its guard over an await is the admitted send.
NoReader == conn.stage \notin {"admitted", "sending"}

\* A reader gets in unless a close holds the lock or queues for it.
CanRead == \A s \in Sessions : closing[s] \notin {"waiting", "marked"}

\* Fault: the subscriptions' guards starve a writer.
CanWriteAlone == NoReader /\ \A u \in Subscribers : subs[u].stage \notin {"idle", "holding"}

CanWrite == NoReader /\ \A s \in Sessions : closing[s] # "marked"
-----------------------------------------------------------------------------
(* Commands of authenticated sessions *)

\* try_send_authenticated's early returns, all under the bus mutex.
Accepts(s) == s \notin closed /\ active /\ Cardinality(pending) < QueueCap

TrySend(s) ==
    /\ Accepts(s)
    /\ Len(requests) < MaxRequests
    /\ requests' = Append(requests, [session |-> s, receipt |-> "waiting"])
    /\ pending' = pending \cup {Len(requests) + 1}
    /\ queued' = Append(queued, Len(requests) + 1)
    /\ UNCHANGED <<active, shutdown, conn, relay, closing, closed, history, subs,
                   log, wire>>

\* The caller stops waiting: its end of the completion channel is dropped.
DropReceipt(r) ==
    /\ r \in DOMAIN requests /\ IsWaiting(r)
    /\ requests' = Finished({r}, "dropped")
    /\ UNCHANGED <<active, shutdown, conn, pending, queued, relay, closing, closed,
                   history, subs, log, wire>>

\* The completions close takes out of the pending map.
Completions(s) == {r \in pending : SessionOf(r) = s}

StartClose(s) ==
    /\ closing[s] = "open"
    /\ closing' = [closing EXCEPT ![s] = "waiting"]
    /\ UNCHANGED <<active, shutdown, conn, requests, pending, queued, relay, closed,
                   history, subs, log, wire>>

MarkClosed(s) ==
    /\ closing[s] = "waiting"
    /\ CanWrite
    /\ closing' = [closing EXCEPT ![s] = "marked"]
    /\ closed' = closed \cup {s}
    /\ queued' = Retain(queued, {r \in DOMAIN requests : SessionOf(r) # s})
    /\ pending' = pending \ Completions(s)
    /\ UNCHANGED <<active, shutdown, conn, requests, relay, history, subs, log, wire>>

\* The rest of close: history, completions, the watchers' signal, the guard.
FinishClose(s) ==
    /\ closing[s] = "marked"
    /\ closing' = [closing EXCEPT ![s] = "done"]
    /\ history' = Retain(history, {e \in DOMAIN log : log[e] # s})
    /\ requests' = Finished({r \in DOMAIN requests : SessionOf(r) = s /\ r \notin pending},
                            "closed")
    /\ UNCHANGED <<active, shutdown, conn, pending, queued, relay, closed, subs, log,
                   wire>>
-----------------------------------------------------------------------------
(* The connection task *)

ConnTo(stage) == conn' = [stage |-> stage, item |-> 0]

Connect ==
    /\ conn.stage = "down" /\ ~shutdown
    /\ ConnTo("up")
    /\ UNCHANGED <<active, shutdown, requests, pending, queued, relay, closing, closed,
                   history, subs, log, wire>>

\* A read, heartbeat or decode error ends the connection, not the task.
Disconnect ==
    /\ conn.stage = "up"
    /\ ConnTo("down")
    /\ UNCHANGED <<active, shutdown, requests, pending, queued, relay, closing, closed,
                   history, subs, log, wire>>

\* recv_authenticated
PopRequest ==
    /\ conn.stage = "up" /\ queued # <<>>
    /\ conn' = [stage |-> "popped", item |-> Head(queued)]
    /\ queued' = Tail(queued)
    /\ UNCHANGED <<active, shutdown, requests, pending, relay, closing, closed, history,
                   subs, log, wire>>

\* authenticated_request_is_live: a stale request also leaves the pending map.
Live(r) == r \in pending /\ IsWaiting(r) /\ SessionOf(r) \notin closed

\* admit_authenticated_request, under the read guard it returns.
Admit ==
    /\ conn.stage = "popped"
    /\ CanRead
    /\ IF Live(conn.item)
         THEN conn' = [conn EXCEPT !.stage = "admitted"] /\ UNCHANGED pending
         ELSE ConnTo("up") /\ pending' = pending \ {conn.item}
    /\ UNCHANGED <<active, shutdown, requests, queued, relay, closing, closed, history,
                   subs, log, wire>>

\* complete_authenticated
Complete(r, outcome) ==
    /\ requests' = IF r \in pending THEN Finished({r}, outcome) ELSE requests
    /\ pending' = pending \ {r}

\* The envelope cannot be built or signed.
RefuseInvalid ==
    /\ conn.stage = "admitted"
    /\ ConnTo("up")
    /\ Complete(conn.item, "invalid")
    /\ UNCHANGED <<active, shutdown, queued, relay, closing, closed, history, subs, log,
                   wire>>

\* The second liveness check, and the start of the write to the socket.
StartSend ==
    /\ conn.stage = "admitted"
    /\ IF Live(conn.item)
         THEN conn' = [conn EXCEPT !.stage = "sending"] /\ UNCHANGED pending
         ELSE ConnTo("up") /\ pending' = pending \ {conn.item}
    /\ UNCHANGED <<active, shutdown, requests, queued, relay, closing, closed, history,
                   subs, log, wire>>

SendDone ==
    /\ conn.stage = "sending"
    /\ wire' = Append(wire, conn.item)
    /\ ConnTo("up")
    /\ Complete(conn.item, "ok")
    /\ UNCHANGED <<active, shutdown, queued, relay, closing, closed, history, subs, log>>

\* Fault: a failed write puts the command back for the next connection.
SendRetried ==
    /\ conn.stage = "sending"
    /\ wire' \in {wire, Append(wire, conn.item)}
    /\ ConnTo("down")
    /\ queued' = <<conn.item>> \o queued
    /\ UNCHANGED <<active, shutdown, requests, pending, relay, closing, closed, history,
                   subs, log>>

\* A failed write may or may not have reached the peer.
SendFails ==
    /\ conn.stage = "sending"
    /\ wire' \in {wire, Append(wire, conn.item)}
    /\ ConnTo("down")
    /\ Complete(conn.item, "unavailable")
    /\ UNCHANGED <<active, shutdown, queued, relay, closing, closed, history, subs, log>>

\* An authenticated event is read from the socket and mapped, up to publish.
Receive(s) ==
    /\ conn.stage = "up"
    /\ Len(log) < MaxEvents
    /\ conn' = [stage |-> "received", item |-> s]
    /\ UNCHANGED <<active, shutdown, requests, pending, queued, relay, closing, closed,
                   history, subs, log, wire>>

Keep(seq, e) == IF Len(seq) = EventCap THEN Append(Tail(seq), e) ELSE Append(seq, e)

\* The broadcast channel: a receiver that is full loses its oldest event.
Broadcast(e) ==
    [u \in Subscribers |->
        IF subs[u].stage \in {"none", "closed", "lagged"} THEN subs[u]
        ELSE [subs[u] EXCEPT !.live = Keep(@, e),
                             !.lag = @ \/ Len(subs[u].live) = EventCap]]

\* Fault: publish does not take the history mutex.
HistoryUnlocked == TRUE

HistoryFree == \A u \in Subscribers : subs[u].stage # "subscribing"

Publish ==
    /\ conn.stage = "received"
    /\ CanRead
    /\ HistoryFree
    /\ ConnTo("up")
    /\ IF conn.item \in closed
         THEN UNCHANGED <<history, subs, log>>
         ELSE /\ log' = Append(log, conn.item)
              /\ history' = Keep(history, Len(log) + 1)
              /\ subs' = Broadcast(Len(log) + 1)
    /\ UNCHANGED <<active, shutdown, requests, pending, queued, relay, closing, closed,
                   wire>>
-----------------------------------------------------------------------------
(* RelaySignalingBus::send, and the end of the task *)

\* send tests active and then awaits the channel and its completion.
RelayCheck ==
    /\ relay = "none" /\ active
    /\ relay' = "checked"
    /\ UNCHANGED <<active, shutdown, conn, requests, pending, queued, closing, closed,
                   history, subs, log, wire>>

\* After the task has returned the channel has no receiver.
RelayEnqueue ==
    /\ relay = "checked"
    /\ relay' = IF conn.stage = "stopped" THEN "unavailable" ELSE "queued"
    /\ UNCHANGED <<active, shutdown, conn, requests, pending, queued, closing, closed,
                   history, subs, log, wire>>

RelayPop ==
    /\ conn.stage = "up" /\ relay = "queued"
    /\ conn' = [stage |-> "relaySending", item |-> 0]
    /\ UNCHANGED <<active, shutdown, requests, pending, queued, relay, closing, closed,
                   history, subs, log, wire>>

RelayAnswer ==
    /\ conn.stage = "relaySending"
    /\ \/ relay' \in {"ok", "invalid"} /\ ConnTo("up")
       \/ relay' = "unavailable" /\ ConnTo("down")
    /\ UNCHANGED <<active, shutdown, requests, pending, queued, closing, closed, history,
                   subs, log, wire>>

RequestShutdown ==
    /\ ~shutdown
    /\ shutdown' = TRUE
    /\ UNCHANGED <<active, conn, requests, pending, queued, relay, closing, closed,
                   history, subs, log, wire>>

\* The task sees the shutdown where it selects on it.
Deactivate ==
    /\ shutdown /\ conn.stage \in {"down", "up"}
    /\ active' = FALSE
    /\ ConnTo("inactive")
    /\ UNCHANGED <<shutdown, requests, pending, queued, relay, closing, closed, history,
                   subs, log, wire>>

DrainRelay ==
    /\ conn.stage = "inactive"
    /\ relay' = IF relay = "queued" THEN "unavailable" ELSE relay
    /\ ConnTo("drained")
    /\ UNCHANGED <<active, shutdown, requests, pending, queued, closing, closed, history,
                   subs, log, wire>>

\* fail_all_authenticated; then the task returns and drops the relay receiver,
\* and with it any request that was queued after the drain.
StopTask ==
    /\ conn.stage = "drained"
    /\ ConnTo("stopped")
    /\ requests' = Finished(pending, "unavailable")
    /\ pending' = {} /\ queued' = <<>>
    /\ relay' = IF relay = "queued" THEN "unavailable" ELSE relay
    /\ UNCHANGED <<active, shutdown, closing, closed, history, subs, log, wire>>
-----------------------------------------------------------------------------
(* Subscriptions *)

SubTo(u, r) == subs' = [subs EXCEPT ![u] = r]

\* subscribe_authenticated_session, with the history mutex held between the steps.
Subscribe(u, s) ==
    /\ subs[u].stage = "none"
    /\ HistoryFree
    /\ SubTo(u, [NoSub EXCEPT !.stage = "subscribing", !.session = s])
    /\ UNCHANGED <<active, shutdown, conn, requests, pending, queued, relay, closing,
                   closed, history, log, wire>>

CopyHistory(u) ==
    /\ subs[u].stage = "subscribing"
    /\ SubTo(u, [subs[u] EXCEPT !.stage = "idle",
                                !.replay = EventsOf(history, subs[u].session)])
    /\ UNCHANGED <<active, shutdown, conn, requests, pending, queued, relay, closing,
                   closed, history, log, wire>>

EndSub(u, how) == [subs[u] EXCEPT !.stage = how, !.replay = <<>>, !.live = <<>>, !.held = <<>>]

\* recv under the lifecycle guard: the closed test, then a replayed event.
RecvReplay(u) ==
    /\ subs[u].stage = "idle"
    /\ CanRead
    /\ \/ /\ subs[u].session \in closed
          /\ SubTo(u, EndSub(u, "closed"))
       \/ /\ subs[u].session \notin closed
          /\ subs[u].replay # <<>>
          /\ SubTo(u, [subs[u] EXCEPT !.replay = Tail(@),
                                      !.got = Append(@, Head(subs[u].replay))])
    /\ UNCHANGED <<active, shutdown, conn, requests, pending, queued, relay, closing,
                   closed, history, log, wire>>

\* The live half of recv, outside the guard: an event of another session is
\* skipped, one of this session is held until the guard is taken again.
RecvLive(u) ==
    /\ subs[u].stage = "idle"
    /\ subs[u].replay = <<>> /\ subs[u].live # <<>>
    /\ \/ /\ subs[u].lag
          /\ SubTo(u, EndSub(u, "lagged"))
       \/ /\ ~subs[u].lag
          /\ LET e == Head(subs[u].live) IN
             SubTo(u, IF log[e] = subs[u].session
                        THEN [subs[u] EXCEPT !.stage = "holding", !.live = Tail(@),
                                             !.held = <<e>>]
                        ELSE [subs[u] EXCEPT !.live = Tail(@)])
    /\ UNCHANGED <<active, shutdown, conn, requests, pending, queued, relay, closing,
                   closed, history, log, wire>>

Deliver(u) ==
    /\ subs[u].stage = "holding"
    /\ CanRead
    /\ SubTo(u, IF subs[u].session \in closed
                  THEN EndSub(u, "closed")
                  ELSE [subs[u] EXCEPT !.stage = "idle", !.held = <<>>,
                                       !.got = @ \o subs[u].held])
    /\ UNCHANGED <<active, shutdown, conn, requests, pending, queued, relay, closing,
                   closed, history, log, wire>>
-----------------------------------------------------------------------------
ConnStep == \/ Connect \/ PopRequest \/ Admit \/ StartSend \/ SendDone \/ Publish
            \/ RelayPop \/ RelayAnswer \/ Deactivate \/ DrainRelay \/ StopTask

ConnFault == Disconnect \/ RefuseInvalid \/ SendFails

Receiving == \E s \in Sessions : Receive(s)

CloseStep(s) == MarkClosed(s) \/ FinishClose(s)

SubStep(u) == CopyHistory(u) \/ RecvReplay(u) \/ RecvLive(u) \/ Deliver(u)

Callers == \/ \E s \in Sessions : TrySend(s) \/ StartClose(s)
           \/ \E r \in Ids : DropReceipt(r)
           \/ \E u \in Subscribers, s \in Sessions : Subscribe(u, s)
           \/ RelayCheck \/ RelayEnqueue \/ RequestShutdown

BusNext == \/ ConnStep \/ ConnFault \/ Receiving \/ Callers
        \/ \E s \in Sessions : CloseStep(s)
        \/ \E u \in Subscribers : SubStep(u)

\* The runtime polls every ready task; the socket completes or fails a write.
Fairness == /\ WF_busVars(ConnStep)
            /\ SF_busVars(Deactivate)
            /\ \A s \in Sessions : WF_busVars(CloseStep(s))
            /\ \A u \in Subscribers : WF_busVars(SubStep(u))
            /\ WF_busVars(RelayEnqueue)

BusSpec == BusInit /\ [][BusNext]_busVars

FairSpec == BusSpec /\ Fairness
-----------------------------------------------------------------------------
\* Shapes, and the capacities of the pending map, the history and the channel.
BusTypeOK ==
    /\ active \in BOOLEAN /\ shutdown \in BOOLEAN
    /\ conn.stage \in ConnStages
    /\ requests \in Seq([session : Sessions, receipt : Outcomes])
    /\ pending \subseteq DOMAIN requests /\ Cardinality(pending) <= QueueCap
    /\ \A i \in DOMAIN queued : queued[i] \in pending
    /\ relay \in {"none", "checked", "queued", "ok", "invalid", "unavailable"}
    /\ closing \in [Sessions -> {"open", "waiting", "marked", "done"}]
    /\ closed \subseteq Sessions
    /\ Len(history) <= EventCap
    /\ \A u \in Subscribers : subs[u].stage \in SubStages /\ Len(subs[u].live) <= EventCap

\* Once close_authenticated_session has returned, nothing of that session is
\* written to the socket any more, although the connection may have taken the
\* command off the queue before.
SilentAfterClose ==
    [][\A s \in Sessions :
          closing[s] = "done" /\ wire' # wire => SessionOf(wire'[Len(wire')]) # s]_busVars

\* A command whose receipt says Ok was written, and every command is written at
\* most once and in the order the bus accepted it, over reconnections.
SentOnceInOrder ==
    /\ \A i, j \in DOMAIN wire : i < j => wire[i] < wire[j]
    /\ \A r \in DOMAIN requests :
          requests[r].receipt = "ok" => \E i \in DOMAIN wire : wire[i] = r

\* What a subscription has delivered and what is still on its way to it are,
\* without gap or repetition, the last events published for its session.
NoGapNoRepeat ==
    \A u \in Subscribers :
        subs[u].stage \in {"idle", "holding"} /\ ~subs[u].lag /\ subs[u].session \notin closed =>
            LET mine == EventsOf([e \in DOMAIN log |-> e], subs[u].session)
                seen == subs[u].got \o subs[u].held \o subs[u].replay
                          \o EventsOf(subs[u].live, subs[u].session)
            IN  /\ Len(seen) <= Len(mine)
                /\ seen = SubSeq(mine, Len(mine) - Len(seen) + 1, Len(mine))

\* Nobody waits for ever: closing a session returns, whatever the connection
\* is sending, once the socket write in front of it ends; a subscription of a
\* closed session learns of it; and after a shutdown request the task stops and
\* every sender and the relay query have their answers.
CallersReturn ==
    /\ \A s \in Sessions : closing[s] = "waiting" ~> closing[s] = "done"
    /\ \A u \in Subscribers :
          subs[u].stage \in {"idle", "holding"} /\ subs[u].session \in closed
              ~> subs[u].stage \in {"closed", "lagged"}
    /\ shutdown ~> /\ conn.stage = "stopped"
                   /\ \A r \in DOMAIN requests : ~IsWaiting(r)
                   /\ relay \notin {"checked", "queued"}
=============================================================================
