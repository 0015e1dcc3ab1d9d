-------------------------- MODULE SessionEventFeed --------------------------
(***************************************************************************)
(* A user interface that follows the authorization registry by long polls  *)
(* (SessionAuthorizationRegistry::subscribe): it passes the cursor of the  *)
(* last page back, and shows a prompt for every session that waits for its *)
(* user. The registry truncates its history.                               *)
(***************************************************************************)
EXTENDS SessionAuthorization

CONSTANT PageLimit      \* limit of a query

ASSUME PageAssumption == PageLimit \in Nat \ {0} /\ HistoryLimit > 0

VARIABLES
    cursor,             \* after_sequence of the next query, or None
    prompts             \* sessions the user is asked about

client == <<cursor, prompts>>
feedVars == <<vars, cursor, prompts>>

FeedInit == Init /\ cursor = None /\ prompts = {}

-----------------------------------------------------------------------------
After == IF cursor = None THEN 0 ELSE cursor

\* build_subscription: the cursor predates the retained history.
ResetRequired ==
    cursor # None /\ events # << >> /\ cursor + 1 < Head(events).sequence

PendingSessions ==
    {s \in DOMAIN records : /\ records[s].request.role = "Agent"
                            /\ records[s].auth = "AwaitingLocalConsent"}

\* The places of the history the page is taken from, and those it holds: the
\* oldest ones, up to the limit.
Matching == {i \in DOMAIN events : events[i].sequence > After}

Page == {i \in Matching : Cardinality({j \in Matching : j <= i}) <= PageLimit}

Newest(places) == events[CHOOSE i \in places : \A j \in places : j <= i]

NextAfter ==
    CASE Page # {} -> Newest(Page).sequence
      [] Page = {} /\ nextSequence > 0 -> nextSequence
      [] OTHER -> cursor

\* The client applies a page in order: a request adds a prompt, whatever
\* decides or ends the request removes it.
PromptKinds == {"ConsentRequested", "ConsentResolved", "AuthorizationChanged"}

Applied(shown, page) ==
    LET about(s) == {i \in page : events[i].session = s /\ events[i].kind \in PromptKinds}
    IN  {s \in Sessions : IF about(s) = {} THEN s \in shown
                          ELSE Newest(about(s)).kind = "ConsentRequested"}

\* Fault: a reset page carries no pending sessions.
NotRefreshed == {}

\* The pending sessions a reset page carries.
Refreshed == PendingSessions

\* subscribe returns: the page is reset, first or consecutive.
Poll ==
    /\ IF ResetRequired
       THEN /\ prompts' = Refreshed
            /\ cursor' = nextSequence
       ELSE /\ prompts' = Applied(IF cursor = None THEN PendingSessions ELSE prompts, Page)
            /\ cursor' = NextAfter
    /\ UNCHANGED vars

\* A user interface that starts again has no cursor.
ClientRestart ==
    /\ cursor # None
    /\ cursor' = None
    /\ prompts' = {}
    /\ UNCHANGED vars

FeedNext ==
    \/ Next /\ UNCHANGED client
    \/ Poll
    \/ ClientRestart

FeedSpec == FeedInit /\ [][FeedNext]_feedVars

-----------------------------------------------------------------------------
\* RemoteCursorState::Current, pending_sessions: a session that waits for its
\* user is shown, or the page the client's cursor leads to will show it,
\* although the history may have lost its request.
NoPromptLost ==
    \A s \in PendingSessions :
        \/ cursor = None
        \/ ResetRequired
        \/ s \in prompts
        \/ \E i \in 1..Len(events) :
              /\ events[i].session = s
              /\ events[i].kind = "ConsentRequested"
              /\ events[i].sequence > cursor

=============================================================================
