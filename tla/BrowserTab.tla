----------------------------- MODULE BrowserTab -----------------------------
(***************************************************************************)
(* One page of one browser tab: its access token, the refresh that renews  *)
(* it, and the WebSocket connection of the page, with its reconnects.      *)
(*                                                                         *)
(* JavaScript runs one task at a time to its end, microtasks included, so  *)
(* an action is a task: an event of a socket, a timer, the answer to the   *)
(* refresh, a call of the page.  What the server answers is open.          *)
(***************************************************************************)
EXTENDS Naturals

CONSTANTS MaxAttempts,    \* MAX_RECONNECT_ATTEMPTS
          MaxRefreshes    \* bound: refreshes that succeed

ASSUME BoundsAssumption == MaxAttempts \in Nat \ {0} /\ MaxRefreshes \in Nat

VARIABLES kind,         \* "document" (documentWs.ts) or "workspace" (workspaceWs.ts)
          token,        \* accessTokenRef holds a token
          expired,      \* accessTokenExpiresAt has passed or is null
          proactive,    \* proactiveRefreshTimer is set
          refreshing,   \* refreshPromise is set
          refreshes,
          closed, subscribed, suppressReconnect,
          reconnectTimer, reconnectAttempt,
          socket,       \* the state of the WebSocket in "socket"
          others,       \* how many other WebSockets are in each state
          waiting,      \* calls of connectWithFreshToken that await refreshPromise
          gaveUp,       \* the page shows that the connection is lost
          dismissed     \* history: a socket in use was closed by a terminal code,
                        \* and none was opened since

auth == <<token, expired, proactive, refreshing, refreshes>>
sockets == <<socket, others>>
timing == <<reconnectTimer, reconnectAttempt>>
switches == <<kind, closed, subscribed, suppressReconnect>>
vars == <<auth, sockets, timing, switches, waiting, gaveUp, dismissed>>

Live == {"connecting", "open"}
States == Live \cup {"closing", "failing"}

\* The codes of a close event: 1000, the application's own 4000 to 4003, and
\* 1005, 1006 and all others.  A connection that was never open, also one that
\* close() was called for, ends with 1006; one that was ends with the code of
\* either side or with 1006.
Codes == {"normal", "application", "lost"}
CodesOf(state) == IF state \in {"open", "closing"} THEN Codes ELSE {"lost"}

Add(counts, state, n) == [counts EXCEPT ![state] = @ + n]
Drop(counts, state) == [counts EXCEPT ![state] = @ - 1]

\* "socket" is overwritten: what it held is nobody's any more.
Orphaned == IF socket \in Live THEN Add(others, socket, 1) ELSE others

\* socket.close(...), socket = null.
Closing ==
  CASE socket = "open" -> Add(others, "closing", 1)
    [] socket = "connecting" -> Add(others, "failing", 1)
    [] OTHER -> others

Init ==
  /\ kind \in {"document", "workspace"}
  /\ token = TRUE /\ expired = FALSE /\ proactive = TRUE
  /\ refreshing = FALSE /\ refreshes = 0
  /\ closed = FALSE /\ subscribed = TRUE /\ suppressReconnect = FALSE
  /\ reconnectTimer = FALSE /\ reconnectAttempt = 0
  /\ socket = "connecting"
  /\ others = [state \in States |-> 0]
  /\ waiting = 0
  /\ gaveUp = FALSE /\ dismissed = FALSE
----------------------------------------------------------------------------
(***************************************************************************)
(* Connecting.                                                             *)
(***************************************************************************)
\* Mutant: no "if (closed) return" after the await.
WantedStill == TRUE

Wanted == ~closed

\* connectWithFreshToken: with a token at once, else when the refresh is over.
ConnectWithFreshToken ==
  IF token /\ ~expired
  THEN /\ IF Wanted THEN socket' = "connecting" /\ others' = Orphaned /\ dismissed' = FALSE
                    ELSE UNCHANGED <<sockets, dismissed>>
       /\ UNCHANGED <<waiting, refreshing>>
  ELSE /\ waiting' = waiting + 1
       /\ refreshing' = TRUE
       /\ UNCHANGED <<sockets, dismissed>>

TimerFires ==
  /\ reconnectTimer
  /\ reconnectTimer' = FALSE
  /\ ConnectWithFreshToken
  /\ UNCHANGED <<token, expired, proactive, refreshes, reconnectAttempt, switches, gaveUp>>

ScheduleReconnect ==
  IF reconnectAttempt >= MaxAttempts
  THEN gaveUp' = TRUE /\ UNCHANGED timing
  ELSE /\ reconnectTimer' = TRUE
       /\ reconnectAttempt' = reconnectAttempt + 1
       /\ UNCHANGED gaveUp

\* The terminal codes of the two clients.  The reasons "client close" and "token
\* refreshed" come with the codes 1000 and 4000 only.
Terminal(code) == code = "normal" \/ (kind = "document" /\ code = "application")

ShouldStopReconnect(code) == closed \/ suppressReconnect \/ Terminal(code)

\* Stopping is silent: no timer and no message to the user.
AfterClose(state, code) ==
  IF ShouldStopReconnect(code)
  THEN /\ dismissed' = (dismissed \/ (state \in Live /\ Terminal(code)))
       /\ UNCHANGED <<timing, gaveUp>>
  ELSE ScheduleReconnect /\ UNCHANGED dismissed
----------------------------------------------------------------------------
(***************************************************************************)
(* Events of the sockets: open, close and the terminal messages.           *)
(***************************************************************************)
SocketOpens ==
  /\ socket = "connecting"
  /\ socket' = "open"
  /\ reconnectAttempt' = 0
  /\ gaveUp' = FALSE
  /\ UNCHANGED <<auth, others, reconnectTimer, switches, waiting, dismissed>>

SocketCloses ==
  /\ socket \in Live
  /\ socket' = "none"
  /\ \E code \in CodesOf(socket) : AfterClose(socket, code)
  /\ UNCHANGED <<auth, others, switches, waiting>>

OtherOpens ==
  /\ others["connecting"] > 0
  /\ others' = Add(Drop(others, "connecting"), "open", 1)
  /\ reconnectAttempt' = 0
  /\ gaveUp' = FALSE
  /\ UNCHANGED <<auth, socket, reconnectTimer, switches, waiting, dismissed>>

OtherCloses ==
  \E state \in States :
    /\ others[state] > 0
    /\ others' = Drop(others, state)
    /\ \E code \in CodesOf(state) : AfterClose(state, code)
    /\ UNCHANGED <<auth, socket, switches, waiting>>

\* document_deleted, member_removed, ...: markTerminalEvent.
TerminalEvent ==
  /\ kind = "document" /\ ~closed
  /\ socket = "open" \/ others["open"] > 0
  /\ closed' = TRUE
  /\ reconnectTimer' = FALSE
  /\ UNCHANGED <<auth, sockets, reconnectAttempt, kind, subscribed, suppressReconnect, waiting,
                 gaveUp, dismissed>>

\* The page goes: close().
PageCloses ==
  /\ subscribed
  /\ closed' = TRUE /\ subscribed' = FALSE /\ suppressReconnect' = TRUE
  /\ reconnectTimer' = FALSE
  /\ socket' = "none" /\ others' = Closing
  /\ UNCHANGED <<auth, reconnectAttempt, kind, waiting, gaveUp, dismissed>>
----------------------------------------------------------------------------
(***************************************************************************)
(* The access token and its refresh.                                       *)
(***************************************************************************)
TokenExpires ==
  /\ token /\ ~expired
  /\ refreshes < MaxRefreshes
  /\ expired' = TRUE
  /\ UNCHANGED <<token, proactive, refreshing, refreshes, sockets, timing, switches, waiting, gaveUp,
                 dismissed>>

\* The timer of scheduleProactiveRefresh, or ACCESS_TOKEN_EXPIRED for a request;
\* refreshAccessToken joins a refresh under way.
StartRefresh ==
  /\ ~refreshing
  /\ refreshes < MaxRefreshes
  /\ \/ proactive /\ proactive' = FALSE
     \/ token /\ expired /\ UNCHANGED proactive
  /\ refreshing' = TRUE
  /\ UNCHANGED <<token, expired, refreshes, sockets, timing, switches, waiting, gaveUp,
                 dismissed>>

\* Mutant: suppressReconnect is not taken back.
SuppressStays == suppressReconnect' = TRUE

SuppressAfterRefresh == UNCHANGED suppressReconnect

\* notifyAccessTokenRefresh calls reconnectForTokenRefresh, which calls
\* connectWithFreshToken; that call and those that wait all get the new token.
RefreshSucceeds ==
  /\ refreshing
  /\ refreshing' = FALSE
  /\ refreshes' = refreshes + 1
  /\ token' = TRUE /\ expired' = FALSE /\ proactive' = TRUE
  /\ waiting' = 0
  /\ IF subscribed
     THEN reconnectTimer' = FALSE /\ reconnectAttempt' = 0 /\ SuppressAfterRefresh
     ELSE UNCHANGED <<timing, suppressReconnect>>
  /\ LET connects == IF ~Wanted THEN 0 ELSE IF subscribed THEN waiting + 1 ELSE waiting
         left == IF subscribed THEN Closing ELSE Orphaned
     IN IF connects = 0
        THEN /\ IF subscribed THEN socket' = "none" /\ others' = left ELSE UNCHANGED sockets
             /\ UNCHANGED dismissed
        ELSE /\ socket' = "connecting" /\ others' = Add(left, "connecting", connects - 1)
             /\ dismissed' = FALSE
  /\ UNCHANGED <<kind, closed, subscribed, gaveUp>>

\* onAuthFailed; a call that waits gets null and reports it.
RefreshFails ==
  /\ refreshing
  /\ refreshing' = FALSE
  /\ token' = FALSE /\ expired' = TRUE /\ proactive' = FALSE
  /\ waiting' = 0
  /\ gaveUp' = (gaveUp \/ (waiting > 0 /\ Wanted))
  /\ UNCHANGED <<refreshes, sockets, timing, switches, dismissed>>
----------------------------------------------------------------------------
Next ==
  \/ TimerFires \/ SocketOpens \/ SocketCloses \/ OtherOpens \/ OtherCloses
  \/ TerminalEvent \/ PageCloses
  \/ TokenExpires \/ StartRefresh \/ RefreshSucceeds \/ RefreshFails

Spec == Init /\ [][Next]_vars

\* Timers fire, an attempt to connect and a refresh end one way or the other, a
\* closed socket reports its end.
Fairness ==
  /\ WF_vars(TimerFires)
  /\ WF_vars(socket = "connecting" /\ (SocketOpens \/ SocketCloses))
  /\ WF_vars(RefreshSucceeds \/ RefreshFails)
  /\ WF_vars(OtherCloses)

FairSpec == Spec /\ Fairness
----------------------------------------------------------------------------
NumberLive(s, o) == (IF s \in Live THEN 1 ELSE 0) + o["connecting"] + o["open"]

(***************************************************************************)
(* After the page has closed its connection, or a terminal event came, no  *)
(* new WebSocket is opened, whatever timer, refresh or close event was     *)
(* still under way.                                                        *)
(***************************************************************************)
NoSocketAfterTheEnd ==
  [][closed => NumberLive(socket', others') <= NumberLive(socket, others)]_vars

(***************************************************************************)
(* A connection that is wanted has an open WebSocket again, or the page has*)
(* said that it gave up, however often it breaks and whenever the token is *)
(* renewed; the one exception is a socket in use that is closed by a       *)
(* terminal code, after which the client is silent until the next token.   *)
(* The open one need not be the one in "socket": a left-over one that opens*)
(* resets the attempts, and the two can replace each other for ever.       *)
(***************************************************************************)
ComesBackOrGivesUp ==
  ~closed ~> (socket = "open" \/ others["open"] > 0 \/ gaveUp \/ closed \/ dismissed)
=============================================================================
