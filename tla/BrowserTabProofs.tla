-------------------------- MODULE BrowserTabProofs --------------------------
(***************************************************************************)
(* What a page does to its connection, for any number of attempts, of      *)
(* refreshes and of sockets left over from before.                         *)
(***************************************************************************)
EXTENDS BrowserTab, TLAPS

Flags ==
  /\ token \in BOOLEAN /\ expired \in BOOLEAN /\ proactive \in BOOLEAN
  /\ refreshing \in BOOLEAN /\ reconnectTimer \in BOOLEAN /\ gaveUp \in BOOLEAN
  /\ dismissed \in BOOLEAN
  /\ closed \in BOOLEAN /\ subscribed \in BOOLEAN /\ suppressReconnect \in BOOLEAN

Amounts ==
  /\ refreshes \in Nat /\ reconnectAttempt \in Nat /\ waiting \in Nat
  /\ socket \in Live \cup {"none"}
  /\ others \in [States -> Nat]

TypeOK == kind \in {"document", "workspace"} /\ Flags /\ Amounts

\* A call waits for a refresh that is under way; only close() ends a
\* subscription and suppresses reconnects, and it marks the page as closed.
TabInv ==
  /\ TypeOK
  /\ waiting = 0 \/ refreshing
  /\ closed \/ (subscribed /\ ~suppressReconnect)

\* Adding to and taking from the sockets in one state.
LEMMA Counts ==
  ASSUME Amounts, NEW s \in States, NEW n \in Nat
  PROVE  /\ Add(others, s, n) \in [States -> Nat]
         /\ Add(others, s, n)[s] = others[s] + n
         /\ \A r \in States \ {s} : Add(others, s, n)[r] = others[r]
         /\ others[s] > 0 => /\ Drop(others, s) \in [States -> Nat]
                             /\ Drop(others, s)[s] = others[s] - 1
                             /\ \A r \in States \ {s} : Drop(others, s)[r] = others[r]
  BY DEF Add, Drop, Amounts

\* close() leaves no socket that lives, overwriting "socket" ends none.
LEMMA LeftOver ==
  ASSUME Amounts
  PROVE  /\ Closing \in [States -> Nat] /\ Orphaned \in [States -> Nat]
         /\ Closing["connecting"] + Closing["open"] <= NumberLive(socket, others)
         /\ Orphaned["connecting"] + Orphaned["open"] = NumberLive(socket, others)
         /\ NumberLive(socket, others) \in Nat
<1>1. /\ States = {"open", "connecting", "closing", "failing"}
      /\ Live = {"open", "connecting"}
  BY DEF States, Live
<1>2. others["open"] \in Nat /\ others["connecting"] \in Nat
  BY <1>1 DEF Amounts
<1>3. CASE socket = "open"
  <2>1. Closing = Add(others, "closing", 1) /\ Orphaned = Add(others, "open", 1)
    BY <1>1, <1>3 DEF Closing, Orphaned
  <2>2. NumberLive(socket, others) = 1 + others["connecting"] + others["open"]
    BY <1>1, <1>3 DEF NumberLive
  <2>3. /\ Closing \in [States -> Nat]
        /\ Closing["connecting"] = others["connecting"]
        /\ Closing["open"] = others["open"]
    BY <1>1, <2>1 DEF Add, Amounts
  <2>4. /\ Orphaned \in [States -> Nat]
        /\ Orphaned["open"] = others["open"] + 1
        /\ Orphaned["connecting"] = others["connecting"]
    BY <1>1, <2>1 DEF Add, Amounts
  <2>5. QED
    BY <1>2, <2>2, <2>3, <2>4
<1>4. CASE socket = "connecting"
  <2>1. Closing = Add(others, "failing", 1) /\ Orphaned = Add(others, "connecting", 1)
    BY <1>1, <1>4 DEF Closing, Orphaned
  <2>2. NumberLive(socket, others) = 1 + others["connecting"] + others["open"]
    BY <1>1, <1>4 DEF NumberLive
  <2>3. /\ Closing \in [States -> Nat]
        /\ Closing["connecting"] = others["connecting"]
        /\ Closing["open"] = others["open"]
    BY <1>1, <2>1 DEF Add, Amounts
  <2>4. /\ Orphaned \in [States -> Nat]
        /\ Orphaned["connecting"] = others["connecting"] + 1
        /\ Orphaned["open"] = others["open"]
    BY <1>1, <2>1 DEF Add, Amounts
  <2>5. QED
    BY <1>2, <2>2, <2>3, <2>4
<1>5. CASE socket = "none"
  <2>1. Closing = others /\ Orphaned = others
    BY <1>1, <1>5 DEF Closing, Orphaned
  <2>2. NumberLive(socket, others) = 0 + others["connecting"] + others["open"]
    BY <1>1, <1>5 DEF NumberLive
  <2>3. QED
    BY <1>2, <2>1, <2>2 DEF Amounts
<1>6. QED
  BY <1>1, <1>3, <1>4, <1>5 DEF Amounts

\* A close event keeps or sets the timer, or the page says that it gave up, or
\* a socket in use was closed by a terminal code.
LEMMA AfterCloses ==
  ASSUME TypeOK, NEW s \in States, NEW c \in Codes, AfterClose(s, c)
  PROVE  /\ reconnectTimer' \in BOOLEAN /\ gaveUp' \in BOOLEAN /\ dismissed' \in BOOLEAN
         /\ reconnectAttempt' \in Nat
         /\ reconnectTimer => reconnectTimer'
         /\ gaveUp => gaveUp'
         /\ dismissed => dismissed'
         /\ closed \/ suppressReconnect \/ s \notin Live
              \/ reconnectTimer' \/ gaveUp' \/ dismissed'
<1>1. CASE ShouldStopReconnect(c)
  <2>1. /\ dismissed' = (dismissed \/ (s \in Live /\ Terminal(c)))
        /\ reconnectTimer' = reconnectTimer /\ reconnectAttempt' = reconnectAttempt
        /\ gaveUp' = gaveUp
    BY <1>1 DEF AfterClose, timing
  <2>2. closed \/ suppressReconnect \/ s \notin Live \/ dismissed'
    BY <1>1, <2>1 DEF ShouldStopReconnect
  <2>3. QED
    BY <2>1, <2>2 DEF TypeOK, Flags, Amounts
<1>2. CASE ~ShouldStopReconnect(c) /\ reconnectAttempt >= MaxAttempts
  <2>1. /\ gaveUp' = TRUE /\ reconnectTimer' = reconnectTimer
        /\ reconnectAttempt' = reconnectAttempt /\ dismissed' = dismissed
    BY <1>2 DEF AfterClose, ScheduleReconnect, timing
  <2>2. QED
    BY <2>1 DEF TypeOK, Flags, Amounts
<1>3. CASE ~ShouldStopReconnect(c) /\ ~(reconnectAttempt >= MaxAttempts)
  <2>1. /\ reconnectTimer' = TRUE /\ gaveUp' = gaveUp /\ dismissed' = dismissed
        /\ reconnectAttempt' = reconnectAttempt + 1
    BY <1>3 DEF AfterClose, ScheduleReconnect
  <2>2. reconnectAttempt' \in Nat
    BY <2>1 DEF TypeOK, Amounts
  <2>3. QED
    BY <2>1, <2>2 DEF TypeOK, Flags
<1>4. QED
  BY <1>1, <1>2, <1>3

\* What the two close events do, with the code that came made explicit.
LEMMA SocketClosing ==
  ASSUME SocketCloses
  PROVE  /\ socket \in States \cap Live /\ socket' = "none"
         /\ \E c \in Codes : AfterClose(socket, c)
         /\ UNCHANGED <<auth, others, switches, waiting>>
  BY DEF SocketCloses, CodesOf, Codes, States

LEMMA OtherClosing ==
  ASSUME OtherCloses
  PROVE  \E s \in States, c \in Codes :
           /\ others[s] > 0 /\ others' = Drop(others, s) /\ AfterClose(s, c)
           /\ UNCHANGED <<auth, socket, switches, waiting>>
  BY DEF OtherCloses, CodesOf, Codes
----------------------------------------------------------------------------
LEMMA FlagsHold ==
  ASSUME TabInv, [Next]_vars
  PROVE  /\ kind' = kind /\ Flags'
         /\ waiting' = 0 \/ refreshing'
         /\ closed' \/ (subscribed' /\ ~suppressReconnect')
<1> USE DEF TabInv, TypeOK, Flags
<1>1. CASE TimerFires
  <2>1. /\ refreshing' \in BOOLEAN /\ (waiting' = 0 \/ refreshing')
        /\ dismissed' \in BOOLEAN
    BY <1>1 DEF TimerFires, ConnectWithFreshToken
  <2>2. QED
    BY <1>1, <2>1 DEF TimerFires, switches
<1>2. CASE SocketOpens
  BY <1>2 DEF SocketOpens, auth, switches
<1>3. CASE SocketCloses
  BY <1>3, SocketClosing, AfterCloses DEF auth, switches
<1>4. CASE OtherOpens
  BY <1>4 DEF OtherOpens, auth, switches
<1>5. CASE OtherCloses
  BY <1>5, OtherClosing, AfterCloses DEF auth, switches
<1>6. CASE TerminalEvent
  BY <1>6 DEF TerminalEvent, auth
<1>7. CASE PageCloses
  BY <1>7 DEF PageCloses, auth
<1>8. CASE TokenExpires
  BY <1>8 DEF TokenExpires, timing, switches
<1>9. CASE StartRefresh
  BY <1>9 DEF StartRefresh, timing, switches
<1>10. CASE RefreshSucceeds
  <2>1. /\ reconnectTimer' \in BOOLEAN /\ suppressReconnect' = suppressReconnect
        /\ dismissed' \in BOOLEAN
    BY <1>10 DEF RefreshSucceeds, SuppressAfterRefresh, timing
  <2>2. QED
    BY <1>10, <2>1 DEF RefreshSucceeds
<1>11. CASE RefreshFails
  BY <1>11 DEF RefreshFails, timing, switches
<1>12. CASE UNCHANGED vars
  BY <1>12 DEF vars, auth, timing, switches
<1>13. QED
  BY <1>1, <1>2, <1>3, <1>4, <1>5, <1>6, <1>7, <1>8, <1>9, <1>10, <1>11, <1>12 DEF Next

LEMMA AmountsHold ==
  ASSUME TabInv, [Next]_vars
  PROVE  Amounts'
<1> USE DEF TabInv, TypeOK, Amounts
<1>1. /\ States = {"open", "connecting", "closing", "failing"}
      /\ Live = {"open", "connecting"}
  BY DEF States, Live
<1>2. CASE TimerFires
  <2>1. \/ UNCHANGED sockets
        \/ socket' = "connecting" /\ others' = Orphaned
    BY <1>2 DEF TimerFires, ConnectWithFreshToken
  <2>2. waiting' = waiting \/ waiting' = waiting + 1
    BY <1>2 DEF TimerFires, ConnectWithFreshToken
  <2>3. QED
    BY <1>1, <1>2, <2>1, <2>2, LeftOver DEF TimerFires, sockets
<1>3. CASE SocketOpens
  BY <1>1, <1>3 DEF SocketOpens, auth
<1>4. CASE SocketCloses
  BY <1>1, <1>4, SocketClosing, AfterCloses DEF auth
<1>5. CASE OtherOpens
  <2>1. Add(Drop(others, "connecting"), "open", 1) \in [States -> Nat]
    BY <1>1, <1>5 DEF OtherOpens, Add, Drop
  <2>2. QED
    BY <1>5, <2>1 DEF OtherOpens, auth
<1>6. CASE OtherCloses
  <2>1. PICK s \in States, c \in Codes :
             /\ others[s] > 0 /\ others' = Drop(others, s) /\ AfterClose(s, c)
             /\ UNCHANGED <<auth, socket, switches, waiting>>
    BY <1>6, OtherClosing
  <2>2. others' \in [States -> Nat]
    BY <2>1, Counts
  <2>3. QED
    BY <2>1, <2>2, AfterCloses DEF auth
<1>7. CASE TerminalEvent
  BY <1>7 DEF TerminalEvent, auth, sockets
<1>8. CASE PageCloses
  BY <1>8, LeftOver DEF PageCloses, auth
<1>9. CASE TokenExpires
  BY <1>9 DEF TokenExpires, sockets, timing
<1>10. CASE StartRefresh
  BY <1>10 DEF StartRefresh, sockets, timing
<1>11. CASE RefreshSucceeds
  <2>1. /\ refreshes' = refreshes + 1 /\ waiting' = 0
        /\ reconnectAttempt' \in {0, reconnectAttempt}
    BY <1>11 DEF RefreshSucceeds, timing
  <2>2. others' \in [States -> Nat] /\ socket' \in Live \cup {"none"}
    BY <1>1, <1>11, LeftOver DEF RefreshSucceeds, Wanted, sockets, Add
  <2>3. QED
    BY <2>1, <2>2
<1>12. CASE RefreshFails
  BY <1>12 DEF RefreshFails, sockets, timing
<1>13. CASE UNCHANGED vars
  BY <1>13 DEF vars, auth, sockets, timing
<1>14. QED
  BY <1>2, <1>3, <1>4, <1>5, <1>6, <1>7, <1>8, <1>9, <1>10, <1>11, <1>12, <1>13 DEF Next

\* The page begins with one socket that connects.
LEMMA TabBegins == Init => TabInv /\ NumberLive(socket, others) = 1
<1>1. States = {"open", "connecting", "closing", "failing"} /\ Live = {"open", "connecting"}
  BY DEF States, Live
<1>2. SUFFICES ASSUME Init PROVE TabInv /\ NumberLive(socket, others) = 1
  OBVIOUS
<1>3. others = [s \in States |-> 0] /\ socket = "connecting"
  BY <1>2 DEF Init
<1>4. others \in [States -> Nat] /\ others["connecting"] = 0 /\ others["open"] = 0
  BY <1>1, <1>3
<1>5. NumberLive(socket, others) = 1
  BY <1>1, <1>3, <1>4 DEF NumberLive
<1>6. kind \in {"document", "workspace"} /\ Flags
  BY <1>2 DEF Init, Flags
<1>7. Amounts
  BY <1>1, <1>2, <1>3, <1>4 DEF Init, Amounts
<1>8. QED
  BY <1>2, <1>5, <1>6, <1>7 DEF Init, TabInv, TypeOK

LEMMA TabInvariant == Spec => []TabInv
<1>1. Init => TabInv
  BY TabBegins
<1>2. TabInv /\ [Next]_vars => TabInv'
  BY FlagsHold, AmountsHold DEF TabInv, TypeOK
<1>3. QED
  BY <1>1, <1>2, PTL DEF Spec
----------------------------------------------------------------------------
\* How an event of one of the other sockets changes how many live.
LEMMA OthersLive ==
  ASSUME Amounts
  PROVE  /\ others["connecting"] > 0 =>
              NumberLive(socket, Add(Drop(others, "connecting"), "open", 1))
                = NumberLive(socket, others)
         /\ \A s \in States : others[s] > 0 =>
              NumberLive(socket, Drop(others, s)) <= NumberLive(socket, others)
<1> DEFINE held == IF socket \in Live THEN 1 ELSE 0
<1>1. States = {"open", "connecting", "closing", "failing"}
  BY DEF States, Live
<1>2. others["open"] \in Nat /\ others["connecting"] \in Nat /\ held \in Nat
  BY <1>1 DEF Amounts
<1>3. \A o : NumberLive(socket, o) = held + o["connecting"] + o["open"]
  BY DEF NumberLive
<1> HIDE DEF held
<1>4. ASSUME others["connecting"] > 0
      PROVE  NumberLive(socket, Add(Drop(others, "connecting"), "open", 1))
               = NumberLive(socket, others)
  <2> DEFINE next == Add(Drop(others, "connecting"), "open", 1)
  <2>1. next["connecting"] = others["connecting"] - 1 /\ next["open"] = others["open"] + 1
    BY <1>1, <1>2 DEF Add, Drop, Amounts
  <2> HIDE DEF next
  <2>2. NumberLive(socket, next) = NumberLive(socket, others)
    BY <1>2, <1>3, <2>1
  <2>3. QED
    BY <2>2 DEF next
<1>5. ASSUME NEW s \in States, others[s] > 0
      PROVE  NumberLive(socket, Drop(others, s)) <= NumberLive(socket, others)
  <2>1. /\ Drop(others, s)["connecting"] \in {others["connecting"], others["connecting"] - 1}
        /\ Drop(others, s)["open"] \in {others["open"], others["open"] - 1}
    BY <1>1, <1>5 DEF Drop, Amounts
  <2>2. QED
    BY <1>2, <1>3, <2>1
<1>6. QED
  BY <1>4, <1>5

(***************************************************************************)
(* When the page is closed, what is under way opens nothing: timers do not *)
(* connect, a refresh leaves the sockets alone or closes one, and whatever *)
(* socket is left can only open, which does not count twice, or end.       *)
(***************************************************************************)
THEOREM NothingOpensAfterTheEnd == Spec => NoSocketAfterTheEnd
<1> DEFINE Ends == closed => NumberLive(socket', others') <= NumberLive(socket, others)
<1>1. TabInv /\ Next => Ends
  <2> SUFFICES ASSUME TabInv, Next, closed
               PROVE  NumberLive(socket', others') <= NumberLive(socket, others)
    OBVIOUS
  <2>1. Amounts /\ closed = TRUE
    BY DEF TabInv, TypeOK, Flags
  <2>2. NumberLive(socket, others) \in Nat
    BY <2>1, LeftOver
  <2>3. CASE UNCHANGED sockets
    BY <2>2, <2>3 DEF sockets
  <2>4. CASE TimerFires
    BY <2>1, <2>3, <2>4 DEF TimerFires, ConnectWithFreshToken, Wanted
  <2>5. CASE SocketOpens
    <3>1. socket = "connecting" /\ socket' = "open" /\ others' = others
      BY <2>5 DEF SocketOpens
    <3>2. NumberLive(socket', others') = NumberLive(socket, others)
      BY <3>1 DEF NumberLive, Live
    <3>3. QED
      BY <2>2, <3>2
  <2>6. CASE SocketCloses
    <3>1. socket \in Live /\ socket' = "none" /\ others' = others
      BY <2>6 DEF SocketCloses
    <3>2. others["connecting"] \in Nat /\ others["open"] \in Nat
      BY <2>1 DEF Amounts, States, Live
    <3>3. QED
      BY <3>1, <3>2 DEF NumberLive, Live
  <2>7. CASE OtherOpens
    BY <2>1, <2>2, <2>7, OthersLive DEF OtherOpens
  <2>8. CASE OtherCloses
    BY <2>1, <2>8, OthersLive DEF OtherCloses
  <2>9. CASE socket' = "none" /\ others' = Closing
    <3>1. Closing["connecting"] \in Nat /\ Closing["open"] \in Nat
      BY <2>1, LeftOver DEF States, Live
    <3>2. NumberLive(socket', others') = 0 + Closing["connecting"] + Closing["open"]
      BY <2>9 DEF NumberLive, Live
    <3>3. QED
      BY <2>1, <3>1, <3>2, LeftOver
  <2>10. CASE PageCloses
    BY <2>9, <2>10 DEF PageCloses
  <2>11. CASE RefreshSucceeds
    <3>1. \/ UNCHANGED sockets
          \/ socket' = "none" /\ others' = Closing
      BY <2>1, <2>11 DEF RefreshSucceeds, Wanted
    <3>2. QED
      BY <2>3, <2>9, <3>1
  <2>12. CASE TerminalEvent \/ TokenExpires \/ StartRefresh \/ RefreshFails
    BY <2>3, <2>12 DEF TerminalEvent, TokenExpires, StartRefresh, RefreshFails
  <2>13. QED
    BY <2>4, <2>5, <2>6, <2>7, <2>8, <2>10, <2>11, <2>12 DEF Next
<1>2. TabInv /\ [Next]_vars => [Ends]_vars
  BY <1>1
<1>3. QED
  BY <1>2, TabInvariant, PTL DEF Spec, NoSocketAfterTheEnd
----------------------------------------------------------------------------
(***************************************************************************)
(* What keeps a wanted connection going: a socket that lives, the timer of *)
(* the next attempt, or a call that waits for a refresh under way; or the  *)
(* page has said that it gave up, or a socket in use was closed by a       *)
(* terminal code and none was opened since.                                *)
(***************************************************************************)
Lives == socket \in Live \/ others["connecting"] > 0 \/ others["open"] > 0

NotStranded ==
  closed \/ Lives \/ reconnectTimer \/ (waiting > 0 /\ refreshing) \/ gaveUp \/ dismissed

LEMMA NotStrandedHolds == TabInv /\ NotStranded /\ [Next]_vars => NotStranded'
<1> SUFFICES ASSUME TabInv, NotStranded, [Next]_vars, ~closed' PROVE NotStranded'
  BY DEF NotStranded
<1>1. States = {"open", "connecting", "closing", "failing"} /\ Live = {"open", "connecting"}
  BY DEF States, Live
<1>2. ~closed
  BY DEF Next, vars, auth, switches, TimerFires, SocketOpens, SocketCloses, OtherOpens,
         OtherCloses, TerminalEvent, PageCloses, TokenExpires, StartRefresh,
         RefreshSucceeds, RefreshFails
<1>3. subscribed /\ ~suppressReconnect /\ Amounts /\ TypeOK
  BY <1>2 DEF TabInv, TypeOK
<1>4. CASE TimerFires
  <2>1. CASE token /\ ~expired
    <3>1. socket' = "connecting"
      BY <1>2, <1>4, <2>1 DEF TimerFires, ConnectWithFreshToken, Wanted
    <3>2. QED
      BY <1>1, <3>1 DEF NotStranded, Lives
  <2>2. CASE ~(token /\ ~expired)
    <3>1. waiting' = waiting + 1 /\ refreshing' = TRUE
      BY <1>4, <2>2 DEF TimerFires, ConnectWithFreshToken
    <3>2. waiting' > 0
      BY <1>3, <3>1 DEF Amounts
    <3>3. QED
      BY <3>1, <3>2 DEF NotStranded
  <2>3. QED
    BY <2>1, <2>2
<1>5. CASE SocketOpens
  BY <1>1, <1>5 DEF SocketOpens, NotStranded, Lives
<1>6. CASE SocketCloses
  BY <1>2, <1>3, <1>6, SocketClosing, AfterCloses DEF NotStranded
<1>7. CASE OtherOpens
  <2>1. others'["open"] = others["open"] + 1
    BY <1>1, <1>3, <1>7 DEF OtherOpens, Add, Drop, Amounts
  <2>2. others'["open"] > 0
    BY <1>1, <1>3, <2>1 DEF Amounts
  <2>3. QED
    BY <2>2 DEF NotStranded, Lives
<1>8. CASE OtherCloses
  <2>1. PICK s \in States, c \in Codes :
             /\ others[s] > 0 /\ others' = Drop(others, s) /\ AfterClose(s, c)
             /\ UNCHANGED <<auth, socket, switches, waiting>>
    BY <1>8, OtherClosing
  <2>2. /\ reconnectTimer => reconnectTimer'
        /\ gaveUp => gaveUp'
        /\ dismissed => dismissed'
        /\ s \in Live => reconnectTimer' \/ gaveUp' \/ dismissed'
    BY <1>2, <1>3, <2>1, AfterCloses
  <2>3. CASE s \in Live
    BY <2>2, <2>3 DEF NotStranded
  <2>4. CASE s \notin Live
    <3>1. others'["connecting"] = others["connecting"] /\ others'["open"] = others["open"]
      BY <1>1, <1>3, <2>1, <2>4 DEF Drop, Amounts
    <3>2. QED
      BY <1>2, <2>1, <2>2, <3>1 DEF NotStranded, Lives, auth
  <2>5. QED
    BY <2>3, <2>4
<1>9. CASE TerminalEvent \/ PageCloses
  BY <1>9 DEF TerminalEvent, PageCloses
<1>10. CASE TokenExpires
  BY <1>2, <1>10 DEF TokenExpires, NotStranded, Lives, sockets, timing
<1>11. CASE StartRefresh
  BY <1>2, <1>11 DEF StartRefresh, NotStranded, Lives, sockets, timing
<1>12. CASE RefreshSucceeds
  <2>1. waiting + 1 # 0
    BY <1>3 DEF Amounts
  <2>2. socket' = "connecting"
    BY <1>2, <1>3, <1>12, <2>1 DEF RefreshSucceeds, Wanted
  <2>3. QED
    BY <1>1, <2>2 DEF NotStranded, Lives
<1>13. CASE RefreshFails
  <2>1. waiting > 0 => gaveUp'
    BY <1>2, <1>13 DEF RefreshFails, Wanted
  <2>2. gaveUp => gaveUp'
    BY <1>13 DEF RefreshFails
  <2>3. QED
    BY <1>2, <1>13, <2>1, <2>2 DEF RefreshFails, NotStranded, Lives, sockets, timing
<1>14. CASE UNCHANGED vars
  BY <1>2, <1>14 DEF vars, auth, sockets, timing, NotStranded, Lives
<1>15. QED
  BY <1>4, <1>5, <1>6, <1>7, <1>8, <1>9, <1>10, <1>11, <1>12, <1>13, <1>14 DEF Next

(***************************************************************************)
(* A wanted connection is never stranded: whatever closes, fails, expires  *)
(* or is renewed in whatever order, ScheduleReconnect or the refresh will  *)
(* try again, or the page has said that the connection is lost.  The only  *)
(* way to end with nothing under way and nothing said is a terminal close  *)
(* code on a socket in use, which both clients take in silence.  This is   *)
(* why ComesBackOrGivesUp needs no more than that timers fire and attempts *)
(* and refreshes end.                                                      *)
(***************************************************************************)
THEOREM ConnectionIsNeverStranded == Spec => []NotStranded
<1>1. Init => NotStranded
  BY DEF Init, NotStranded, Lives, Live
<1>2. QED
  BY <1>1, NotStrandedHolds, TabInvariant, PTL DEF Spec
=============================================================================
