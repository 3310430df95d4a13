--------------------------- MODULE WebsocketProofs ---------------------------
(***************************************************************************)
(* The safety of the reconnecting WebSocket, for every number of retries,  *)
(* missed heartbeats, messages and calls.                                  *)
(***************************************************************************)
EXTENDS Websocket, TLAPS

\* While the url is resolved, or a retry is scheduled, no heartbeat runs.
Quiet == pending \/ retry => interval = "off" /\ pong = "off"

\* A connection with too many misses is not open, and no further pong is
\* awaited on it.
MissesCounted == sock = "open" \/ pong # "off" => missed <= MaxMissed

\* Nothing waits in the buffer of an open connection.
Flushed == sock = "open" => buffer = <<>>

Connection ==
    /\ HeartbeatIsOwn /\ OpenIsOwned /\ OneAttempt /\ NeverStranded
    /\ Quiet /\ MissesCounted /\ Flushed

IInv == TypeOK /\ Connection /\ SentInOrder

-----------------------------------------------------------------------------
LEMMA InitIInv == Init => IInv
  <1> SUFFICES ASSUME Init PROVE IInv
    OBVIOUS
  <1>1. TypeOK
    <2>1. <<>> \in Seq(Nat)
      OBVIOUS
    <2>2. /\ retries \in 0..(MaxRetries + 1) /\ missed \in 0..(MaxMissed + 1)
          /\ sends \in 0..MaxSend /\ calls \in 0..MaxCalls
      BY LimitsAssumption DEF Init
    <2> QED BY <2>1, <2>2, Zenon DEF Init, TypeOK
  <1>2. Connection
    BY LimitsAssumption DEF Init, Connection, HeartbeatIsOwn, OpenIsOwned,
       OneAttempt, NeverStranded, Quiet, MissesCounted, Flushed
  <1>3. SentInOrder
    BY DEF Init, SentInOrder
  <1> QED BY <1>1, <1>2, <1>3 DEF IInv

\* Buffer and wire keep the order of the calls: the buffer goes out whole and
\* before any later message.
LEMMA OpensInOrder == IInv /\ Opens => SentInOrder'
  <1> SUFFICES ASSUME IInv, Opens PROVE SentInOrder'
    OBVIOUS
  <1>1. /\ buffer \in Seq(Nat) /\ wire \in Seq(Nat) /\ wire \o buffer \in Seq(Nat)
        /\ Len(wire \o buffer) = Len(wire) + Len(buffer)
        /\ \A i \in 1..(Len(wire) + Len(buffer)) :
              (wire \o buffer)[i] = IF i <= Len(wire) THEN wire[i] ELSE buffer[i - Len(wire)]
    BY DEF IInv, TypeOK
  <1>2. wire' = wire \o buffer /\ buffer' = <<>> /\ sends' = sends
    BY DEF Opens
  <1>3. \A i \in 1..Len(wire') : wire'[i] = i
    <2> TAKE i \in 1..Len(wire')
    <2>1. CASE i <= Len(wire)
      BY <1>1, <1>2, <2>1 DEF IInv, SentInOrder
    <2>2. CASE i > Len(wire)
      <3>1. i - Len(wire) \in 1..Len(buffer)
        BY <1>1, <1>2, <2>2
      <3>2. buffer[i - Len(wire)] = Len(wire) + (i - Len(wire))
        BY <3>1 DEF IInv, SentInOrder
      <3> QED BY <1>1, <1>2, <2>2, <3>1, <3>2
    <2> QED BY <2>1, <2>2, <1>1, <1>2
  <1> QED BY <1>1, <1>2, <1>3 DEF IInv, SentInOrder

LEMMA SendInOrder == IInv /\ Send => SentInOrder'
  <1> SUFFICES ASSUME IInv, Send PROVE SentInOrder'
    OBVIOUS
  <1>1. buffer \in Seq(Nat) /\ wire \in Seq(Nat) /\ sends \in Nat /\ sends' = sends + 1
    BY LimitsAssumption DEF IInv, TypeOK, Send
  <1>2. CASE sock = "open"
    \* Nothing is buffered behind an open connection.
    <2>1. buffer = <<>> /\ buffer' = <<>> /\ wire' = Append(wire, sends + 1) /\ Len(wire) = sends
      BY <1>1, <1>2 DEF IInv, Connection, Flushed, SentInOrder, Send
    <2>2. Len(wire') = sends + 1 /\ \A i \in 1..Len(wire') : wire'[i] = i
      BY <1>1, <2>1 DEF IInv, SentInOrder
    <2> QED BY <1>1, <2>1, <2>2 DEF SentInOrder
  <1>3. CASE sock # "open"
    <2>1. buffer' = Append(buffer, sends + 1) /\ wire' = wire
      BY <1>1, <1>3 DEF Send
    <2>2. Len(wire) + Len(buffer) = sends /\ Len(wire) \in Nat /\ Len(buffer) \in Nat
      BY <1>1 DEF IInv, SentInOrder
    <2>3. Len(buffer') = Len(buffer) + 1 /\ buffer'[Len(buffer) + 1] = sends + 1
      BY <1>1, <2>1
    <2>4. \A i \in 1..Len(buffer) : buffer'[i] = Len(wire) + i
      BY <1>1, <2>1 DEF IInv, SentInOrder
    <2>5. \A i \in 1..Len(buffer') : buffer'[i] = Len(wire) + i
      BY <2>2, <2>3, <2>4
    <2>6. \A i \in 1..Len(wire) : wire[i] = i
      BY DEF IInv, SentInOrder
    <2>7. Len(wire') + Len(buffer') = sends'
      <3>1. Len(wire') = Len(wire) /\ Len(buffer') = Len(buffer) + 1 /\ sends' = sends + 1
        BY <1>1, <2>1, <2>3
      <3> QED BY <2>2, <3>1
    <2> QED BY <2>1, <2>5, <2>6, <2>7, Zenon DEF SentInOrder
  <1> QED BY <1>2, <1>3

-----------------------------------------------------------------------------
\* A native socket that was closed is neither connecting nor open.
LEMMA NativeCloseType ==
  \A s \in {"none", "connecting", "open", "closing", "closed"} :
     /\ NativeClose(s) \in {"none", "closing", "closed"}
     /\ s \notin {"connecting", "open"} => NativeClose(s) = s
  BY DEF NativeClose

\* The count of retries stays within its limit and one.
LEMMA ScheduleRetryType ==
  ASSUME retries \in 0..(MaxRetries + 1), retry \in BOOLEAN, ScheduleRetry
  PROVE  /\ retries' \in 0..(MaxRetries + 1) /\ retry' \in BOOLEAN
         /\ closedByUser \/ retry' \/ retries' > MaxRetries
  <1>1. CASE closedByUser
    BY <1>1 DEF ScheduleRetry
  <1>2. CASE ~closedByUser
    <2>1. retries' \in 0..(MaxRetries + 1)
      BY <1>2, LimitsAssumption DEF ScheduleRetry
    <2>2. retry' = (retries' <= MaxRetries)
      BY <1>2 DEF ScheduleRetry
    <2>3. retry' \in BOOLEAN
      BY <2>2
    <2>4. CASE retries' <= MaxRetries
      BY <2>1, <2>2, <2>3, <2>4
    <2>5. CASE ~(retries' <= MaxRetries)
      <3>1. retries' > MaxRetries
        BY <2>1, <2>5, LimitsAssumption
      <3> QED BY <2>1, <2>3, <3>1
    <2> QED BY <2>4, <2>5
  <1> QED BY <1>1, <1>2

\* Every step keeps the types.
LEMMA StepType == IInv /\ [Next]_vars => TypeOK'
  <1> SUFFICES ASSUME IInv, TypeOK, [Next]_vars PROVE TypeOK'
    BY DEF IInv
  <1> USE LimitsAssumption DEF TypeOK, link, attempt, heartbeat, messages
  <1>1. CASE UrlResolved
    <2>1. /\ strays' \subseteq {"connecting", "open", "closing"}
          /\ sock' \in {"none", "connecting", "open", "closing", "closed"}
      BY <1>1 DEF UrlResolved
    <2>2. /\ interval' \in {"off", "current", "old"} /\ pong' \in {"off", "current", "old"}
          /\ attached' \in BOOLEAN /\ pending' \in BOOLEAN
      BY <1>1 DEF Aged, UrlResolved
    <2> QED BY <1>1, <2>1, <2>2 DEF UrlResolved
  <1>2. CASE Opens
    <2>1. wire' \in Seq(Nat) /\ buffer' \in Seq(Nat)
      BY <1>2 DEF Opens
    <2>2. retries' \in 0..(MaxRetries + 1) /\ missed' \in 0..(MaxMissed + 1)
      BY <1>2 DEF Opens, StartHeartbeat
    <2> QED BY <1>2, <2>1, <2>2 DEF StartHeartbeat, Opens
  <1>3. CASE Fails
    BY <1>3 DEF Fails
  <1>4. CASE Closes
    <2>1. retries' \in 0..(MaxRetries + 1) /\ retry' \in BOOLEAN
      BY <1>4, ScheduleRetryType DEF HandleClose, Closes
    <2>2. missed' \in 0..(MaxMissed + 1)
      BY <1>4 DEF HandleClose, StopHeartbeat, Closes
    <2> QED BY <1>4, <2>1, <2>2 DEF HandleClose, StopHeartbeat, Closes
  <1>5. CASE DetachedMoves
    BY <1>5 DEF Unheard, DetachedMoves
  <1>6. CASE RetryFires
    BY <1>6, NativeCloseType DEF ClearWebsocket, RetryFires
  <1>7. CASE Send
    <2>1. /\ Append(wire, sends + 1) \in Seq(Nat) /\ Append(buffer, sends + 1) \in Seq(Nat)
          /\ sends + 1 \in 0..MaxSend
      BY <1>7 DEF Send
    <2>2. wire' \in Seq(Nat) /\ buffer' \in Seq(Nat) /\ sends' \in 0..MaxSend
      BY <1>7, <2>1 DEF Send
    <2> QED BY <1>7, <2>2 DEF Send
  <1>8. CASE Close
    <2>1. sock' \in {"none", "connecting", "open", "closing", "closed"}
      BY <1>8, NativeCloseType DEF Close
    <2>2. missed' \in 0..(MaxMissed + 1)
      BY <1>8 DEF Close, StopHeartbeat
    <2> QED BY <1>8, <2>1, <2>2 DEF StopHeartbeat, Close
  <1>9. CASE Reconnect
    <2>1. sock' \in {"none", "connecting", "open", "closing", "closed"}
      BY <1>9, NativeCloseType DEF Reconnect, DoReconnect, ClearWebsocket
    <2>2. missed' \in 0..(MaxMissed + 1) /\ calls' \in 0..MaxCalls
      BY <1>9 DEF Reconnect, DoReconnect, StopHeartbeat
    <2>3. CASE pending
      BY <1>9, <2>1, <2>2, <2>3 DEF DoReconnect, Reconnect
    <2>4. CASE ~pending
      BY <1>9, <2>1, <2>2, <2>4 DEF DoReconnect, ClearWebsocket, StopHeartbeat, Reconnect
    <2> QED BY <2>3, <2>4
  <1>10. CASE ReconnectIfDisconnected
    <2>1. sock' \in {"none", "connecting", "open", "closing", "closed"}
      BY <1>10, NativeCloseType DEF ReconnectIfDisconnected, DoReconnect, ClearWebsocket
    <2>2. missed' \in 0..(MaxMissed + 1) /\ calls' \in 0..MaxCalls
      BY <1>10 DEF ReconnectIfDisconnected, DoReconnect, StopHeartbeat
    <2>3. CASE pending
      BY <1>10, <2>1, <2>2, <2>3 DEF DoReconnect, ReconnectIfDisconnected
    <2>4. CASE ~pending
      BY <1>10, <2>1, <2>2, <2>4 DEF DoReconnect, ClearWebsocket, StopHeartbeat, ReconnectIfDisconnected
    <2> QED BY <2>3, <2>4
  <1>11. CASE FirstSync
    BY <1>11 DEF StartHeartbeat, FirstSync
  <1>12. CASE Tick
    <2>1. CASE sock = "open"
      BY <1>12, <2>1 DEF Tick
    <2>2. CASE sock # "open"
      <3>1. retries' \in 0..(MaxRetries + 1) /\ retry' \in BOOLEAN
        BY <1>12, <2>2, ScheduleRetryType DEF HandleClose, Tick
      <3>2. missed' \in 0..(MaxMissed + 1)
        BY <1>12, <2>2 DEF HandleClose, StopHeartbeat, Tick
      <3> QED BY <1>12, <2>2, <3>1, <3>2 DEF HandleClose, StopHeartbeat, Tick
    <2> QED BY <2>1, <2>2
  <1>13. CASE PongArrives
    BY <1>13 DEF PongArrives
  <1>14. CASE PongTimesOut
    BY <1>14, NativeCloseType DEF IInv, Connection, MissesCounted, PongTimesOut
  <1>15. CASE PathChanges
    BY <1>15 DEF PathChanges
  <1>16. ASSUME NEW s \in strays, StrayMoves(s) PROVE TypeOK'
    BY <1>16 DEF StrayMoves, Unheard
  <1>17. CASE UNCHANGED vars
    BY <1>17 DEF vars
  <1> QED
    BY <1>1, <1>2, <1>3, <1>4, <1>5, <1>6, <1>7, <1>8, <1>9, <1>10, <1>11, <1>12, <1>13, <1>14, <1>15, <1>16, <1>17
    DEF Next, NativeOutcome

\* Every step keeps the shape of the connection.
LEMMA StepConnection == IInv /\ [Next]_vars => Connection'
  <1> SUFFICES ASSUME IInv, [Next]_vars PROVE Connection'
    OBVIOUS
  <1> USE LimitsAssumption DEF IInv, TypeOK, Connection, HeartbeatIsOwn, OpenIsOwned,
      OneAttempt, NeverStranded, Quiet, MissesCounted, Flushed, link, attempt, heartbeat, messages
  <1>1. CASE UrlResolved
    BY <1>1 DEF Aged, UrlResolved
  <1>2. CASE Opens
    BY <1>2 DEF StartHeartbeat, Opens
  <1>3. CASE Fails
    BY <1>3 DEF Fails
  <1>4. CASE Closes
    <2>1. CASE closedByUser
      BY <1>4, <2>1 DEF HandleClose, StopHeartbeat, ScheduleRetry, Closes
    <2>2. CASE ~closedByUser
      <3>1. retry' \/ retries' > MaxRetries
        BY <1>4, <2>2, ScheduleRetryType DEF HandleClose, Closes
      <3> QED BY <1>4, <3>1 DEF HandleClose, StopHeartbeat, Closes
    <2> QED BY <2>1, <2>2
  <1>5. CASE DetachedMoves
    BY <1>5 DEF Unheard, DetachedMoves
  <1>6. CASE RetryFires
    BY <1>6, NativeCloseType DEF ClearWebsocket, RetryFires
  <1>7. CASE Send
    BY <1>7 DEF Send
  <1>8. CASE Close
    BY <1>8, NativeCloseType DEF StopHeartbeat, Close
  <1>9. CASE Reconnect
    BY <1>9, NativeCloseType DEF DoReconnect, ClearWebsocket, StopHeartbeat, Reconnect
  <1>10. CASE ReconnectIfDisconnected
    BY <1>10, NativeCloseType DEF DoReconnect, ClearWebsocket, StopHeartbeat, ReconnectIfDisconnected
  <1>11. CASE FirstSync
    BY <1>11 DEF StartHeartbeat, FirstSync
  <1>12. CASE Tick
    BY <1>12 DEF HandleClose, StopHeartbeat, ScheduleRetry, Tick
  <1>13. CASE PongArrives
    BY <1>13 DEF PongArrives
  <1>14. CASE PongTimesOut
    <2>1. sock' = "open" => sock = "open" /\ missed' <= MaxMissed
      BY <1>14, NativeCloseType DEF PongTimesOut
    <2>2. sock' # sock => sock \in {"connecting", "open"} /\ sock' = "closing"
      BY <1>14 DEF PongTimesOut, NativeClose
    <2> QED BY <1>14, <2>1, <2>2 DEF PongTimesOut
  <1>15. CASE PathChanges
    BY <1>15 DEF PathChanges
  <1>16. ASSUME NEW s \in strays, StrayMoves(s) PROVE Connection'
    BY <1>16 DEF StrayMoves, Unheard
  <1>17. CASE UNCHANGED vars
    BY <1>17 DEF vars
  <1> QED
    BY <1>1, <1>2, <1>3, <1>4, <1>5, <1>6, <1>7, <1>8, <1>9, <1>10, <1>11, <1>12, <1>13, <1>14, <1>15, <1>16, <1>17
    DEF Next, NativeOutcome

\* Every step keeps the order of the messages.
LEMMA StepInOrder == IInv /\ [Next]_vars => SentInOrder'
  <1> SUFFICES ASSUME IInv, [Next]_vars PROVE SentInOrder'
    OBVIOUS
  <1>1. CASE Opens
    BY <1>1, OpensInOrder
  <1>2. CASE Send
    BY <1>2, SendInOrder
  <1>3. CASE UNCHANGED messages
    BY <1>3 DEF IInv, SentInOrder, messages
  <1> QED
    BY <1>1, <1>2, <1>3 DEF Next, NativeOutcome, UrlResolved, Fails, Closes, DetachedMoves,
       StrayMoves, RetryFires, Close, Reconnect, ReconnectIfDisconnected, DoReconnect, FirstSync,
       Tick, PongArrives, PongTimesOut, PathChanges, vars, messages

LEMMA Invariant == Spec => []IInv
  <1>1. IInv /\ [Next]_vars => IInv'
    BY StepType, StepConnection, StepInOrder DEF IInv
  <1> QED BY <1>1, InitIInv, PTL DEF Spec

-----------------------------------------------------------------------------
\* The object's state is well typed; in particular a connection is closed
\* before more heartbeats are missed than the limit and one.
THEOREM TypeCorrect == Spec => []TypeOK
  BY Invariant, PTL DEF IInv

\* No timer of one connection ever acts on the next (stopHeartbeat on close,
\* retry and reconnect).
THEOREM HeartbeatsAreOwn == Spec => []HeartbeatIsOwn
  BY Invariant, PTL DEF IInv, Connection

\* No open native connection is without its owner or against its owner's will.
THEOREM OpenConnectionsAreOwned == Spec => []OpenIsOwned
  BY Invariant, PTL DEF IInv, Connection

\* At any time there is at most one attempt to connect (tryConnect).
THEOREM OneAttemptAtATime == Spec => []OneAttempt
  BY Invariant, PTL DEF IInv, Connection

\* The object is never left without a connection, an attempt or a scheduled
\* retry before its retries are spent (scheduleConnectionRetryIfNeeded).
THEOREM NobodyIsStranded == Spec => []NeverStranded
  BY Invariant, PTL DEF IInv, Connection

\* Messages are handed to the socket once and in the order of the calls
\* (send, sendBufferedData).
THEOREM MessagesInOrder == Spec => []SentInOrder
  BY Invariant, PTL DEF IInv
=============================================================================
