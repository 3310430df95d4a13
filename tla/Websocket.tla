------------------------------ MODULE Websocket ------------------------------
(***************************************************************************)
(* The reconnecting WebSocket of the collaboration client                  *)
(* (packages/collaboration/src/websocket/core/websocket.ts), configured as *)
(* sync-service/socket.ts does: capped backoff, a send buffer, heartbeats. *)
(*                                                                         *)
(* Each action is one task of the event loop: the browser opens or closes  *)
(* a native socket, a timer fires, the url resolver answers, or the user   *)
(* calls a method.  The object keeps one native socket (`sock'); the ones  *)
(* it replaced live on in the browser as `strays'.  A heartbeat timer is   *)
(* global to the object, so the model notes which connection it was        *)
(* started for.  The url resolver never rejects (service-sync/source/      *)
(* helpers.ts falls back to the last url).                                 *)
(***************************************************************************)
EXTENDS Naturals, Sequences

CONSTANTS
    MaxRetries,     \* retry.maxRetries
    MaxMissed,      \* heartbeat.maxMissedHeartbeats
    MaxSend,        \* bound on the messages the user sends
    MaxCalls        \* bound on the explicit calls of reconnect()

ASSUME LimitsAssumption ==
    MaxRetries \in Nat /\ MaxMissed \in Nat /\ MaxSend \in Nat /\ MaxCalls \in Nat

VARIABLES
    sock,         \* readyState of _underlyingWebsocket ("none": not assigned)
    attached,     \* whether the object listens to it
    strays,       \* readyStates of replaced sockets that are not closed
    alive,        \* whether the peer answers on the present connection
    closedByUser, \* _closedByUser
    pending,      \* connectPending
    retry,        \* whether retryTimeout is running
    retries,      \* backoff.retries, up to one more than MaxRetries
    state,        \* connectionState
    interval,     \* heartbeatInterval: off, or the connection it is for
    pong,         \* heartbeatTimeout, likewise
    missed,       \* missedHeartbeats
    buffer,       \* buffered messages, the n-th message sent being n
    wire,         \* messages handed to a native socket
    sends,        \* messages accepted by send()
    synced,       \* whether the source had its first initial sync
    calls         \* explicit calls of reconnect() so far

link      == <<sock, attached, strays, alive>>
attempt   == <<closedByUser, pending, retry, retries, state>>
heartbeat == <<interval, pong, missed>>
messages  == <<buffer, wire, sends>>
vars      == <<link, attempt, heartbeat, messages, synced, calls>>

Init ==
    /\ sock = "none" /\ attached = FALSE /\ strays = {} /\ alive = TRUE
    /\ closedByUser = FALSE /\ pending = TRUE /\ retry = FALSE /\ retries = 0
    /\ state = "Connecting"
    /\ interval = "off" /\ pong = "off" /\ missed = 0
    /\ buffer = <<>> /\ wire = <<>> /\ sends = 0
    /\ synced = FALSE /\ calls = 0

-----------------------------------------------------------------------------
(* Methods that others are made of.                                        *)

StopHeartbeat == interval' = "off" /\ pong' = "off" /\ missed' = 0
StartHeartbeat == interval' = "current" /\ pong' = "off" /\ missed' = 0

\* close() of a native socket: CONNECTING and OPEN become CLOSING.
NativeClose(s) == IF s \in {"connecting", "open"} THEN "closing" ELSE s

\* clearWebsocket: stop listening, and close the socket unless it is still
\* connecting: then it closes once it opens.
ClearWebsocket ==
    /\ attached' = FALSE
    /\ sock' = IF sock = "connecting" THEN sock ELSE NativeClose(sock)
    /\ UNCHANGED <<strays, alive>>

\* Mutant: a retry is scheduled only when an established connection ends.
RetryOpenOnly ==
    IF closedByUser \/ state # "Open" THEN UNCHANGED <<retry, retries>>
    ELSE /\ retries' = IF retries > MaxRetries THEN retries ELSE retries + 1
         /\ retry' = (retries' <= MaxRetries)

\* Mutant: the last retry allowed is not made.
RetryOneShort ==
    IF closedByUser THEN UNCHANGED <<retry, retries>>
    ELSE /\ retries' = IF retries > MaxRetries THEN retries ELSE retries + 1
         /\ retry' = (retries' < MaxRetries)

\* scheduleConnectionRetryIfNeeded.
ScheduleRetry ==
    IF closedByUser THEN UNCHANGED <<retry, retries>>
    ELSE /\ retries' = IF retries > MaxRetries THEN retries ELSE retries + 1
         /\ retry' = (retries' <= MaxRetries)

HandleClose ==
    /\ StopHeartbeat
    /\ state' = "Closed"
    /\ ScheduleRetry
    /\ UNCHANGED <<closedByUser, pending>>

-----------------------------------------------------------------------------
(* Connecting.                                                             *)

\* The connection a timer was started for is no longer the present one.
Aged(owner) == IF owner = "current" THEN "old" ELSE owner

\* Mutant: the answer is taken though the user closed meanwhile.
UrlResolvedUnowned ==
    /\ pending /\ pending' = FALSE
    /\ strays' = strays \cup ({sock} \ {"none", "closed"})
    /\ sock' = "connecting" /\ attached' = TRUE
    /\ interval' = Aged(interval) /\ pong' = Aged(pong)
    /\ UNCHANGED <<alive, closedByUser, retry, retries, state, missed, messages, synced, calls>>

\* tryConnect: the url is resolved and a native socket takes the place of the
\* one before, unless the user closed meanwhile.
UrlResolved ==
    /\ pending /\ pending' = FALSE
    /\ IF closedByUser THEN UNCHANGED <<link, interval, pong>>
       ELSE /\ strays' = strays \cup ({sock} \ {"none", "closed"})
            /\ sock' = "connecting" /\ attached' = TRUE
            /\ interval' = Aged(interval) /\ pong' = Aged(pong)
            /\ UNCHANGED alive
    /\ UNCHANGED <<closedByUser, retry, retries, state, missed, messages, synced, calls>>

\* Mutant: what was buffered waits for the next open event.
OpensKeepsBuffer ==
    /\ sock = "connecting" /\ attached
    /\ sock' = "open" /\ state' = "Open" /\ retries' = 0
    /\ StartHeartbeat
    /\ UNCHANGED <<attached, strays, alive, closedByUser, pending, retry, messages, synced, calls>>

\* The open event.  The heartbeat starts although socket.ts asks for autoStart:
\* false, for the constructor does not copy the option; on a reconnect the
\* source starts it too.
Opens ==
    /\ sock = "connecting" /\ attached
    /\ sock' = "open" /\ state' = "Open" /\ retries' = 0
    /\ StartHeartbeat
    /\ wire' = wire \o buffer /\ buffer' = <<>>
    /\ UNCHANGED <<attached, strays, alive, closedByUser, pending, retry, sends, synced, calls>>

\* The error event; the close event follows.
Fails ==
    /\ sock \in {"connecting", "open"} /\ attached
    /\ sock' = "closing" /\ state' = "Closing"
    /\ UNCHANGED <<attached, strays, alive, closedByUser, pending, retry, retries, heartbeat,
                   messages, synced, calls>>

\* The close event.
Closes ==
    /\ sock \in {"open", "closing"} /\ attached
    /\ sock' = "closed"
    /\ HandleClose
    /\ UNCHANGED <<attached, strays, alive, messages, synced, calls>>

\* A socket nobody listens to any more opens and is closed, or is closed.
Unheard(s) == IF s = "connecting" THEN "closing" ELSE "closed"

DetachedMoves ==
    /\ ~attached /\ sock \in {"connecting", "closing"}
    /\ sock' = Unheard(sock)
    /\ UNCHANGED <<attached, strays, alive, attempt, heartbeat, messages, synced, calls>>

StrayMoves(s) ==
    /\ \E rest \in {strays, strays \ {s}} :
           strays' = rest \cup ({Unheard(s)} \ {"closed"})
    /\ UNCHANGED <<sock, attached, alive, attempt, heartbeat, messages, synced, calls>>

\* The retry event.
RetryFires ==
    /\ retry /\ retry' = FALSE
    /\ state' = "Reconnecting"
    /\ ClearWebsocket
    /\ pending' = TRUE
    /\ UNCHANGED <<closedByUser, retries, heartbeat, messages, synced, calls>>

-----------------------------------------------------------------------------
(* What the user of the object calls.                                      *)

Send ==
    /\ ~closedByUser /\ sends < MaxSend
    /\ sends' = sends + 1
    /\ IF sock = "open"
       THEN wire' = Append(wire, sends') /\ UNCHANGED buffer
       ELSE buffer' = Append(buffer, sends') /\ UNCHANGED wire
    /\ UNCHANGED <<link, attempt, heartbeat, synced, calls>>

Close ==
    /\ ~closedByUser /\ closedByUser' = TRUE
    /\ retry' = FALSE
    /\ sock' = NativeClose(sock)
    /\ StopHeartbeat
    /\ UNCHANGED <<attached, strays, alive, pending, retries, state, messages, synced, calls>>

\* Mutant: the heartbeat of the connection that is given up runs on.
DoReconnectUnstopped ==
    /\ closedByUser' = FALSE
    /\ IF pending THEN UNCHANGED <<link, pending, retry, retries, state, heartbeat>>
       ELSE /\ retry' = FALSE
            /\ ClearWebsocket
            /\ state' = "Reconnecting"
            /\ pending' = TRUE
            /\ UNCHANGED <<retries, heartbeat>>
    /\ UNCHANGED <<messages, synced>>

\* Mutant: a scheduled retry is not cancelled.
DoReconnectUncancelled ==
    /\ closedByUser' = FALSE
    /\ IF pending THEN UNCHANGED <<link, pending, retry, retries, state, heartbeat>>
       ELSE /\ StopHeartbeat
            /\ ClearWebsocket
            /\ state' = "Reconnecting"
            /\ pending' = TRUE
            /\ UNCHANGED <<retry, retries>>
    /\ UNCHANGED <<messages, synced>>

\* reconnect(): an attempt that is under way is adopted.
DoReconnect ==
    /\ closedByUser' = FALSE
    /\ IF pending THEN UNCHANGED <<link, pending, retry, retries, state, heartbeat>>
       ELSE /\ retry' = FALSE
            /\ StopHeartbeat
            /\ ClearWebsocket
            /\ state' = "Reconnecting"
            /\ pending' = TRUE
            /\ UNCHANGED retries
    /\ UNCHANGED <<messages, synced>>

Reconnect ==
    /\ calls < MaxCalls /\ calls' = calls + 1
    /\ DoReconnect

\* On 'online' and 'visibilitychange'.
ReconnectIfDisconnected ==
    /\ ~pending /\ ~closedByUser /\ sock \notin {"open", "connecting"}
    /\ DoReconnect
    /\ UNCHANGED calls

\* The source's first initial sync starts the heartbeat again.
FirstSync ==
    /\ ~synced /\ synced' = TRUE
    /\ sock = "open" /\ attached /\ alive
    /\ StartHeartbeat
    /\ UNCHANGED <<link, attempt, messages, calls>>

-----------------------------------------------------------------------------
(* Heartbeats.  A pong is awaited for 5 s, and a ping sent every 10 s, so   *)
(* no ping is sent while a pong is awaited.                                *)

\* The interval: a ping, or on a socket that is going away, its close event
\* in advance.
Tick ==
    /\ interval # "off" /\ pong = "off" /\ state = "Open"
    /\ IF sock = "open"
       THEN pong' = "current" /\ UNCHANGED <<attempt, interval, missed>>
       ELSE sock \in {"closing", "closed"} /\ HandleClose
    /\ UNCHANGED <<link, messages, synced, calls>>

PongArrives ==
    /\ sock = "open" /\ attached /\ alive /\ (pong # "off" \/ missed > 0)
    /\ pong' = "off" /\ missed' = 0
    /\ UNCHANGED <<link, attempt, interval, messages, synced, calls>>

\* Mutant: the count of missed heartbeats is kept and nothing closed.
PongTimesOutIdly ==
    /\ pong # "off" /\ pong' = "off"
    /\ missed' = missed + 1
    /\ UNCHANGED <<link, attempt, interval, messages, synced, calls>>

\* Mutant: each timeout is taken for the first.
PongTimesOutForgets ==
    /\ pong # "off" /\ pong' = "off"
    /\ missed' = 0
    /\ sock' = IF MaxMissed = 0 THEN NativeClose(sock) ELSE sock
    /\ UNCHANGED <<attached, strays, alive, attempt, interval, messages, synced, calls>>

\* handleHeartbeatTimeout: whatever socket is the present one is closed.
PongTimesOut ==
    /\ pong # "off" /\ pong' = "off"
    /\ missed' = missed + 1
    /\ sock' = IF missed' > MaxMissed THEN NativeClose(sock) ELSE sock
    /\ UNCHANGED <<attached, strays, alive, attempt, interval, messages, synced, calls>>

\* The peer falls silent without closing, and may come back.
PathChanges ==
    /\ alive' = ~alive
    /\ UNCHANGED <<sock, attached, strays, attempt, heartbeat, messages, synced, calls>>

-----------------------------------------------------------------------------
NativeOutcome == Opens \/ Fails

Next ==
    \/ UrlResolved \/ NativeOutcome \/ Closes \/ DetachedMoves
    \/ \E s \in strays : StrayMoves(s)
    \/ RetryFires \/ Send \/ Close \/ Reconnect \/ ReconnectIfDisconnected \/ FirstSync
    \/ Tick \/ PongArrives \/ PongTimesOut \/ PathChanges

\* Timers fire, the resolver answers, an attempt ends one way or the other and
\* a closing socket is closed in the end.  No attempt has to succeed, no call
\* has to be made and no peer has to answer.
Fairness ==
    /\ WF_vars(UrlResolved) /\ WF_vars(sock = "connecting" /\ NativeOutcome)
    /\ WF_vars(sock = "closing" /\ Closes) /\ WF_vars(RetryFires)
    /\ WF_vars(Tick) /\ WF_vars(PongTimesOut)

Spec == Init /\ [][Next]_vars /\ Fairness

-----------------------------------------------------------------------------
\* Type correctness; the heartbeats missed in a row stay within the limit.
TypeOK ==
    /\ sock \in {"none", "connecting", "open", "closing", "closed"}
    /\ strays \subseteq {"connecting", "open", "closing"}
    /\ attached \in BOOLEAN /\ alive \in BOOLEAN /\ closedByUser \in BOOLEAN
    /\ pending \in BOOLEAN /\ retry \in BOOLEAN /\ synced \in BOOLEAN
    /\ retries \in 0..(MaxRetries + 1) /\ missed \in 0..(MaxMissed + 1)
    /\ state \in {"Connecting", "Open", "Closing", "Closed", "Reconnecting"}
    /\ interval \in {"off", "current", "old"} /\ pong \in {"off", "current", "old"}
    /\ buffer \in Seq(Nat) /\ wire \in Seq(Nat)
    /\ sends \in 0..MaxSend /\ calls \in 0..MaxCalls

\* A heartbeat never outlives its connection: no interval pings, and no
\* timeout closes, a connection other than the one it was started for
\* (stopHeartbeat, handleHeartbeatTimeout).
HeartbeatIsOwn == interval # "old" /\ pong # "old"

\* No native connection is open that the object does not own, or that it owns
\* against the user's will (clearWebsocket, tryConnect, close).
OpenIsOwned ==
    /\ "open" \notin strays
    /\ sock \in {"connecting", "open"} /\ attached => ~closedByUser
    /\ sock = "open" => attached

\* There is one attempt at a time: a retry is never scheduled beside an
\* attempt or a connection, and no attempt begins beside another (tryConnect
\* would orphan a socket).
OneAttempt ==
    /\ pending => ~attached /\ ~retry
    /\ retry => sock \in {"closing", "closed"}

\* Unless the user closed it, the object has a connection, is about to lose
\* it, is making one or has a retry scheduled, until the retries are used up.
NeverStranded ==
    \/ closedByUser \/ pending \/ retry \/ retries > MaxRetries
    \/ attached /\ sock \in {"connecting", "open", "closing"}

\* Every message accepted is handed to a socket once, in the order of the
\* calls, or still waits in the buffer behind those that were (socket.ts:
\* "flushed in order once the connection is re-established").
SentInOrder ==
    /\ \A i \in 1..Len(wire) : wire[i] = i
    /\ \A i \in 1..Len(buffer) : buffer[i] = Len(wire) + i
    /\ Len(wire) + Len(buffer) = sends

\* A connection whose peer fell silent is not kept: unless the peer comes
\* back, the heartbeat closes it, be it before its initial sync or after
\* ("Liveness of open sockets is owned by the heartbeat", source.ts).
HalfOpenIsDropped == (sock = "open" /\ ~alive) ~> (sock # "open" \/ alive)

\* A lost or failed connection is made again, unless the user closes or every
\* retry is spent, whatever sockets, timers and calls interleave.  Signals that
\* come without end may restart the attempts without end.
GaveUp == sock = "closed" /\ ~retry /\ ~pending /\ retries > MaxRetries
KeepsTrying ==
    <>[][~ReconnectIfDisconnected]_vars
        => (~closedByUser ~> (sock = "open" \/ GaveUp \/ closedByUser))
=============================================================================
