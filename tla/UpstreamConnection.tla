-------------------------- MODULE UpstreamConnection --------------------------
(***************************************************************************)
(* services/wsGateway/UpstreamConnection.ts: the one connection of the     *)
(* process to the iRidium server, over which all browsers are multiplexed. *)
(* Each handler runs to completion on Node's event loop, so each is one    *)
(* action.  WebSocket objects are members of the set Sockets; an object    *)
(* that is "closed" (or was never created) can be reused for the next      *)
(* `new WebSocket(url)`, which keeps the model finite without a bound on   *)
(* the number of reconnects.                                               *)
(*                                                                         *)
(* The n-th call of send() carries message n.                              *)
(***************************************************************************)
EXTENDS Naturals, Sequences, Functions

CONSTANTS
    Sockets,              \* WebSocket objects
    NoSocket,             \* null
    MaxSends              \* bound on the number of send() calls

ASSUME UpstreamAssumption == NoSocket \notin Sockets /\ MaxSends \in Nat

VARIABLES
    socket,               \* this.socket
    readyState,           \* readyState of every WebSocket object
    connected,            \* this.connected
    reconnectTimer,       \* TRUE iff this.reconnectTimer is set
    pendingOutgoing,      \* this.pendingOutgoing
    sends,                \* number of send() calls so far
    wire,                 \* frames written to each socket and not yet read
    received              \* frames the iRidium server has read, in order

vars == <<socket, readyState, connected, reconnectTimer, pendingOutgoing,
          sends, wire, received>>

ReadyStates == {"connecting", "open", "closing", "closed"}

Live == {s \in Sockets : readyState[s] # "closed"}

-------------------------------------------------------------------------------
(* Handlers                                                                *)

\* connect(): a new WebSocket object becomes this.socket.
Connect(s) ==
    /\ readyState[s] = "closed"
    /\ readyState' = [readyState EXCEPT ![s] = "connecting"]
    /\ socket' = s

\* The state right after attach() has called connect() for the first time.
Init ==
    /\ socket \in Sockets
    /\ readyState = [s \in Sockets |->
                        IF s = socket THEN "connecting" ELSE "closed"]
    /\ connected = FALSE
    /\ reconnectTimer = FALSE
    /\ pendingOutgoing = <<>>
    /\ sends = 0
    /\ wire = [s \in Sockets |-> <<>>]
    /\ received = <<>>

\* "open": the whole queue is written to the new socket (splice(0) empties it).
OnOpenWithoutFlush(s) ==
    /\ readyState[s] = "connecting"
    /\ readyState' = [readyState EXCEPT ![s] = "open"]
    /\ connected' = TRUE
    /\ UNCHANGED <<socket, reconnectTimer, pendingOutgoing, sends, wire, received>>

OnOpen(s) ==
    /\ readyState[s] = "connecting"
    /\ readyState' = [readyState EXCEPT ![s] = "open"]
    /\ connected' = TRUE
    /\ wire' = [wire EXCEPT ![s] = @ \o pendingOutgoing]
    /\ pendingOutgoing' = <<>>
    /\ UNCHANGED <<socket, reconnectTimer, sends, received>>

\* scheduleReconnect(): a timer that is already set is left alone.
ForgetSocketOnly ==
    /\ socket' = NoSocket
    /\ UNCHANGED reconnectTimer

ScheduleReconnect ==
    /\ socket' = NoSocket
    /\ reconnectTimer' = TRUE

\* "error", whose handler only calls socket.close(), or a close frame of the
\* server: the socket is closing and its "close" event is still to come.
OnErrorReconnecting(s) ==
    /\ readyState[s] \in {"connecting", "open"}
    /\ readyState' = [readyState EXCEPT ![s] = "closing"]
    /\ ScheduleReconnect
    /\ UNCHANGED <<connected, pendingOutgoing, sends, wire, received>>

OnError(s) ==
    /\ readyState[s] \in {"connecting", "open"}
    /\ readyState' = [readyState EXCEPT ![s] = "closing"]
    /\ UNCHANGED <<socket, connected, reconnectTimer, pendingOutgoing, sends,
                   wire, received>>

\* "close": frames the server has not read by now are lost.
OnCloseDroppingQueue(s) ==
    /\ readyState[s] = "closing"
    /\ readyState' = [readyState EXCEPT ![s] = "closed"]
    /\ connected' = FALSE
    /\ ScheduleReconnect
    /\ pendingOutgoing' = <<>>
    /\ wire' = [wire EXCEPT ![s] = <<>>]
    /\ UNCHANGED <<sends, received>>

OnClose(s) ==
    /\ readyState[s] = "closing"
    /\ readyState' = [readyState EXCEPT ![s] = "closed"]
    /\ connected' = FALSE
    /\ ScheduleReconnect
    /\ wire' = [wire EXCEPT ![s] = <<>>]
    /\ UNCHANGED <<pendingOutgoing, sends, received>>

\* The callback of the reconnect timer.
ReconnectTimerFires ==
    /\ reconnectTimer
    /\ reconnectTimer' = FALSE
    /\ \E s \in Sockets : Connect(s)
    /\ UNCHANGED <<connected, pendingOutgoing, sends, wire, received>>

\* send(): written only to a socket whose readyState is OPEN, queued otherwise.
HasSocket == socket # NoSocket

CanWrite == socket # NoSocket /\ readyState[socket] = "open"

SubmittedFromZero == sends

Submitted == sends + 1

Send ==
    /\ sends < MaxSends
    /\ sends' = sends + 1
    /\ \/ /\ CanWrite
          /\ wire' = [wire EXCEPT ![socket] = Append(@, Submitted)]
          /\ UNCHANGED pendingOutgoing
       \/ /\ ~CanWrite
          /\ pendingOutgoing' = Append(pendingOutgoing, Submitted)
          /\ UNCHANGED wire
    /\ UNCHANGED <<socket, readyState, connected, reconnectTimer, received>>

\* External: the iRidium server reads the oldest frame on its side of socket s.
ServerReads(s) ==
    /\ readyState[s] \in {"open", "closing"}
    /\ wire[s] # <<>>
    /\ received' = Append(received, Head(wire[s]))
    /\ wire' = [wire EXCEPT ![s] = Tail(@)]
    /\ UNCHANGED <<socket, readyState, connected, reconnectTimer,
                   pendingOutgoing, sends>>

Next ==
    \/ ReconnectTimerFires
    \/ Send
    \/ \E s \in Sockets :
          OnOpen(s) \/ OnError(s) \/ OnClose(s) \/ ServerReads(s)

SafeSpec == Init /\ [][Next]_vars

\* setTimeout fires and ws emits "close" for every socket that is closing (its
\* own close timeout sees to that).  That the server lets a connection open
\* again and again, and reads from one that lasts, is assumed of it.
Spec ==
    /\ SafeSpec
    /\ WF_vars(ReconnectTimerFires)
    /\ WF_vars(\E s \in Sockets : OnClose(s))
    /\ WF_vars(\E s \in Sockets : ServerReads(s))
    /\ SF_vars(\E s \in Sockets : OnOpen(s))

-------------------------------------------------------------------------------
(* Properties                                                              *)

TypeOK ==
    /\ socket \in Sockets \cup {NoSocket}
    /\ readyState \in [Sockets -> ReadyStates]
    /\ connected \in BOOLEAN
    /\ reconnectTimer \in BOOLEAN
    /\ sends \in 0 .. MaxSends
    /\ pendingOutgoing \in Seq(1 .. MaxSends)
    /\ wire \in [Sockets -> Seq(1 .. MaxSends)]
    /\ received \in Seq(1 .. MaxSends)

\* There is never a second upstream socket: the server accepts one client, and
\* "error" plans no reconnect of its own because "close" always follows it.
OneUpstream ==
    /\ \A s, t \in Sockets :
          readyState[s] # "closed" /\ readyState[t] # "closed" => s = t
    /\ \A s \in Sockets :
          readyState[s] # "closed" => socket = s /\ ~reconnectTimer

\* Messages that are on their way on the current connection.
Transit == IF HasSocket THEN wire[socket] ELSE <<>>

\* The link seen as an outbox: the sockets and the reconnects are hidden.
Promise == INSTANCE Outbox WITH
    submitted <- sends,
    backlog <- pendingOutgoing,
    flight <- Transit,
    delivered <- received

\* Across any number of reconnects the server reads the messages in the order
\* of the send() calls, none of them twice, and a message that went into the
\* queue is not overtaken by one sent after the connection came back.
InOrder == Promise!NothingOvertakes

\* A queued message leaves the queue only by being written to a socket; no
\* close, error or failed attempt to reconnect drops it.
QueueIsKept ==
    [][\A m \in Range(pendingOutgoing) :
          \/ m \in Range(pendingOutgoing')
          \/ \E s \in Sockets : m \in Range(wire'[s])]_vars

\* The link always comes back, and a command queued during an outage does not
\* stay in the queue for ever.
AlwaysReconnects == []<>connected

QueueDrains ==
    \A n \in 1 .. MaxSends :
        (n \in Range(pendingOutgoing)) ~> (n \notin Range(pendingOutgoing))

\* The link implements the outbox: whatever the sockets go through, a message
\* waits, is in flight, is delivered in order, or is lost with its connection.
ImplementsOutbox == Promise!Spec

===============================================================================
