------------------------------- MODULE WsGateway -------------------------------
(***************************************************************************)
(* WsGatewayService with scopeFilter: the messages between the browsers and *)
(* the iRidium server, in both directions, and the cache of device rooms    *)
(* that decides what a restricted connection hears and may command.        *)
(*                                                                         *)
(* The rights of a connection are given when it opens (WsAccess says how    *)
(* they are read).  What is accepted goes to CommandThrottle or straight to *)
(* UpstreamConnection, which have modules of their own; here it is enough   *)
(* that it was passed on.                                                   *)
(***************************************************************************)
CONSTANTS
    Conns,                \* browser connections
    Devices,              \* items of a list whose id is a string
    Nameless,             \* items whose id is not
    Rooms,
    NoRoom,               \* a room that is not a number
    Absent,               \* an item that is not in a list
    NoList,               \* "devices" that is no array
    Null                  \* null and undefined

VARIABLES
    conn,                 \* browserConnections, and those that are closing
    connected,            \* this.upstream.isConnected()
    deviceRoomById,       \* the cache of UpstreamConnection
    lastList,             \* history: the devices of the last "devices" list
    unlisted,             \* history: a "devices" message without a list came since
    incoming,             \* the server's message, if this step handled one
    sent,                 \* what this step sent to each browser
    passed                \* the command this step passed on, and its sender's
                          \* scopes

vars == <<conn, connected, deviceRoomById, lastList, unlisted, incoming, sent, passed>>

lists == <<deviceRoomById, lastList, unlisted>>

-------------------------------------------------------------------------------
(* Messages                                                                *)

Items == Devices \cup Nameless

\* The rooms of the items of a "devices" or "sceneDetail" message.
DeviceLists == [Items -> Rooms \cup {NoRoom, Absent}]

ListMessages(type) == [type : {type}, devices : DeviceLists \cup {NoList}]

\* From the server.  "notice" stands for scenes, sceneDeleted, sceneSchedule,
\* which name no room, "text" for what is not a JSON object, "service" for the
\* backup protocol and serverError, and "unknown" for all else.
ServerMessages ==
    ListMessages("devices") \cup ListMessages("sceneDetail")
        \cup [type : {"roomStatus"}, room : Rooms \cup {NoRoom}]
        \cup [type : {"liveStatusPush"}, id : Items]
        \cup [type : {"notice", "text", "service", "unknown"}]

StatusMessages == [type : {"iridiStatus"}, connected : BOOLEAN]

\* From a browser, as parseClientMessage() lets them through.  "read" stands for
\* getDevices, getScenes, getSceneDetail and getSceneSchedule.
ClientMessages ==
    [type : {"getRoomStatus"}, room : Rooms]
        \cup [type : {"setDevice"}, id : Devices]
        \cup [type : {"saveScene"}, ids : SUBSET Devices]
        \cup [type : {"deleteScene", "runScene", "setSceneSchedule", "read"}]

\* An id is a string or not, and what stands for no value is none of the values
\* it stands beside.
ASSUME GatewayAssumption ==
    /\ Devices \cap Nameless = {} /\ NoList \notin DeviceLists
    /\ NoRoom \notin Rooms /\ Absent \notin Rooms /\ NoRoom # Absent
    /\ Null \notin Rooms
    /\ \A b \in BOOLEAN : Null # b
    /\ \A S \in (SUBSET Rooms) \cup (SUBSET Devices) : Null # S
    /\ \A m \in ServerMessages \cup StatusMessages : Null # m

-------------------------------------------------------------------------------
(* scopeFilter.ts                                                          *)

IsRoomAllowed(allowed, room) == allowed # Null => room \in allowed

\* Array.isArray(record.devices) ? record.devices : []
ItemsOf(devices) == IF devices = NoList THEN [i \in Items |-> Absent] ELSE devices

\* An item of a list is kept if its room is a number and allowed, whatever its id.
FilterListLenient(allowed, list) ==
    [i \in Items |-> IF list[i] \in Rooms => IsRoomAllowed(allowed, list[i])
                     THEN list[i] ELSE Absent]

FilterList(allowed, list) ==
    [i \in Items |-> IF list[i] \in Rooms /\ IsRoomAllowed(allowed, list[i])
                     THEN list[i] ELSE Absent]

\* Whether a message without a list is let through as it is.
PassesStatusDropped(allowed, m) ==
    \/ m.type = "roomStatus" /\ m.room \in Rooms /\ IsRoomAllowed(allowed, m.room)
    \/ /\ m.type = "liveStatusPush"
       /\ m.id \in Devices /\ deviceRoomById[m.id] # Null
       /\ IsRoomAllowed(allowed, deviceRoomById[m.id])
    \/ m.type \in {"notice", "text"}

Passes(allowed, m) ==
    \/ m.type = "roomStatus" /\ m.room \in Rooms /\ IsRoomAllowed(allowed, m.room)
    \/ /\ m.type = "liveStatusPush"
       /\ m.id \in Devices /\ deviceRoomById[m.id] # Null
       /\ IsRoomAllowed(allowed, deviceRoomById[m.id])
    \/ m.type \in {"iridiStatus", "notice", "text"}

FilterForConnection(allowed, m) ==
    IF allowed = Null THEN m
    ELSE IF m.type \in {"devices", "sceneDetail"}
         THEN [m EXCEPT !.devices = FilterList(allowed, ItemsOf(@))]
    ELSE IF Passes(allowed, m) THEN m ELSE Null

\* A device the cache does not know is not allowed.
IsDeviceAllowedIfKnown(allowed, id) ==
    deviceRoomById[id] # Null => IsRoomAllowed(allowed, deviceRoomById[id])

IsDeviceAllowed(allowed, id) ==
    deviceRoomById[id] # Null /\ IsRoomAllowed(allowed, deviceRoomById[id])

IsCommandAllowed(allowed, m) ==
    allowed # Null =>
        \/ m.type = "getRoomStatus" /\ IsRoomAllowed(allowed, m.room)
        \/ m.type = "setDevice" /\ IsDeviceAllowed(allowed, m.id)
        \/ m.type = "saveScene" /\ \A id \in m.ids : IsDeviceAllowed(allowed, id)
        \/ m.type = "read"

-------------------------------------------------------------------------------
(* Handlers                                                                *)

ConnStates ==
    [pc : {"none", "open", "closing"},
     allowed : {Null} \cup SUBSET Rooms,
     told : {Null} \cup BOOLEAN,
     listed : {Null} \cup SUBSET Devices]

NoConn == [pc |-> "none", allowed |-> Null, told |-> Null, listed |-> Null]

Nothing == [c \in Conns |-> Null]

Init ==
    /\ conn = [c \in Conns |-> NoConn]
    /\ connected = FALSE
    /\ deviceRoomById = [d \in Devices |-> Null]
    /\ lastList = [d \in Devices |-> Absent]
    /\ unlisted = FALSE
    /\ incoming = Null
    /\ sent = Nothing
    /\ passed = Null

\* updateDeviceCache(): cleared, then filled with the items that have an id.
FillWithoutClear(list) ==
    [d \in Devices |-> IF list[d] \in Rooms THEN list[d] ELSE deviceRoomById[d]]

Rooming(list) == [d \in Devices |-> IF list[d] \in Rooms THEN list[d] ELSE Null]

UpdateDeviceCache(m) ==
    IF m.type = "devices" /\ m.devices # NoList
    THEN /\ deviceRoomById' = Rooming(m.devices)
         /\ lastList' = [d \in Devices |-> m.devices[d]]
         /\ unlisted' = FALSE
    ELSE /\ unlisted' = (unlisted \/ m.type = "devices")
         /\ UNCHANGED <<deviceRoomById, lastList>>

\* What a browser knows once a message has been sent to it: the last status and
\* the devices of the last list.
Informed(r, m) ==
    IF m = Null THEN r
    ELSE IF m.type = "iridiStatus" THEN [r EXCEPT !.told = m.connected]
    ELSE IF m.type = "devices"
         THEN [r EXCEPT !.listed = {d \in Devices : ItemsOf(m.devices)[d] # Absent}]
    ELSE r

\* broadcastToBrowsers(): connections that are closing are left out.
BroadcastToBrowsers(m) ==
    /\ sent' = [c \in Conns |-> IF conn[c].pc = "open"
                                THEN FilterForConnection(conn[c].allowed, m)
                                ELSE Null]
    /\ conn' = [c \in Conns |-> Informed(conn[c], sent'[c])]

\* "message" of the upstream socket: the cache first, then the browsers, unless
\* the message is a service one.
OnMessage(m) ==
    /\ connected
    /\ incoming' = m
    /\ UpdateDeviceCache(m)
    /\ IF m.type = "service" THEN sent' = Nothing /\ UNCHANGED conn
                             ELSE BroadcastToBrowsers(m)
    /\ passed' = Null
    /\ UNCHANGED connected

BroadcastIridiStatus(up) ==
    /\ connected' = up
    /\ BroadcastToBrowsers([type |-> "iridiStatus", connected |-> up])
    /\ incoming' = Null
    /\ passed' = Null

OnOpen ==
    /\ ~connected
    /\ BroadcastIridiStatus(TRUE)
    /\ UNCHANGED lists

\* "close", also of an attempt to connect that failed.
OnCloseForgettingRooms ==
    /\ BroadcastIridiStatus(FALSE)
    /\ deviceRoomById' = [d \in Devices |-> Null]
    /\ UNCHANGED <<lastList, unlisted>>

OnClose ==
    /\ BroadcastIridiStatus(FALSE)
    /\ UNCHANGED lists

\* handleConnection(): the browser is told the status at once.
OpenSilently(c, allowed) ==
    [NoConn EXCEPT !.pc = "open", !.allowed = allowed]

Opened(c, allowed) ==
    [NoConn EXCEPT !.pc = "open", !.allowed = allowed, !.told = connected]

HandleConnection(c) ==
    /\ conn[c].pc = "none"
    /\ \E allowed \in {Null} \cup SUBSET Rooms :
          conn' = [conn EXCEPT ![c] = Opened(c, allowed)]
    /\ sent' = [Nothing EXCEPT ![c] = [type |-> "iridiStatus", connected |-> connected]]
    /\ incoming' = Null
    /\ passed' = Null
    /\ UNCHANGED <<connected, lists>>

\* disconnectUser(), or the browser's close frame: messages can still come, and
\* what the browser shows no longer matters.
BeginClose(c) ==
    /\ conn[c].pc = "open"
    /\ conn' = [conn EXCEPT ![c].pc = "closing", ![c].listed = Null]
    /\ sent' = Nothing /\ incoming' = Null /\ passed' = Null
    /\ UNCHANGED <<connected, lists>>

\* "close" or "error" of the browser's socket.
Close(c) ==
    /\ conn[c].pc # "none"
    /\ conn' = [conn EXCEPT ![c] = NoConn]
    /\ sent' = Nothing /\ incoming' = Null /\ passed' = Null
    /\ UNCHANGED <<connected, lists>>

\* "message" of a browser: dropped above the rate limit or outside the scopes,
\* passed on otherwise.
FromBrowser(c, m) ==
    /\ conn[c].pc \in {"open", "closing"}
    /\ \/ /\ IsCommandAllowed(conn[c].allowed, m)
          /\ passed' = [allowed |-> conn[c].allowed, message |-> m]
       \/ passed' = Null
    /\ sent' = Nothing /\ incoming' = Null
    /\ UNCHANGED <<conn, connected, lists>>

Next ==
    \/ OnOpen \/ OnClose
    \/ \E m \in ServerMessages : OnMessage(m)
    \/ \E c \in Conns :
          \/ HandleConnection(c) \/ BeginClose(c) \/ Close(c)
          \/ \E m \in ClientMessages : FromBrowser(c, m)

Spec == Init /\ [][Next]_vars

-------------------------------------------------------------------------------
(* Properties                                                              *)

TypeOK ==
    /\ conn \in [Conns -> ConnStates]
    /\ \A c \in Conns : conn[c].pc = "none" <=> conn[c].told = Null
    /\ connected \in BOOLEAN
    /\ deviceRoomById \in [Devices -> Rooms \cup {Null}]
    /\ lastList \in [Devices -> Rooms \cup {NoRoom, Absent}]
    /\ unlisted \in BOOLEAN
    /\ incoming \in ServerMessages \cup {Null}
    /\ sent \in [Conns -> ServerMessages \cup StatusMessages \cup {Null}]
    /\ passed \in {Null} \cup [allowed : {Null} \cup SUBSET Rooms,
                               message : ClientMessages]

\* Every open browser, restricted or not, knows whether the iRidium server is
\* connected, also one that opened while the status was changing.
StatusTruth ==
    \A c \in Conns : conn[c].pc = "open" => conn[c].told = connected

\* The rooms a message of the server is about, by a list of the devices.
RoomsOf(m, list) ==
    CASE m.type \in {"devices", "sceneDetail"} -> {ItemsOf(m.devices)[i] : i \in Items} \ {Absent}
      [] m.type = "roomStatus" -> {m.room}
      [] m.type = "liveStatusPush" -> {list[m.id]}
      [] m.type \in {"iridiStatus", "notice", "text"} -> {}

\* A restricted browser hears of its own rooms only, by the rooms the server
\* last gave, and never gets a service or an unknown message.
HearsItsRooms ==
    \A c \in Conns :
        conn[c].allowed # Null /\ sent[c] # Null =>
            /\ sent[c].type \notin {"service", "unknown"}
            /\ RoomsOf(sent[c], lastList) \subseteq conn[c].allowed

\* The rooms a command reads or changes: a scene plays in rooms the gateway does
\* not know.
RoomsTouched(m, list) ==
    CASE m.type = "getRoomStatus" -> {m.room}
      [] m.type = "setDevice" -> {list[m.id]}
      [] m.type = "saveScene" -> {list[d] : d \in m.ids}
      [] m.type = "read" -> {}
      [] OTHER -> Rooms \cup {NoRoom}

\* A restricted browser commands its own rooms only, by the rooms the server
\* last gave, and no device the server did not list.
CommandsItsRooms ==
    passed # Null /\ passed.allowed # Null =>
        RoomsTouched(passed.message, lastList) \subseteq passed.allowed

\* What a restricted browser shows is what it may command: the devices of the list
\* it was sent are those the cache allows it, however the upstream link comes and
\* goes.  After a "devices" message without a list it shows nothing, while the
\* cache keeps the rooms of the list before (UpstreamConnection.ts:102).  An item
\* without an id is shown, and no command can name it.
ShownIsCommandable ==
    \A c \in Conns :
        conn[c].pc = "open" /\ conn[c].allowed # Null /\ conn[c].listed # Null =>
            conn[c].listed = IF unlisted THEN {}
                             ELSE {d \in Devices : IsDeviceAllowed(conn[c].allowed, d)}

\* A browser that shows a device hears every live status of it.
NothingMissed ==
    incoming # Null /\ incoming.type = "liveStatusPush" =>
        \A c \in Conns :
            conn[c].pc = "open" /\ conn[c].listed # Null /\ incoming.id \in conn[c].listed =>
                sent[c] = incoming

===============================================================================
