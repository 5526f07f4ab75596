--------------------------- MODULE WsGateway_proofs ---------------------------
(***************************************************************************)
(* What browsers hear and command, for any number of connections, devices  *)
(* and rooms.                                                              *)
(***************************************************************************)
EXTENDS WsGateway, TLAPS

AllowedSets == {Null} \cup SUBSET Rooms

Messages == ServerMessages \cup StatusMessages

\* A list stays a list when it is filtered.
LEMMA FilteredList ==
    ASSUME NEW allowed \in AllowedSets, NEW list \in DeviceLists
    PROVE  FilterList(allowed, list) \in DeviceLists
BY DEF FilterList, DeviceLists

\* What is no array is filtered as an empty list.
LEMMA ListOfItems ==
    ASSUME NEW devices \in DeviceLists \cup {NoList}
    PROVE  ItemsOf(devices) \in DeviceLists
BY DEF ItemsOf, DeviceLists

\* What is sent to a browser is a message, or nothing.
LEMMA FilteredMessage ==
    ASSUME NEW allowed \in AllowedSets, NEW m \in Messages
    PROVE  /\ FilterForConnection(allowed, m) \in Messages \cup {Null}
           /\ \/ FilterForConnection(allowed, m) = Null
              \/ FilterForConnection(allowed, m).type = m.type
<1>1. CASE allowed = Null \/ m.type \notin {"devices", "sceneDetail"}
  BY <1>1 DEF FilterForConnection
<1>2. CASE allowed # Null /\ m.type \in {"devices", "sceneDetail"}
  <2>1. m \in [type : {"devices", "sceneDetail"}, devices : DeviceLists \cup {NoList}]
    BY <1>2 DEF Messages, ServerMessages, ListMessages, StatusMessages
  <2>2. PICK list : list = FilterList(allowed, ItemsOf(m.devices))
    OBVIOUS
  <2>3. list \in DeviceLists
    BY <2>1, <2>2, FilteredList, ListOfItems
  <2>4. [m EXCEPT !.devices = list]
           \in [type : {"devices", "sceneDetail"}, devices : DeviceLists \cup {NoList}]
        /\ [m EXCEPT !.devices = list].type = m.type
    BY <2>1, <2>3
  <2>5. [type : {"devices", "sceneDetail"}, devices : DeviceLists \cup {NoList}]
           \subseteq Messages
    BY DEF Messages, ServerMessages, ListMessages
  <2> QED BY <1>2, <2>2, <2>4, <2>5 DEF FilterForConnection
<1> QED BY <1>1, <1>2

\* A message changes what a browser knows, and nothing else of its connection.
LEMMA InformedTyped ==
    ASSUME NEW r \in ConnStates, NEW m \in Messages \cup {Null}
    PROVE  /\ Informed(r, m) \in ConnStates
           /\ Informed(r, m).pc = r.pc
           /\ Informed(r, m).allowed = r.allowed
           /\ r.told # Null => Informed(r, m).told # Null
<1>1. CASE m = Null
  BY <1>1 DEF Informed
<1>2. CASE m # Null /\ m.type = "iridiStatus"
  <2>1. m \in StatusMessages
    BY <1>2 DEF Messages, ServerMessages, ListMessages
  <2>2. m.connected \in BOOLEAN
    BY <2>1 DEF StatusMessages
  <2>3. Informed(r, m) = [r EXCEPT !.told = m.connected]
    BY <1>2 DEF Informed
  <2>4. m.connected # Null
    BY <2>2, GatewayAssumption
  <2> QED BY <1>2, <2>2, <2>3, <2>4 DEF ConnStates
<1>3. CASE m # Null /\ m.type = "devices"
  BY <1>3 DEF Informed, ConnStates
<1>4. CASE m # Null /\ m.type \notin {"iridiStatus", "devices"}
  BY <1>4 DEF Informed
<1> QED BY <1>1, <1>2, <1>3, <1>4

\* A broadcast leaves every connection where it is, with the rights it had.
LEMMA Broadcast ==
    ASSUME TypeOK, NEW m \in Messages, BroadcastToBrowsers(m)
    PROVE  /\ sent' \in [Conns -> Messages \cup {Null}]
           /\ conn' \in [Conns -> ConnStates]
           /\ \A c \in Conns :
                 /\ conn'[c] = Informed(conn[c], sent'[c])
                 /\ sent'[c] = IF conn[c].pc = "open"
                               THEN FilterForConnection(conn[c].allowed, m)
                               ELSE Null
                 /\ conn'[c].pc = conn[c].pc
                 /\ conn'[c].allowed = conn[c].allowed
                 /\ conn'[c].pc = "none" <=> conn'[c].told = Null
<1>1. ASSUME NEW c \in Conns
      PROVE  /\ conn[c] \in ConnStates
             /\ conn[c].allowed \in AllowedSets
             /\ conn[c].pc = "none" <=> conn[c].told = Null
  BY <1>1 DEF TypeOK, ConnStates, AllowedSets
<1>2. \A c \in Conns : sent'[c] = IF conn[c].pc = "open"
                                  THEN FilterForConnection(conn[c].allowed, m)
                                  ELSE Null
  BY DEF BroadcastToBrowsers
<1>3. sent' \in [Conns -> Messages \cup {Null}]
  <2>1. \A c \in Conns : FilterForConnection(conn[c].allowed, m) \in Messages \cup {Null}
    BY <1>1, FilteredMessage
  <2> QED BY <2>1 DEF BroadcastToBrowsers
<1>4. \A c \in Conns : conn'[c] = Informed(conn[c], sent'[c])
  BY DEF BroadcastToBrowsers
<1>5. ASSUME NEW c \in Conns
      PROVE  /\ conn'[c] \in ConnStates
             /\ conn'[c].pc = conn[c].pc
             /\ conn'[c].allowed = conn[c].allowed
             /\ conn'[c].pc = "none" <=> conn'[c].told = Null
  <2>1. sent'[c] \in Messages \cup {Null}
    BY <1>3, <1>5
  <2>2. CASE conn[c].pc = "none"
    <3>1. sent'[c] = Null
      BY <1>2, <1>5, <2>2
    <3> QED BY <1>1, <1>4, <1>5, <3>1 DEF Informed
  <2>3. CASE conn[c].pc # "none"
    <3>1. conn[c].told # Null
      BY <1>1, <1>5, <2>3
    <3> QED BY <1>1, <1>4, <1>5, <2>1, <2>3, <3>1, InformedTyped
  <2> QED BY <2>2, <2>3
<1>6. conn' \in [Conns -> ConnStates]
  BY <1>5 DEF BroadcastToBrowsers
<1> QED BY <1>2, <1>3, <1>4, <1>5, <1>6

-------------------------------------------------------------------------------
(* Types                                                                   *)

LEMMA NoConnTyped ==
    ASSUME NEW allowed \in AllowedSets, NEW up \in BOOLEAN
    PROVE  /\ NoConn \in ConnStates
           /\ NoConn.pc = "none" /\ NoConn.told = Null /\ NoConn.allowed = Null
           /\ LET r == [NoConn EXCEPT !.pc = "open", !.allowed = allowed, !.told = up]
              IN  /\ r \in ConnStates
                  /\ r.pc = "open" /\ r.told = up /\ r.told # Null
                  /\ r.allowed = allowed /\ r.listed = Null
BY GatewayAssumption DEF NoConn, ConnStates, AllowedSets

LEMMA TypeInit == Init => TypeOK
<1>1. NoConn \in ConnStates /\ NoConn.pc = "none" /\ NoConn.told = Null
  BY DEF NoConn, ConnStates
<1> QED BY <1>1 DEF Init, TypeOK, Nothing

LEMMA TypeStep == TypeOK /\ [Next]_vars => TypeOK'
<1> SUFFICES ASSUME TypeOK, [Next]_vars PROVE TypeOK'
  OBVIOUS
<1>1. ASSUME NEW m \in ServerMessages, OnMessage(m) PROVE TypeOK'
  <2>1. /\ deviceRoomById' \in [Devices -> Rooms \cup {Null}]
        /\ lastList' \in [Devices -> Rooms \cup {NoRoom, Absent}]
        /\ unlisted' \in BOOLEAN
    <3>1. CASE m.type = "devices" /\ m.devices # NoList
      <4>1. m.devices \in DeviceLists
        BY <1>1, <3>1 DEF ServerMessages, ListMessages
      <4>2. \A d \in Devices : m.devices[d] \in Rooms \cup {NoRoom, Absent}
        BY <4>1 DEF DeviceLists, Items
      <4>3. unlisted' \in BOOLEAN
        BY <1>1, <3>1 DEF OnMessage, UpdateDeviceCache
      <4> QED BY <1>1, <3>1, <4>2, <4>3 DEF OnMessage, UpdateDeviceCache, Rooming
    <3>2. CASE ~(m.type = "devices" /\ m.devices # NoList)
      <4>1. unlisted' \in BOOLEAN
        BY <1>1, <3>2 DEF OnMessage, UpdateDeviceCache
      <4> QED BY <1>1, <3>2, <4>1 DEF OnMessage, UpdateDeviceCache, TypeOK
    <3> QED BY <3>1, <3>2
  <2>2. CASE m.type = "service"
    BY <1>1, <2>1, <2>2 DEF OnMessage, Nothing, TypeOK
  <2>3. CASE m.type # "service"
    <3>1. BroadcastToBrowsers(m) /\ m \in Messages
      BY <1>1, <2>3 DEF OnMessage, Messages
    <3> QED BY <1>1, <2>1, <3>1, Broadcast DEF OnMessage, TypeOK, Messages
  <2> QED BY <2>2, <2>3
<1>2. ASSUME NEW up \in BOOLEAN, BroadcastIridiStatus(up),
             UNCHANGED lists
      PROVE  TypeOK'
  <2>1. [type |-> "iridiStatus", connected |-> up] \in Messages
    BY DEF Messages, StatusMessages
  <2> QED BY <1>2, <2>1, Broadcast DEF BroadcastIridiStatus, TypeOK, Messages, lists
<1>3. ASSUME NEW c \in Conns, HandleConnection(c) PROVE TypeOK'
  <2>1. PICK allowed \in AllowedSets :
           conn' = [conn EXCEPT ![c] = Opened(c, allowed)]
    BY <1>3 DEF HandleConnection, AllowedSets
  <2>2. connected \in BOOLEAN
    BY DEF TypeOK
  <2>3. Opened(c, allowed) \in ConnStates /\ Opened(c, allowed).pc # "none"
        /\ Opened(c, allowed).told # Null
    BY <2>2, NoConnTyped DEF Opened
  <2>4. [type |-> "iridiStatus", connected |-> connected] \in StatusMessages
    BY <2>2 DEF StatusMessages
  <2>5. sent' \in [Conns -> ServerMessages \cup StatusMessages \cup {Null}]
    BY <1>3, <2>4 DEF HandleConnection, Nothing
  <2> QED BY <1>3, <2>1, <2>3, <2>5 DEF HandleConnection, TypeOK, lists
<1>4. ASSUME NEW c \in Conns, BeginClose(c) PROVE TypeOK'
  <2>1. conn[c] \in ConnStates
    BY DEF TypeOK
  <2>2. PICK r : r = [conn[c] EXCEPT !.pc = "closing", !.listed = Null]
    OBVIOUS
  <2>3. r \in ConnStates /\ r.told = conn[c].told /\ r.pc = "closing"
    BY <2>1, <2>2 DEF ConnStates
  <2>4. conn' = [conn EXCEPT ![c] = r]
    BY <1>4, <2>2 DEF BeginClose
  <2> QED BY <1>4, <2>3, <2>4 DEF BeginClose, TypeOK, Nothing, lists
<1>5. ASSUME NEW c \in Conns, Close(c) PROVE TypeOK'
  BY <1>5, NoConnTyped, Null \in AllowedSets, TRUE \in BOOLEAN
     DEF Close, TypeOK, Nothing, AllowedSets, lists
<1>6. ASSUME NEW c \in Conns, NEW m \in ClientMessages, FromBrowser(c, m) PROVE TypeOK'
  <2>1. conn[c].allowed \in {Null} \cup SUBSET Rooms
    BY DEF TypeOK, ConnStates
  <2> QED BY <1>6, <2>1 DEF FromBrowser, TypeOK, Nothing, lists
<1>7. CASE UNCHANGED vars
  BY <1>7 DEF vars, TypeOK
<1> QED BY <1>1, <1>2, <1>3, <1>4, <1>5, <1>6, <1>7 DEF Next, OnOpen, OnClose

\* The gateway's state is well typed.
THEOREM GatewayTypeCorrect == Spec => []TypeOK
BY TypeInit, TypeStep, PTL DEF Spec

-------------------------------------------------------------------------------
(* The status                                                              *)

\* An unrestricted browser is sent everything, a restricted one the status too.
LEMMA StatusPasses ==
    ASSUME NEW allowed \in AllowedSets, NEW up \in BOOLEAN
    PROVE  LET m == [type |-> "iridiStatus", connected |-> up]
           IN  FilterForConnection(allowed, m) = m
BY DEF FilterForConnection, Passes

LEMMA StatusStep == TypeOK /\ StatusTruth /\ [Next]_vars => StatusTruth'
<1> SUFFICES ASSUME TypeOK, StatusTruth, [Next]_vars PROVE StatusTruth'
  OBVIOUS
<1>1. ASSUME NEW m \in ServerMessages, OnMessage(m) PROVE StatusTruth'
  <2>1. CASE m.type = "service"
    BY <1>1, <2>1 DEF OnMessage, StatusTruth
  <2>2. CASE m.type # "service"
    <3>1. BroadcastToBrowsers(m) /\ m \in Messages /\ connected' = connected
      BY <1>1, <2>2 DEF OnMessage, Messages
    <3>2. m.type # "iridiStatus"
      BY <1>1 DEF ServerMessages, ListMessages
    <3>3. ASSUME NEW c \in Conns PROVE conn'[c].told = conn[c].told
      <4>1. sent'[c] = Null \/ sent'[c].type = m.type
        <5>1. conn[c].allowed \in AllowedSets
          BY <3>3 DEF TypeOK, ConnStates, AllowedSets
        <5>2. sent'[c] = IF conn[c].pc = "open"
                         THEN FilterForConnection(conn[c].allowed, m)
                         ELSE Null
          BY <3>1, <3>3, Broadcast
        <5> QED BY <3>1, <5>1, <5>2, FilteredMessage
      <4>2. conn[c] \in ConnStates /\ conn'[c] = Informed(conn[c], sent'[c])
        BY <3>1, <3>3, Broadcast DEF TypeOK
      <4> QED BY <3>2, <4>1, <4>2 DEF Informed, ConnStates
    <3> QED BY <3>1, <3>3, Broadcast DEF StatusTruth
  <2> QED BY <2>1, <2>2
<1>2. ASSUME NEW up \in BOOLEAN, BroadcastIridiStatus(up) PROVE StatusTruth'
  <2> DEFINE m == [type |-> "iridiStatus", connected |-> up]
  <2>1. BroadcastToBrowsers(m) /\ m \in Messages /\ connected' = up
    BY <1>2 DEF BroadcastIridiStatus, Messages, StatusMessages
  <2>2. ASSUME NEW c \in Conns, conn'[c].pc = "open" PROVE conn'[c].told = up
    <3>1. conn[c].pc = "open" /\ conn[c] \in ConnStates /\ conn[c].allowed \in AllowedSets
      BY <2>1, <2>2, Broadcast DEF TypeOK, ConnStates, AllowedSets
    <3>2. sent'[c] = m
      <4>1. sent'[c] = FilterForConnection(conn[c].allowed, m)
        BY <2>1, <2>2, <3>1, Broadcast
      <4> QED BY <3>1, <4>1, StatusPasses
    <3>3. m # Null
      BY GatewayAssumption DEF StatusMessages
    <3>4. conn'[c] = Informed(conn[c], m)
      BY <2>1, <2>2, <3>2, Broadcast
    <3> QED BY <3>1, <3>3, <3>4 DEF Informed, ConnStates
  <2> QED BY <2>1, <2>2 DEF StatusTruth
<1>3. ASSUME NEW c \in Conns, HandleConnection(c) PROVE StatusTruth'
  <2>1. PICK allowed \in AllowedSets :
           conn' = [conn EXCEPT ![c] = Opened(c, allowed)]
    BY <1>3 DEF HandleConnection, AllowedSets
  <2>2. Opened(c, allowed).told = connected
    BY DEF Opened, NoConn
  <2> QED BY <1>3, <2>1, <2>2 DEF HandleConnection, StatusTruth, TypeOK
<1>4. ASSUME NEW c \in Conns,
             BeginClose(c) \/ Close(c) \/ \E m \in ClientMessages : FromBrowser(c, m)
      PROVE  StatusTruth'
  <2>1. [conn[c] EXCEPT !.pc = "closing", !.listed = Null].pc = "closing"
        /\ NoConn.pc = "none"
    BY DEF TypeOK, ConnStates, NoConn
  <2> QED BY <1>4, <2>1 DEF BeginClose, Close, FromBrowser, StatusTruth, TypeOK
<1>5. CASE UNCHANGED vars
  BY <1>5 DEF vars, StatusTruth
<1> QED BY <1>1, <1>2, <1>3, <1>4, <1>5 DEF Next, OnOpen, OnClose

\* Every open browser was told the present status of the upstream link last.
THEOREM StatusAlwaysTrue == Spec => []StatusTruth
<1>1. Init => StatusTruth
  BY DEF Init, StatusTruth, NoConn
<1> QED BY <1>1, StatusStep, GatewayTypeCorrect, PTL DEF Spec

-------------------------------------------------------------------------------
(* The cache and the lists                                                 *)

\* The cache holds the rooms of the last list.
CacheIsLastList == deviceRoomById = Rooming(lastList)

\* What a connection with these scopes shows of a list.
Shows(allowed, list) ==
    {d \in Devices : /\ list[d] # Absent
                     /\ allowed # Null => list[d] \in Rooms /\ list[d] \in allowed}

\* Every open browser that was sent a list shows the last one, and nothing after a
\* message without a list.
ListsShown ==
    \A c \in Conns :
        conn[c].pc = "open" /\ conn[c].listed # Null =>
            conn[c].listed = IF unlisted THEN {} ELSE Shows(conn[c].allowed, lastList)

ListInv == CacheIsLastList /\ ListsShown

\* The device part of a list.
DevicesOf(list) == [d \in Devices |-> list[d]]

LEMMA ShownAfterList ==
    ASSUME NEW r \in ConnStates, NEW m \in ListMessages("devices")
    PROVE  Informed(r, FilterForConnection(r.allowed, m)).listed
              = IF m.devices = NoList THEN {} ELSE Shows(r.allowed, DevicesOf(m.devices))
<1> DEFINE f == FilterForConnection(r.allowed, m)
<1>1. m \in Messages /\ m.type = "devices" /\ m.devices \in DeviceLists \cup {NoList}
  BY DEF Messages, ServerMessages, ListMessages
<1>2. m # Null
  BY <1>1, GatewayAssumption DEF Messages
<1>3. {d \in Devices : ItemsOf(m.devices)[d] # Absent}
         = IF m.devices = NoList THEN {} ELSE {d \in Devices : m.devices[d] # Absent}
  BY DEF ItemsOf, Items
<1>4. CASE r.allowed = Null
  <2>1. f = m
    BY <1>4 DEF FilterForConnection
  <2>2. Informed(r, f).listed = {d \in Devices : ItemsOf(m.devices)[d] # Absent}
    BY <1>1, <1>2, <2>1 DEF Informed, ConnStates
  <2> QED BY <1>3, <1>4, <2>2 DEF Shows, DevicesOf
<1>5. CASE r.allowed # Null
  <2>1. r.allowed \in AllowedSets
    BY DEF ConnStates, AllowedSets
  <2>2. PICK list : list = FilterList(r.allowed, ItemsOf(m.devices))
    OBVIOUS
  <2>3. list \in DeviceLists
    BY <1>1, <2>1, <2>2, FilteredList, ListOfItems
  <2>4. f = [m EXCEPT !.devices = list]
    BY <1>1, <1>5, <2>2 DEF FilterForConnection
  <2>5. f.type = "devices" /\ f.devices = list /\ f \in ListMessages("devices")
    BY <1>1, <2>3, <2>4 DEF ListMessages
  <2>6. f # Null /\ list # NoList
    BY <2>3, <2>5, GatewayAssumption DEF ServerMessages
  <2>7. Informed(r, f).listed = {d \in Devices : list[d] # Absent}
    BY <2>5, <2>6 DEF Informed, ConnStates, ItemsOf
  <2>8. CASE m.devices = NoList
    <3>1. \A d \in Devices : list[d] = Absent
      BY <2>2, <2>8, GatewayAssumption DEF FilterList, ItemsOf, Items
    <3> QED BY <2>7, <2>8, <3>1
  <2>9. CASE m.devices # NoList
    <3>1. {d \in Devices : list[d] # Absent} = Shows(r.allowed, DevicesOf(m.devices))
      BY <1>5, <2>2, <2>9, GatewayAssumption
         DEF FilterList, ItemsOf, Items, Shows, IsRoomAllowed, DevicesOf
    <3> QED BY <2>7, <2>9, <3>1
  <2> QED BY <2>8, <2>9
<1> QED BY <1>4, <1>5

LEMMA ListKept ==
    ASSUME NEW r \in ConnStates, NEW m \in Messages \cup {Null},
           m = Null \/ m.type # "devices"
    PROVE  Informed(r, m).listed = r.listed
BY DEF Informed, ConnStates

\* A broadcast that is no list leaves what is shown alone.
LEMMA OtherBroadcast ==
    ASSUME TypeOK, ListInv, NEW m \in Messages, m.type # "devices",
           BroadcastToBrowsers(m), UNCHANGED lists
    PROVE  ListInv'
<1>1. ASSUME NEW c \in Conns PROVE conn'[c].listed = conn[c].listed
  <2>1. conn[c] \in ConnStates /\ conn[c].allowed \in AllowedSets
    BY <1>1 DEF TypeOK, ConnStates, AllowedSets
  <2>2. sent'[c] \in Messages \cup {Null} /\ conn'[c] = Informed(conn[c], sent'[c])
    BY <1>1, Broadcast
  <2>3. sent'[c] = Null \/ sent'[c].type = m.type
    <3>1. sent'[c] = IF conn[c].pc = "open"
                     THEN FilterForConnection(conn[c].allowed, m)
                     ELSE Null
      BY <1>1, Broadcast
    <3> QED BY <2>1, <3>1, FilteredMessage
  <2> QED BY <2>1, <2>2, <2>3, ListKept
<1>2. \A c \in Conns : conn'[c].pc = conn[c].pc /\ conn'[c].allowed = conn[c].allowed
  BY Broadcast
<1> QED BY <1>1, <1>2 DEF ListInv, CacheIsLastList, ListsShown, Shows, Rooming, lists

LEMMA ListStep == TypeOK /\ ListInv /\ [Next]_vars => ListInv'
<1> SUFFICES ASSUME TypeOK, ListInv, [Next]_vars PROVE ListInv'
  OBVIOUS
<1>1. ASSUME NEW m \in ServerMessages, OnMessage(m) PROVE ListInv'
  <2>1. CASE m.type = "service"
    <3>1. UNCHANGED lists /\ UNCHANGED conn
      BY <1>1, <2>1 DEF OnMessage, UpdateDeviceCache, TypeOK, lists
    <3> QED BY <3>1 DEF ListInv, CacheIsLastList, ListsShown, Shows, Rooming, lists
  <2>2. CASE m.type = "devices"
    <3>1. m \in ListMessages("devices") /\ m \in Messages /\ BroadcastToBrowsers(m)
      BY <1>1, <2>2 DEF OnMessage, Messages, ServerMessages, ListMessages
    <3>2. /\ m.devices = NoList => UNCHANGED <<deviceRoomById, lastList>>
          /\ m.devices # NoList => /\ deviceRoomById' = Rooming(m.devices)
                                   /\ lastList' = DevicesOf(m.devices)
          /\ unlisted' = (m.devices = NoList)
      BY <1>1, <2>2 DEF OnMessage, UpdateDeviceCache, DevicesOf, TypeOK
    <3>3. CacheIsLastList'
      BY <3>2 DEF ListInv, CacheIsLastList, Rooming, DevicesOf
    <3>4. ASSUME NEW c \in Conns, conn'[c].pc = "open"
          PROVE  conn'[c].listed = IF m.devices = NoList THEN {}
                                   ELSE Shows(conn'[c].allowed, DevicesOf(m.devices))
      <4>1. conn[c].pc = "open" /\ conn[c] \in ConnStates
            /\ conn'[c].allowed = conn[c].allowed
        BY <3>1, <3>4, Broadcast DEF TypeOK
      <4>2. conn'[c] = Informed(conn[c], FilterForConnection(conn[c].allowed, m))
        <5>1. conn'[c] = Informed(conn[c], sent'[c])
          BY <3>1, <3>4, Broadcast
        <5>2. sent'[c] = IF conn[c].pc = "open"
                         THEN FilterForConnection(conn[c].allowed, m)
                         ELSE Null
          BY <3>1, <3>4, Broadcast
        <5> QED BY <4>1, <5>1, <5>2
      <4> QED BY <3>1, <4>1, <4>2, ShownAfterList
    <3>5. ListsShown'
      BY <3>2, <3>4 DEF ListsShown, Shows
    <3> QED BY <3>3, <3>5 DEF ListInv
  <2>3. CASE m.type \notin {"service", "devices"}
    <3>1. m \in Messages /\ BroadcastToBrowsers(m) /\ UNCHANGED lists
      BY <1>1, <2>3 DEF OnMessage, UpdateDeviceCache, Messages, TypeOK, lists
    <3> QED BY <2>3, <3>1, OtherBroadcast
  <2> QED BY <2>1, <2>2, <2>3
<1>2. ASSUME NEW up \in BOOLEAN, BroadcastIridiStatus(up),
             UNCHANGED lists
      PROVE  ListInv'
  <2> DEFINE m == [type |-> "iridiStatus", connected |-> up]
  <2>1. m \in Messages /\ m.type # "devices" /\ BroadcastToBrowsers(m)
    BY <1>2 DEF BroadcastIridiStatus, Messages, StatusMessages
  <2> HIDE DEF m
  <2> QED BY <1>2, <2>1, OtherBroadcast
<1>3. ASSUME NEW c \in Conns, HandleConnection(c) PROVE ListInv'
  <2>1. PICK allowed \in AllowedSets :
           conn' = [conn EXCEPT ![c] = Opened(c, allowed)]
    BY <1>3 DEF HandleConnection, AllowedSets
  <2>2. Opened(c, allowed).listed = Null
    BY DEF Opened, NoConn
  <2> QED BY <1>3, <2>1, <2>2
          DEF HandleConnection, ListInv, CacheIsLastList, ListsShown, Shows, Rooming,
              TypeOK, lists
<1>4. ASSUME NEW c \in Conns,
             BeginClose(c) \/ Close(c) \/ \E m \in ClientMessages : FromBrowser(c, m)
      PROVE  ListInv'
  <2>1. [conn[c] EXCEPT !.pc = "closing", !.listed = Null].pc = "closing"
        /\ NoConn.pc = "none"
    BY DEF TypeOK, ConnStates, NoConn
  <2>2. \A e \in Conns : conn'[e].pc = "open" => conn'[e] = conn[e]
    BY <1>4, <2>1 DEF BeginClose, Close, FromBrowser, TypeOK
  <2>3. UNCHANGED lists
    BY <1>4 DEF BeginClose, Close, FromBrowser
  <2> QED BY <2>2, <2>3
          DEF ListInv, CacheIsLastList, ListsShown, Shows, Rooming, lists
<1>5. CASE UNCHANGED vars
  BY <1>5 DEF vars, ListInv, CacheIsLastList, ListsShown, Shows, Rooming
<1> QED BY <1>1, <1>2, <1>3, <1>4, <1>5 DEF Next, OnOpen, OnClose

LEMMA ListInit == Init => ListInv
<1> SUFFICES ASSUME Init PROVE ListInv
  OBVIOUS
<1>1. CacheIsLastList
  BY GatewayAssumption DEF Init, CacheIsLastList, Rooming
<1>2. ListsShown
  BY DEF Init, ListsShown, NoConn
<1> QED BY <1>1, <1>2 DEF ListInv

LEMMA ListsRight == Spec => [](TypeOK /\ ListInv)
BY ListInit, ListStep, GatewayTypeCorrect, PTL DEF Spec

\* What a restricted browser shows is what it may command, except after a message
\* without a list.
THEOREM CommandsWhatItShows == Spec => []ShownIsCommandable
<1>1. TypeOK /\ ListInv => ShownIsCommandable
  BY GatewayAssumption
     DEF TypeOK, ListInv, CacheIsLastList, ListsShown, Shows, Rooming,
         ShownIsCommandable, IsDeviceAllowed, IsRoomAllowed
<1> QED BY <1>1, ListsRight, PTL

-------------------------------------------------------------------------------
(* What is heard, and what is commanded                                    *)

\* What a message of the server becomes for a restricted connection names only
\* rooms of its scopes, by the list that is valid when it is sent.
LEMMA HeardInScope ==
    ASSUME NEW m \in ServerMessages, OnMessage(m), TypeOK, ListInv,
           NEW allowed \in SUBSET Rooms,
           FilterForConnection(allowed, m) # Null
    PROVE  LET f == FilterForConnection(allowed, m)
           IN  f.type \notin {"service", "unknown"} /\ RoomsOf(f, lastList') \subseteq allowed
<1> DEFINE f == FilterForConnection(allowed, m)
<1>1. allowed # Null /\ allowed \in AllowedSets
  BY GatewayAssumption DEF AllowedSets
<1>2. CASE m.type \in {"devices", "sceneDetail"}
  <2>1. m \in [type : {"devices", "sceneDetail"}, devices : DeviceLists \cup {NoList}]
    BY <1>2 DEF ServerMessages, ListMessages
  <2>2. PICK list : list = FilterList(allowed, ItemsOf(m.devices))
    OBVIOUS
  <2>3. list \in DeviceLists
    BY <1>1, <2>1, <2>2, FilteredList, ListOfItems
  <2>4. f.type = m.type /\ f.devices = list
    BY <1>1, <1>2, <2>1, <2>2 DEF FilterForConnection
  <2>5. ItemsOf(f.devices) = list
    BY <2>3, <2>4, GatewayAssumption DEF ItemsOf
  <2>6. RoomsOf(f, lastList') = {list[i] : i \in Items} \ {Absent}
    BY <1>2, <2>4, <2>5 DEF RoomsOf
  <2>7. \A i \in Items : list[i] \in allowed \cup {Absent}
    BY <1>1, <2>2 DEF FilterList, IsRoomAllowed
  <2> QED BY <1>2, <2>4, <2>6, <2>7
<1>3. CASE m.type \notin {"devices", "sceneDetail"}
  <2>1. f = m /\ Passes(allowed, m)
    BY <1>1, <1>3 DEF FilterForConnection
  <2>2. CASE m.type = "roomStatus"
    BY <1>1, <2>1, <2>2 DEF Passes, RoomsOf, IsRoomAllowed
  <2>3. CASE m.type = "liveStatusPush"
    <3>1. m.id \in Devices /\ lastList' = lastList
      BY <2>1, <2>3 DEF Passes, OnMessage, UpdateDeviceCache
    <3>2. deviceRoomById[m.id] # Null /\ deviceRoomById[m.id] \in allowed
      BY <1>1, <2>1, <2>3 DEF Passes, IsRoomAllowed
    <3>3. lastList[m.id] \in allowed
      BY <3>1, <3>2 DEF ListInv, CacheIsLastList, Rooming
    <3> QED BY <2>1, <2>3, <3>1, <3>3 DEF RoomsOf
  <2>4. CASE m.type \in {"notice", "text"}
    BY <2>1, <2>4 DEF RoomsOf
  <2> QED BY <2>1, <2>2, <2>3, <2>4 DEF Passes, ServerMessages, ListMessages
<1> QED BY <1>2, <1>3

LEMMA HearsStep == TypeOK /\ ListInv /\ HearsItsRooms /\ [Next]_vars => HearsItsRooms'
<1> SUFFICES ASSUME TypeOK, ListInv, HearsItsRooms, [Next]_vars PROVE HearsItsRooms'
  OBVIOUS
<1>1. ASSUME NEW m \in ServerMessages, OnMessage(m) PROVE HearsItsRooms'
  <2>1. CASE m.type = "service"
    BY <1>1, <2>1 DEF OnMessage, Nothing, HearsItsRooms
  <2>2. CASE m.type # "service"
    <3>1. BroadcastToBrowsers(m) /\ m \in Messages
      BY <1>1, <2>2 DEF OnMessage, Messages
    <3>2. ASSUME NEW c \in Conns, conn'[c].allowed # Null, sent'[c] # Null
          PROVE  /\ sent'[c].type \notin {"service", "unknown"}
                 /\ RoomsOf(sent'[c], lastList') \subseteq conn'[c].allowed
      <4>1. sent'[c] = FilterForConnection(conn[c].allowed, m)
            /\ conn'[c].allowed = conn[c].allowed
        BY <3>1, <3>2, Broadcast
      <4>2. conn[c].allowed \in SUBSET Rooms
        BY <3>2, <4>1 DEF TypeOK, ConnStates
      <4> QED BY <1>1, <3>2, <4>1, <4>2, HeardInScope DEF RoomsOf
    <3> QED BY <3>2 DEF HearsItsRooms
  <2> QED BY <2>1, <2>2
<1>2. ASSUME NEW up \in BOOLEAN, BroadcastIridiStatus(up) PROVE HearsItsRooms'
  <2> DEFINE m == [type |-> "iridiStatus", connected |-> up]
  <2>1. m \in Messages /\ BroadcastToBrowsers(m) /\ m.type = "iridiStatus"
    BY <1>2 DEF BroadcastIridiStatus, Messages, StatusMessages
  <2> HIDE DEF m
  <2>2. ASSUME NEW c \in Conns, sent'[c] # Null PROVE sent'[c].type = "iridiStatus"
    <3>1. sent'[c] = FilterForConnection(conn[c].allowed, m)
      BY <2>1, <2>2, Broadcast
    <3>2. conn[c].allowed \in AllowedSets
      BY <2>2 DEF TypeOK, ConnStates, AllowedSets
    <3> QED BY <2>1, <2>2, <3>1, <3>2, FilteredMessage
  <2> QED BY <2>2 DEF HearsItsRooms, RoomsOf
<1>3. ASSUME NEW c \in Conns, HandleConnection(c) PROVE HearsItsRooms'
  <2>1. \A e \in Conns : sent'[e] # Null => sent'[e].type = "iridiStatus"
    BY <1>3 DEF HandleConnection, Nothing
  <2> QED BY <2>1 DEF HearsItsRooms, RoomsOf
<1>4. ASSUME NEW c \in Conns,
             BeginClose(c) \/ Close(c) \/ \E m \in ClientMessages : FromBrowser(c, m)
      PROVE  HearsItsRooms'
  BY <1>4 DEF BeginClose, Close, FromBrowser, Nothing, HearsItsRooms
<1>5. CASE UNCHANGED vars
  BY <1>5 DEF vars, HearsItsRooms, RoomsOf
<1> QED BY <1>1, <1>2, <1>3, <1>4, <1>5 DEF Next, OnOpen, OnClose

\* A restricted browser hears of its own rooms only.
THEOREM HearsOnlyItsRooms == Spec => []HearsItsRooms
<1>1. Init => HearsItsRooms
  BY DEF Init, HearsItsRooms, Nothing
<1> QED BY <1>1, HearsStep, ListsRight, PTL DEF Spec

\* A command of a restricted connection that is allowed touches its rooms only.
LEMMA AllowedInScope ==
    ASSUME TypeOK, ListInv, NEW m \in ClientMessages, NEW allowed \in SUBSET Rooms,
           IsCommandAllowed(allowed, m)
    PROVE  RoomsTouched(m, lastList) \subseteq allowed
<1>1. allowed # Null
  BY GatewayAssumption
<1>2. ASSUME NEW d \in Devices, IsDeviceAllowed(allowed, d) PROVE lastList[d] \in allowed
  BY <1>1, <1>2 DEF IsDeviceAllowed, IsRoomAllowed, ListInv, CacheIsLastList, Rooming
<1>3. CASE m.type = "getRoomStatus"
  BY <1>1, <1>3 DEF IsCommandAllowed, IsRoomAllowed, RoomsTouched
<1>4. CASE m.type = "setDevice"
  <2>1. m.id \in Devices
    BY <1>4 DEF ClientMessages
  <2> QED BY <1>1, <1>2, <1>4, <2>1 DEF IsCommandAllowed, RoomsTouched
<1>5. CASE m.type = "saveScene"
  <2>1. m.ids \subseteq Devices
    BY <1>5 DEF ClientMessages
  <2> QED BY <1>1, <1>2, <1>5, <2>1 DEF IsCommandAllowed, RoomsTouched
<1>6. CASE m.type = "read"
  BY <1>6 DEF RoomsTouched
<1> QED BY <1>1, <1>3, <1>4, <1>5, <1>6 DEF IsCommandAllowed

LEMMA CommandsStep ==
    TypeOK /\ ListInv /\ CommandsItsRooms /\ [Next]_vars => CommandsItsRooms'
<1> SUFFICES ASSUME TypeOK, ListInv, CommandsItsRooms, [Next]_vars
             PROVE  CommandsItsRooms'
  OBVIOUS
<1>1. ASSUME NEW c \in Conns, NEW m \in ClientMessages, FromBrowser(c, m)
      PROVE  CommandsItsRooms'
  <2>1. CASE passed' = Null
    BY <2>1 DEF CommandsItsRooms
  <2>2. CASE /\ IsCommandAllowed(conn[c].allowed, m)
             /\ passed' = [allowed |-> conn[c].allowed, message |-> m]
    <3>1. conn[c].allowed \in {Null} \cup SUBSET Rooms /\ lastList' = lastList
      BY <1>1 DEF FromBrowser, TypeOK, ConnStates, lists
    <3> QED BY <2>2, <3>1, AllowedInScope DEF CommandsItsRooms
  <2> QED BY <1>1, <2>1, <2>2 DEF FromBrowser
<1>2. CASE UNCHANGED vars
  BY <1>2 DEF vars, CommandsItsRooms
<1>3. CASE passed' = Null
  BY <1>3 DEF CommandsItsRooms
<1> QED BY <1>1, <1>2, <1>3
        DEF Next, OnOpen, OnClose, BroadcastIridiStatus, OnMessage, HandleConnection,
            BeginClose, Close

\* A restricted browser commands its own rooms only.
THEOREM CommandsOnlyItsRooms == Spec => []CommandsItsRooms
<1>1. Init => CommandsItsRooms
  BY DEF Init, CommandsItsRooms
<1> QED BY <1>1, CommandsStep, ListsRight, PTL DEF Spec

LEMMA MissedStep == TypeOK /\ ListInv /\ NothingMissed /\ [Next]_vars => NothingMissed'
<1> SUFFICES ASSUME TypeOK, ListInv, NothingMissed, [Next]_vars PROVE NothingMissed'
  OBVIOUS
<1>1. ASSUME NEW m \in ServerMessages, OnMessage(m) PROVE NothingMissed'
  <2> SUFFICES ASSUME m.type = "liveStatusPush", NEW c \in Conns,
                      conn'[c].pc = "open", conn'[c].listed # Null,
                      m.id \in conn'[c].listed
               PROVE  sent'[c] = m
    BY <1>1 DEF OnMessage, NothingMissed
  <2>1. BroadcastToBrowsers(m) /\ m \in Messages
    BY <1>1 DEF OnMessage, Messages, ServerMessages, ListMessages
  <2>2. /\ conn[c].pc = "open" /\ conn[c] \in ConnStates
        /\ sent'[c] = FilterForConnection(conn[c].allowed, m)
        /\ conn'[c] = Informed(conn[c], sent'[c])
        /\ sent'[c] \in Messages \cup {Null}
    BY <2>1, Broadcast DEF TypeOK
  <2>3. sent'[c] = Null \/ sent'[c].type = m.type
    BY <2>1, <2>2, FilteredMessage DEF ConnStates, AllowedSets
  <2>4. conn[c].listed # Null /\ m.id \in conn[c].listed
    BY <2>2, <2>3, ListKept
  <2>5. m.id \in Shows(conn[c].allowed, lastList) /\ m.id \in Devices
    BY <2>2, <2>4 DEF ListInv, ListsShown, Shows
  <2>6. conn[c].allowed # Null =>
           deviceRoomById[m.id] # Null /\ deviceRoomById[m.id] \in conn[c].allowed
    BY <2>5, GatewayAssumption DEF Shows, ListInv, CacheIsLastList, Rooming
  <2> QED BY <2>2, <2>5, <2>6 DEF FilterForConnection, Passes, IsRoomAllowed
<1>2. CASE UNCHANGED vars
  BY <1>2 DEF vars, NothingMissed
<1>3. CASE incoming' = Null
  BY <1>3 DEF NothingMissed
<1> QED BY <1>1, <1>2, <1>3
        DEF Next, OnOpen, OnClose, BroadcastIridiStatus, HandleConnection,
            BeginClose, Close, FromBrowser

\* A browser that shows a device hears every live status of it.
THEOREM ShownIsHeard == Spec => []NothingMissed
<1>1. Init => NothingMissed
  BY DEF Init, NothingMissed
<1> QED BY <1>1, MissedStep, ListsRight, PTL DEF Spec

===============================================================================
