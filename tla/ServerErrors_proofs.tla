------------------------- MODULE ServerErrors_proofs --------------------------
(***************************************************************************)
(* The upstream link for any set of sockets and any number of messages,    *)
(* the notifications for any number of them and any size of a page, and    *)
(* both together as ServerErrors runs them.                                *)
(***************************************************************************)
EXTENDS ServerErrors, FiniteSetTheorems, SequenceTheorems, TLAPS

-------------------------------------------------------------------------------
(* The link: at most one upstream socket, and every behaviour is one of the *)
(* outbox, so that nothing is reordered or repeated.                        *)

\* What ties this.socket, the sockets' states and the queue together:
\* this.socket is never a closed socket, only an open or closing socket carries
\* frames, and a socket that can be written to has emptied the queue.
Linked ==
    /\ HasSocket => readyState[socket] # "closed"
    /\ \A s \in Sockets :
          readyState[s] \in {"closed", "connecting"} => wire[s] = <<>>
    /\ CanWrite => pendingOutgoing = <<>>

LinkInv == TypeOK /\ OneUpstream /\ Linked

LEMMA LinkInvInit == Init => LinkInv
<1> SUFFICES ASSUME Init PROVE LinkInv
  OBVIOUS
<1>1. <<>> \in Seq(1 .. MaxSends)
  BY EmptySeq
<1>2. wire \in [Sockets -> Seq(1 .. MaxSends)]
  BY <1>1 DEF Init
<1>3. readyState \in [Sockets -> ReadyStates]
  BY DEF Init, ReadyStates
<1>4. sends \in 0 .. MaxSends
  BY UpstreamAssumption DEF Init
<1>5. TypeOK
  BY <1>1, <1>2, <1>3, <1>4 DEF Init, TypeOK
<1>6. OneUpstream
  BY DEF Init, OneUpstream
<1>7. Linked
  BY UpstreamAssumption DEF Init, Linked, HasSocket, CanWrite
<1> QED BY <1>5, <1>6, <1>7 DEF LinkInv

LEMMA LinkInvStep == LinkInv /\ [Next]_vars => LinkInv'
<1> SUFFICES ASSUME LinkInv, [Next]_vars PROVE LinkInv'
  OBVIOUS
<1> USE UpstreamAssumption
        DEF LinkInv, TypeOK, OneUpstream, Linked, ReadyStates, HasSocket, CanWrite
<1>1. CASE ReconnectTimerFires
  <2>1. PICK t \in Sockets : Connect(t)
    BY <1>1 DEF ReconnectTimerFires
  <2>2. TypeOK'
    BY <1>1, <2>1 DEF ReconnectTimerFires, Connect
  <2>3. OneUpstream'
    BY <1>1, <2>1 DEF ReconnectTimerFires, Connect
  <2>4. Linked'
    BY <1>1, <2>1 DEF ReconnectTimerFires, Connect
  <2> QED BY <2>2, <2>3, <2>4
<1>2. CASE Send
  <2>1. Submitted \in 1 .. MaxSends /\ sends' \in 0 .. MaxSends
    BY <1>2 DEF Send, Submitted
  <2>2. pendingOutgoing' \in Seq(1 .. MaxSends)
    <3>1. Append(pendingOutgoing, Submitted) \in Seq(1 .. MaxSends)
      BY <2>1, AppendProperties
    <3> QED BY <1>2, <3>1 DEF Send
  <2>3. wire' \in [Sockets -> Seq(1 .. MaxSends)]
    <3>1. CASE UNCHANGED wire
      BY <3>1
    <3>2. CASE CanWrite /\ wire' = [wire EXCEPT ![socket] = Append(@, Submitted)]
      <4>1. socket \in Sockets /\ wire[socket] \in Seq(1 .. MaxSends)
        BY <3>2
      <4>2. Append(wire[socket], Submitted) \in Seq(1 .. MaxSends)
        BY <4>1, <2>1, AppendProperties
      <4> HIDE DEF CanWrite
      <4> QED BY <3>2, <4>1, <4>2
    <3> QED BY <1>2, <3>1, <3>2 DEF Send
  <2>4. TypeOK'
    BY <1>2, <2>1, <2>2, <2>3 DEF Send
  <2>5. OneUpstream'
    BY <1>2 DEF Send
  <2>6. Linked'
    BY <1>2 DEF Send
  <2> QED BY <2>4, <2>5, <2>6
<1>3. ASSUME NEW s \in Sockets, OnOpen(s) PROVE LinkInv'
  <2>1. wire[s] \o pendingOutgoing \in Seq(1 .. MaxSends)
    BY ConcatProperties
  <2>2. wire' \in [Sockets -> Seq(1 .. MaxSends)]
    BY <1>3, <2>1 DEF OnOpen
  <2>3. pendingOutgoing' \in Seq(1 .. MaxSends)
    BY <1>3, EmptySeq DEF OnOpen
  <2>4. TypeOK'
    BY <1>3, <2>2, <2>3 DEF OnOpen
  <2>5. OneUpstream'
    BY <1>3 DEF OnOpen
  <2>6. Linked'
    BY <1>3 DEF OnOpen
  <2> QED BY <2>4, <2>5, <2>6
<1>4. ASSUME NEW s \in Sockets, OnError(s) PROVE LinkInv'
  <2>1. TypeOK'
    BY <1>4 DEF OnError
  <2>2. OneUpstream'
    BY <1>4 DEF OnError
  <2>3. Linked'
    BY <1>4 DEF OnError
  <2> QED BY <2>1, <2>2, <2>3
<1>5. ASSUME NEW s \in Sockets, OnClose(s) PROVE LinkInv'
  <2>1. TypeOK'
    <3>1. wire' \in [Sockets -> Seq(1 .. MaxSends)]
      BY <1>5, EmptySeq DEF OnClose
    <3> QED BY <1>5, <3>1 DEF OnClose, ScheduleReconnect
  <2>2. OneUpstream'
    BY <1>5 DEF OnClose, ScheduleReconnect
  <2>3. Linked'
    BY <1>5 DEF OnClose, ScheduleReconnect
  <2> QED BY <2>1, <2>2, <2>3
<1>6. ASSUME NEW s \in Sockets, ServerReads(s) PROVE LinkInv'
  <2>1. /\ Head(wire[s]) \in 1 .. MaxSends
        /\ Tail(wire[s]) \in Seq(1 .. MaxSends)
    BY <1>6, HeadTailProperties DEF ServerReads
  <2>2. received' \in Seq(1 .. MaxSends)
    BY <1>6, <2>1, AppendProperties DEF ServerReads
  <2>3. wire' \in [Sockets -> Seq(1 .. MaxSends)]
    BY <1>6, <2>1 DEF ServerReads
  <2>4. TypeOK'
    BY <1>6, <2>2, <2>3 DEF ServerReads
  <2>5. OneUpstream'
    BY <1>6 DEF ServerReads
  <2>6. Linked'
    BY <1>6 DEF ServerReads
  <2> QED BY <2>4, <2>5, <2>6
<1>7. CASE UNCHANGED vars
  BY <1>7 DEF vars
<1> QED BY <1>1, <1>2, <1>3, <1>4, <1>5, <1>6, <1>7 DEF Next

LEMMA LinkInvAlways == SafeSpec => []LinkInv
BY LinkInvInit, LinkInvStep, PTL DEF SafeSpec

\* Every variable of the link keeps its type.
THEOREM TypeCorrect == Spec => []TypeOK
<1>1. LinkInv => TypeOK
  BY DEF LinkInv
<1> QED BY <1>1, LinkInvAlways, PTL DEF Spec

\* However errors, closes and the reconnect timer interleave, the process never
\* holds two upstream sockets, nor one beside a pending reconnect.
THEOREM NeverTwoUpstreams == Spec => []OneUpstream
<1>1. LinkInv => OneUpstream
  BY DEF LinkInv
<1> QED BY <1>1, LinkInvAlways, PTL DEF Spec

\* What QueueIsKept says of a step.
QueueKept ==
    \A m \in Range(pendingOutgoing) :
        \/ m \in Range(pendingOutgoing')
        \/ \E s \in Sockets : m \in Range(wire'[s])

LEMMA QueueStep == LinkInv /\ [Next]_vars => [QueueKept]_vars
<1>1. ASSUME LinkInv, [Next]_vars, NEW m \in Range(pendingOutgoing)
      PROVE  \/ m \in Range(pendingOutgoing')
             \/ \E s \in Sockets : m \in Range(wire'[s])
  <2>1. CASE UNCHANGED pendingOutgoing
    BY <1>1, <2>1
  <2>2. CASE Send /\ pendingOutgoing' = Append(pendingOutgoing, Submitted)
    <3>1. PICK i \in DOMAIN pendingOutgoing : m = pendingOutgoing[i]
      BY <1>1 DEF Range
    <3>2. i \in 1 .. Len(pendingOutgoing)
      BY <1>1, <3>1 DEF LinkInv, TypeOK
    <3>3. Submitted \in 1 .. MaxSends
      BY <1>1, <2>2, UpstreamAssumption DEF LinkInv, TypeOK, Send, Submitted
    <3>4. /\ pendingOutgoing' \in Seq(1 .. MaxSends)
          /\ Len(pendingOutgoing') = Len(pendingOutgoing) + 1
          /\ pendingOutgoing'[i] = m
      BY <1>1, <2>2, <3>1, <3>2, <3>3, AppendProperties DEF LinkInv, TypeOK
    <3>5. i \in DOMAIN pendingOutgoing'
      BY <3>2, <3>4, LenProperties
    <3> QED BY <3>4, <3>5 DEF Range
  <2>3. ASSUME NEW s \in Sockets, OnOpen(s)
        PROVE  m \in Range(wire'[s])
    <3>1. wire[s] = <<>>
      BY <1>1, <2>3 DEF LinkInv, Linked, OnOpen
    <3>2. wire[s] \o pendingOutgoing = pendingOutgoing
      BY <1>1, <3>1, ConcatEmptySeq DEF LinkInv, TypeOK
    <3>3. wire'[s] = pendingOutgoing
      BY <1>1, <2>3, <3>2 DEF LinkInv, TypeOK, OnOpen
    <3> QED BY <1>1, <3>3
  <2>4. ReconnectTimerFires => UNCHANGED pendingOutgoing
    BY DEF ReconnectTimerFires
  <2>5. Send => \/ UNCHANGED pendingOutgoing
                \/ pendingOutgoing' = Append(pendingOutgoing, Submitted)
    BY DEF Send
  <2>6. \A s \in Sockets :
           OnError(s) \/ OnClose(s) \/ ServerReads(s) => UNCHANGED pendingOutgoing
    BY DEF OnError, OnClose, ServerReads
  <2>7. UNCHANGED vars => UNCHANGED pendingOutgoing
    BY DEF vars
  <2> QED BY <1>1, <2>1, <2>2, <2>3, <2>4, <2>5, <2>6, <2>7 DEF Next
<1> QED BY <1>1 DEF QueueKept

\* No handler drops a queued message: it stays in the queue until it is written
\* to a socket that has just opened.
THEOREM NothingDropped == Spec => QueueIsKept
<1>1. [][QueueKept]_vars => QueueIsKept
  BY DEF QueueKept, QueueIsKept
<1> QED BY <1>1, LinkInvAlways, QueueStep, PTL DEF Spec, SafeSpec

-------------------------------------------------------------------------------
LEMMA OutboxInit == Init => Promise!Init
BY UpstreamAssumption DEF Init, Promise!Init, Transit, HasSocket

\* Every handler is a step of the outbox, or changes nothing the outbox sees.
LEMMA OutboxStep == LinkInv /\ [Next]_vars => [Promise!Next]_(Promise!vars)
<1> SUFFICES ASSUME LinkInv, [Next]_vars
             PROVE  Promise!Next \/ UNCHANGED Promise!vars
  OBVIOUS
<1> USE UpstreamAssumption DEF LinkInv, OneUpstream, Linked, HasSocket, Transit
<1>1. CASE ReconnectTimerFires
  <2>1. PICK t \in Sockets : Connect(t)
    BY <1>1 DEF ReconnectTimerFires
  <2>2. Transit = <<>>
    BY <1>1 DEF ReconnectTimerFires, TypeOK
  <2>3. Transit' = <<>>
    BY <1>1, <2>1 DEF ReconnectTimerFires, Connect
  <2> QED BY <1>1, <2>2, <2>3 DEF ReconnectTimerFires, Promise!vars
<1>2. CASE Send
  <2>1. CASE CanWrite
    <3>1. pendingOutgoing = <<>> /\ UNCHANGED pendingOutgoing
      BY <1>2, <2>1 DEF Send
    <3>2. Transit' = Append(Transit, sends')
      BY <1>2, <2>1 DEF Send, CanWrite, TypeOK, Submitted
    <3> QED BY <1>2, <3>1, <3>2 DEF Send, Promise!Next, Promise!Submit
  <2>2. CASE ~CanWrite
    <3>1. UNCHANGED Transit
      BY <1>2, <2>2 DEF Send
    <3> QED BY <1>2, <2>2, <3>1
            DEF Send, Submitted, Promise!Next, Promise!Submit
  <2> QED BY <2>1, <2>2
<1>3. ASSUME NEW s \in Sockets, OnOpen(s)
      PROVE  Promise!Next \/ UNCHANGED Promise!vars
  <2>1. socket = s /\ socket' = s /\ wire[s] = <<>>
    BY <1>3 DEF OnOpen
  <2>2. wire[s] \o pendingOutgoing = pendingOutgoing
    BY <2>1, ConcatEmptySeq DEF TypeOK
  <2>3. Transit = <<>> /\ Transit' = pendingOutgoing
    BY <1>3, <2>1, <2>2 DEF OnOpen, TypeOK
  <2> QED BY <1>3, <2>3
          DEF OnOpen, Promise!Next, Promise!Release, Promise!vars
<1>4. ASSUME NEW s \in Sockets, OnError(s)
      PROVE  Promise!Next \/ UNCHANGED Promise!vars
  BY <1>4 DEF OnError, Promise!vars
<1>5. ASSUME NEW s \in Sockets, OnClose(s)
      PROVE  Promise!Next \/ UNCHANGED Promise!vars
  <2>1. Transit' = <<>>
    BY <1>5 DEF OnClose, ScheduleReconnect
  <2> QED BY <1>5, <2>1 DEF OnClose, Promise!Next, Promise!Lose, Promise!vars
<1>6. ASSUME NEW s \in Sockets, ServerReads(s)
      PROVE  Promise!Next \/ UNCHANGED Promise!vars
  <2>1. Transit = wire[s] /\ Transit' = Tail(wire[s])
    BY <1>6 DEF ServerReads, TypeOK
  <2> QED BY <1>6, <2>1 DEF ServerReads, Promise!Next, Promise!Deliver
<1>7. CASE UNCHANGED vars
  BY <1>7 DEF vars, Promise!vars
<1> QED BY <1>1, <1>2, <1>3, <1>4, <1>5, <1>6, <1>7 DEF Next

\* The link implements the safety part of the outbox: what is lost is only what
\* was in flight on a connection that ended, whatever the handlers' order.
THEOREM LinkIsOutbox == Spec => Promise!SafeSpec
BY OutboxInit, OutboxStep, LinkInvAlways, PTL DEF Spec, SafeSpec, Promise!SafeSpec

Ordered == INSTANCE Outbox_proofs WITH
    submitted <- sends,
    backlog <- pendingOutgoing,
    flight <- Transit,
    delivered <- received

\* What the outbox promises of its sequences holds of the link's.
LEMMA OutboxInOrder == Promise!SafeSpec => []InOrder
<1>1. Promise!Init => Ordered!OutboxInv
  BY Ordered!OutboxInvInit, UpstreamAssumption DEF Promise!Init, Ordered!Init
<1>2. Ordered!OutboxInv /\ [Promise!Next]_(Promise!vars) => Ordered!OutboxInv'
  BY Ordered!OutboxInvStep, UpstreamAssumption
     DEF Promise!Next, Promise!Submit, Promise!Release, Promise!Deliver,
         Promise!Lose, Promise!vars, Ordered!Next, Ordered!Submit,
         Ordered!Release, Ordered!Deliver, Ordered!Lose, Ordered!vars
<1>3. Ordered!OutboxInv => InOrder
  BY DEF Ordered!OutboxInv, Ordered!NothingOvertakes, InOrder,
         Promise!NothingOvertakes, Ordered!Increasing, Promise!Increasing,
         Ordered!Before, Promise!Before
<1> QED BY <1>1, <1>2, <1>3, PTL DEF Promise!SafeSpec

\* The iRidium server reads the messages in the order of the send() calls and
\* none twice, across any number of reconnects.
THEOREM NeverReordered == Spec => []InOrder
BY LinkIsOutbox, OutboxInOrder, PTL

-------------------------------------------------------------------------------
(* Notifications                                                           *)

NotesTyped ==
    /\ note \in [Notes -> {"none", "inserting", "stored", "pushed", "silent", "failed"}]
    /\ read \subseteq InTable
    /\ browser \in BOOLEAN
    /\ told \subseteq Notes
    /\ before \in 0 .. MaxNotes + 1
    /\ said \in [Notes -> {"nothing", "unread", "read"}]

\* What is not below the next page has been told, unless its push is to come.
ToldSoFar ==
    browser => \A n \in InTable : n >= before /\ note[n] # "stored" => n \in told

\* A page has been asked for only by a browser that is open.
NotAskedYet == ~browser => before = MaxNotes + 1

UnseenInv == NotesTyped /\ ToldSoFar /\ NotAskedYet

LEMMA NotesFinite == ASSUME NEW ids \in SUBSET Notes PROVE IsFiniteSet(ids)
<1>1. 1 \in Int /\ MaxNotes \in Int
  BY NotesAssumption
<1>2. IsFiniteSet(Notes)
  BY <1>1, FS_Interval DEF Notes
<1> QED
  BY <1>2, FS_Subset

LEMMA InitUnseen == NotesInit => UnseenInv
<1> SUFFICES ASSUME NotesInit PROVE UnseenInv
  OBVIOUS
<1>1. before = MaxNotes + 1 /\ before \in 0 .. MaxNotes + 1
  BY NotesAssumption DEF NotesInit
<1> QED
  BY <1>1 DEF NotesInit, UnseenInv, NotesTyped, ToldSoFar, NotAskedYet, InTable

\* A page tells what lies between its last row and the page before, or all that
\* is left.
LEMMA ListKeepsTold ==
  ASSUME UnseenInv, List
  PROVE  UnseenInv'
<1> USE NotesAssumption
<1> DEFINE ids == {n \in InTable : n < before}
<1>1. PICK rows \in SUBSET ids, page \in SUBSET ids :
        /\ IsLatest(rows, FetchLimit, ids)
        /\ IsLatest(page, PageLimit, rows)
        /\ told' = told \cup page
        /\ IF Cardinality(rows) > PageLimit
           THEN \E last \in page : (\A n \in page : last <= n) /\ before' = last
           ELSE before' = 0
  BY DEF List, IsLatest
<1>2. /\ UNCHANGED <<note, read, mark, browser, said, crossed>>
      /\ InTable' = InTable /\ InTable \subseteq Notes
      /\ browser
  BY DEF List, InTable
<1>3. page \subseteq rows /\ page \subseteq Notes /\ page \subseteq InTable
  BY <1>1, <1>2 DEF IsLatest
<1>4. NotesTyped'
  BY <1>1, <1>2, <1>3 DEF UnseenInv, NotesTyped, Notes
<1>5. ASSUME NEW n \in ids, n >= before'
      PROVE  n \in page
  <2>0. n \in Notes
    BY <1>2
  <2>1. CASE Cardinality(rows) > PageLimit
    <3>1. PICK last \in page : before' = last
      BY <1>1, <2>1
    <3>2. last \in ids /\ last \in rows
      BY <1>1, <1>3
    <3>3. n = last \/ n > last
      BY <1>2, <1>3, <1>5, <2>0, <3>1 DEF Notes
    <3>4. n \in rows
      BY <1>1, <3>2, <3>3 DEF IsLatest
    <3> QED
      BY <1>1, <3>3, <3>4 DEF IsLatest
  <2>2. CASE ~(Cardinality(rows) > PageLimit)
    <3>1. IsFiniteSet(rows)
      BY <1>1, <1>2, NotesFinite
    <3>2. IsFiniteSet(page) /\ Cardinality(page) \in Nat /\ Cardinality(rows) \in Nat
      BY <3>1, <1>3, FS_Subset, FS_CardinalityType
    <3>3. rows = ids
      BY <1>1, <2>2, <3>2 DEF IsLatest, FetchLimit
    <3>4. page = rows
      <4>1. CASE page # rows
        <5>1. /\ Cardinality(page) <= Cardinality(rows)
              /\ Cardinality(page) # Cardinality(rows)
          BY <1>3, <3>1, <4>1, FS_Subset
        <5>2. Cardinality(page) = PageLimit
          BY <1>1, <4>1 DEF IsLatest
        <5> QED
          BY <2>2, <3>2, <5>1, <5>2
      <4> QED
        BY <4>1
    <3> QED
      BY <3>3, <3>4
  <2> QED
    BY <2>1, <2>2
<1>6. ToldSoFar'
  <2> SUFFICES ASSUME NEW n \in InTable, n >= before', note[n] # "stored"
               PROVE  n \in told'
    BY <1>2 DEF ToldSoFar
  <2>1. CASE n < before
    BY <1>1, <1>5, <2>1
  <2>2. CASE n >= before
    BY <1>1, <1>2, <2>2 DEF UnseenInv, ToldSoFar
  <2> QED
    BY <1>2, <2>1, <2>2 DEF UnseenInv, NotesTyped, Notes
<1>7. NotAskedYet'
  BY <1>2 DEF NotAskedYet
<1> QED
  BY <1>4, <1>6, <1>7 DEF UnseenInv

LEMMA UnseenStep == UnseenInv /\ [NotesNext]_noteVars => UnseenInv'
<1> SUFFICES ASSUME UnseenInv, [NotesNext]_noteVars PROVE UnseenInv'
  OBVIOUS
<1> USE NotesAssumption
<1> USE DEF UnseenInv, NotesTyped, ToldSoFar, NotAskedYet, InTable, Notes
<1>1. ASSUME NEW n \in Notes, BeginInsert(n) PROVE UnseenInv'
  BY <1>1 DEF BeginInsert
<1>2. ASSUME NEW n \in Notes, InsertEnds(n) PROVE UnseenInv'
  BY <1>2 DEF InsertEnds
<1>3. ASSUME NEW n \in Notes, Push(n) PROVE UnseenInv'
  BY <1>3 DEF Push
<1>4. CASE List
  BY <1>4, ListKeepsTold
<1>5. ASSUME NEW ids, Update(ids) PROVE UnseenInv'
  BY <1>5 DEF Update
<1>6. CASE PushMark
  BY <1>6 DEF PushMark
<1>7. CASE BrowserConnects
  BY <1>7 DEF BrowserConnects
<1>8. CASE BrowserLeaves
  <2>1. before' \in 0 .. MaxNotes + 1
    BY <1>8 DEF BrowserLeaves, Forgetting
  <2> QED
    BY <1>8, <2>1 DEF BrowserLeaves, Forgetting
<1>9. CASE Crash
  <2>1. before' \in 0 .. MaxNotes + 1
    BY <1>9 DEF Crash, Forgetting
  <2>2. /\ note' \in [Notes -> {"none", "inserting", "stored", "pushed", "silent", "failed"}]
        /\ InTable \subseteq InTable'
    BY <1>9 DEF Crash
  <2> QED
    BY <1>9, <2>1, <2>2 DEF Crash, Forgetting
<1>10. CASE UNCHANGED noteVars
  BY <1>10 DEF noteVars
<1> QED
  BY <1>1, <1>2, <1>3, <1>4, <1>5, <1>6, <1>7, <1>8, <1>9, <1>10
  DEF NotesNext, MarkAllRead, MarkRead

LEMMA UnseenInvariant == NotesSpec => []UnseenInv
<1> QED
  BY InitUnseen, UnseenStep, PTL DEF NotesSpec

\* A browser that has paged to the end misses no notification, however inserts,
\* pushes, pages and crashes interleave.
THEOREM AllSeen == NotesSpec => []NothingUnseen
<1>1. UnseenInv => NothingUnseen
  BY DEF UnseenInv, NotesTyped, ToldSoFar, NothingUnseen, InTable, Notes
<1> QED
  BY <1>1, UnseenInvariant, PTL

-------------------------------------------------------------------------------
\* Pushes speak of notifications that were pushed; a mark has set what it will
\* announce, unless the two overlapped.
SaidAfterPush ==
    \A n \in Notes : said[n] # "nothing" => browser /\ note[n] = "pushed"

UnpushedUnread ==
    \A n \in Notes : note[n] = "stored" /\ n \in read => n \in crossed

MarkedIsRead ==
    \A n \in Notes : n \in mark \ crossed =>
        n \in read \/ note[n] \in {"none", "failed"}

AgreeInv ==
    UnseenInv /\ SaidAfterPush /\ UnpushedUnread /\ MarkedIsRead /\ PushesAgree

LEMMA AgreeInit == NotesInit => AgreeInv
  BY InitUnseen
  DEF NotesInit, AgreeInv, SaidAfterPush, UnpushedUnread, MarkedIsRead, PushesAgree,
      NoMark, Notes

LEMMA AgreeStep == AgreeInv /\ [NotesNext]_noteVars => AgreeInv'
<1> SUFFICES ASSUME AgreeInv, [NotesNext]_noteVars PROVE AgreeInv'
  OBVIOUS
<1>0. UnseenInv'
  BY UnseenStep DEF AgreeInv
<1> USE NotesAssumption
<1> USE DEF AgreeInv, UnseenInv, NotesTyped, SaidAfterPush, UnpushedUnread, MarkedIsRead,
            PushesAgree, NoMark, Notes
<1>1. ASSUME NEW n \in Notes, BeginInsert(n) PROVE AgreeInv'
  BY <1>0, <1>1 DEF BeginInsert, InTable
<1>2. ASSUME NEW n \in Notes, InsertEnds(n) PROVE AgreeInv'
  BY <1>0, <1>2 DEF InsertEnds, InTable
<1>3. ASSUME NEW n \in Notes, Push(n) PROVE AgreeInv'
  BY <1>0, <1>3 DEF Push
<1>4. CASE List
  BY <1>0, <1>4 DEF List
<1>5. ASSUME NEW ids, Update(ids) PROVE AgreeInv'
  BY <1>0, <1>5 DEF Update, InTable
<1>6. CASE PushMark
  <2>1. /\ UNCHANGED <<note, read, crossed>>
        /\ mark' = {0}
        /\ said' = [n \in Notes |-> IF browser /\ n \in mark /\ said[n] # "nothing"
                                    THEN "read" ELSE said[n]]
    BY <1>6 DEF PushMark
  <2>2. UnpushedUnread' /\ MarkedIsRead'
    BY <2>1
  <2>3. SaidAfterPush'
    <3> SUFFICES ASSUME NEW n \in Notes, said'[n] # "nothing"
                 PROVE  browser' /\ note'[n] = "pushed"
      OBVIOUS
    <3>1. said[n] # "nothing"
      BY <2>1
    <3>2. browser' = browser
      BY <1>6 DEF PushMark
    <3> QED
      BY <2>1, <3>1, <3>2
  <2>4. PushesAgree'
    <3> SUFFICES ASSUME NEW n \in Notes, said'[n] # "nothing", n \notin crossed
                 PROVE  said'[n] = "read" <=> n \in read
      BY <2>1
    <3>1. browser /\ said[n] # "nothing" /\ note[n] = "pushed"
      BY <2>1
    <3>2. CASE n \in mark
      BY <2>1, <3>1, <3>2
    <3>3. CASE n \notin mark
      BY <2>1, <3>1, <3>3
    <3> QED
      BY <3>2, <3>3
  <2> QED
    BY <1>0, <2>2, <2>3, <2>4
<1>7. CASE BrowserConnects
  BY <1>0, <1>7 DEF BrowserConnects
<1>8. CASE BrowserLeaves
  BY <1>0, <1>8 DEF BrowserLeaves, Forgetting
<1>9. CASE Crash
  BY <1>0, <1>9 DEF Crash, Forgetting
<1>10. CASE UNCHANGED noteVars
  BY <1>0, <1>10 DEF noteVars
<1> QED
  BY <1>1, <1>2, <1>3, <1>4, <1>5, <1>6, <1>7, <1>8, <1>9, <1>10
  DEF NotesNext, MarkAllRead, MarkRead

\* The pushes tell the read state that is stored, but for marks that overlap an
\* insertion.
THEOREM PushesTrue == NotesSpec => []PushesAgree
<1>1. AgreeInv => PushesAgree
  BY DEF AgreeInv
<1> QED
  BY <1>1, AgreeInit, AgreeStep, PTL DEF NotesSpec

-------------------------------------------------------------------------------
(* Both together, and restarts of the process                              *)

\* Before the first command nothing is queued and nothing is on the way.
Silent == sends = 0 => pendingOutgoing = <<>> /\ \A s \in Sockets : wire[s] = <<>>

LEMMA SilentStep == LinkInv /\ Silent /\ [Next]_vars => Silent'
<1> SUFFICES ASSUME LinkInv, Silent, [Next]_vars, sends' = 0
             PROVE  pendingOutgoing' = <<>> /\ \A s \in Sockets : wire'[s] = <<>>
  BY DEF Silent
<1>1. CASE sends' = sends + 1
  BY <1>1, UpstreamAssumption DEF LinkInv, TypeOK
<1>2. CASE sends' = sends
  <2>1. pendingOutgoing = <<>> /\ \A s \in Sockets : wire[s] = <<>>
    BY <1>2 DEF Silent
  <2>2. ASSUME NEW s \in Sockets, OnOpen(s)
        PROVE  pendingOutgoing' = <<>> /\ \A t \in Sockets : wire'[t] = <<>>
    <3>1. <<>> \o <<>> = <<>>
      OBVIOUS
    <3> QED BY <2>1, <2>2, <3>1 DEF OnOpen, LinkInv, TypeOK
  <2>3. ASSUME NEW s \in Sockets, OnClose(s)
        PROVE  pendingOutgoing' = <<>> /\ \A t \in Sockets : wire'[t] = <<>>
    BY <2>1, <2>3 DEF OnClose, LinkInv, TypeOK
  <2>4. ~Send
    BY <1>2, UpstreamAssumption DEF Send, LinkInv, TypeOK
  <2>5. \A s \in Sockets : ~ServerReads(s)
    BY <2>1 DEF ServerReads
  <2>6. ReconnectTimerFires \/ (\E s \in Sockets : OnError(s)) \/ UNCHANGED vars
           => UNCHANGED <<pendingOutgoing, wire>>
    BY DEF ReconnectTimerFires, OnError, vars
  <2> QED BY <2>1, <2>2, <2>3, <2>4, <2>5, <2>6 DEF Next
<1>3. sends' = sends + 1 \/ sends' = sends
  BY DEF Next, vars, ReconnectTimerFires, Send, OnOpen, OnError, OnClose, ServerReads
<1> QED BY <1>1, <1>2, <1>3

\* A restart before the first command leaves one socket, and nothing to lose.
LEMMA RestartStep ==
    ASSUME LinkInv, Silent, NoCommands, Restart
    PROVE  LinkInv' /\ Silent' /\ QueueKept /\ UNCHANGED Promise!vars
<1> USE DEF LinkInv, NoCommands
<1>1. pendingOutgoing = <<>> /\ \A s \in Sockets : wire[s] = <<>>
  BY DEF Silent
<1>2. PICK s \in Sockets :
         /\ socket' = s
         /\ readyState' = [t \in Sockets |-> IF t = s THEN "connecting" ELSE "closed"]
  BY DEF Restart
<1>3. /\ connected' = FALSE /\ reconnectTimer' = FALSE
      /\ UNCHANGED <<pendingOutgoing, sends, wire, received>>
  BY DEF Restart
<1>4. TypeOK'
  <2>1. readyState' \in [Sockets -> ReadyStates]
    BY <1>2 DEF ReadyStates
  <2>2. connected' \in BOOLEAN /\ reconnectTimer' \in BOOLEAN
    BY <1>3
  <2> QED BY <1>2, <1>3, <2>1, <2>2 DEF TypeOK
<1>5. OneUpstream'
  BY <1>2, <1>3 DEF OneUpstream
<1>6. Linked'
  BY <1>1, <1>2, <1>3 DEF Linked, HasSocket, CanWrite
<1>7. Transit = <<>> /\ Transit' = <<>>
  BY <1>1, <1>2, <1>3 DEF Transit, HasSocket, TypeOK
<1> QED BY <1>1, <1>3, <1>4, <1>5, <1>6, <1>7 DEF Silent, QueueKept, Promise!vars

LEMMA ErrorsStep ==
    LinkInv /\ Silent /\ [ErrorsNext]_errorVars
        => LinkInv' /\ Silent' /\ [QueueKept]_vars /\ [Promise!Next]_(Promise!vars)
<1> SUFFICES ASSUME LinkInv, Silent, [ErrorsNext]_errorVars
             PROVE  LinkInv' /\ Silent' /\ [QueueKept]_vars
                    /\ [Promise!Next]_(Promise!vars)
  OBVIOUS
<1>1. CASE [Next]_vars
  BY <1>1, LinkInvStep, SilentStep, QueueStep, OutboxStep
<1>2. CASE NoCommands /\ Restart
  BY <1>2, RestartStep
<1> QED BY <1>1, <1>2 DEF ErrorsNext, Link, Next, errorVars

\* Beside the notifications, and when the process is restarted before its first
\* command, there is one upstream socket at most as well, no message is reordered,
\* and none is dropped from the queue.
THEOREM LinkAcrossRestarts ==
    ErrorsSpec => []TypeOK /\ []OneUpstream /\ []InOrder /\ QueueIsKept
<1>1. ErrorsInit => LinkInv /\ Silent /\ Promise!Init
  BY LinkInvInit, OutboxInit DEF ErrorsInit, Init, Silent
<1>2. ErrorsSpec => /\ [](LinkInv /\ Silent) /\ [][QueueKept]_vars
                    /\ Promise!SafeSpec
  BY <1>1, ErrorsStep, PTL DEF ErrorsSpec, Promise!SafeSpec
<1>3. LinkInv => TypeOK /\ OneUpstream
  BY DEF LinkInv
<1>4. [][QueueKept]_vars => QueueIsKept
  BY DEF QueueKept, QueueIsKept
<1> QED BY <1>2, <1>3, <1>4, OutboxInOrder, PTL

\* The notifications keep their own specification beside the link, hence a
\* browser misses nothing and is told the truth while the link comes and goes.
THEOREM NotesBesideLink == ErrorsSpec => NotesSpec
<1>1. ErrorsInit => NotesInit
  BY DEF ErrorsInit
<1>2. [ErrorsNext]_errorVars => [NotesNext]_noteVars
  BY DEF ErrorsNext, Notifications, OnServerError, Restart, NotesNext, errorVars
<1> QED BY <1>1, <1>2, PTL DEF ErrorsSpec, NotesSpec

===============================================================================
