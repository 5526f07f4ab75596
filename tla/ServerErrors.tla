------------------------------ MODULE ServerErrors ------------------------------
(***************************************************************************)
(* WsGatewayService.tryHandleServerError: an error that the iRidium server *)
(* reports over the link becomes a notification of the administrators.  A  *)
(* crash of the process takes the link with it.                            *)
(***************************************************************************)
EXTENDS UpstreamConnection, AdminNotifications

errorVars == <<vars, noteVars>>

\* Commands and notifications meet in the socket only.  One or the other is
\* explored: commands with no notification yet, or notifications without commands.
NoNotesYet == note = [n \in Notes |-> "none"] /\ ~browser /\ mark = NoMark

NoCommands == sends = 0

ErrorsInit == Init /\ NotesInit

\* The message arrives on an open socket; the INSERT outlives the socket.
OnServerError(n) ==
    /\ \E s \in Sockets : readyState[s] = "open"
    /\ BeginInsert(n)

\* The process ends and is started again: attach() opens a new link.
Restart ==
    /\ Crash
    /\ \E s \in Sockets :
         /\ socket' = s
         /\ readyState' = [t \in Sockets |-> IF t = s THEN "connecting" ELSE "closed"]
    /\ connected' = FALSE /\ reconnectTimer' = FALSE
    /\ UNCHANGED <<pendingOutgoing, sends, wire, received>>

Notifications ==
    \/ \E n \in Notes : OnServerError(n) \/ InsertEnds(n) \/ Push(n)
    \/ List \/ MarkAllRead \/ MarkRead \/ PushMark
    \/ BrowserConnects \/ BrowserLeaves

Link ==
    \/ ReconnectTimerFires
    \/ NoNotesYet /\ Send
    \/ \E s \in Sockets : OnOpen(s) \/ OnError(s) \/ OnClose(s) \/ ServerReads(s)

ErrorsNext ==
    \/ Link /\ UNCHANGED noteVars
    \/ NoCommands /\ Notifications /\ UNCHANGED vars
    \/ NoCommands /\ Restart

\* The fairness of UpstreamConnection.
ErrorsSpec ==
    /\ ErrorsInit /\ [][ErrorsNext]_errorVars
    /\ WF_errorVars(ReconnectTimerFires /\ UNCHANGED noteVars)
    /\ WF_errorVars((\E s \in Sockets : OnClose(s)) /\ UNCHANGED noteVars)
    /\ WF_errorVars((\E s \in Sockets : ServerReads(s)) /\ UNCHANGED noteVars)
    /\ SF_errorVars((\E s \in Sockets : OnOpen(s)) /\ UNCHANGED noteVars)

===============================================================================
