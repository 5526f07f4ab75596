------------------------------- MODULE WsAccess -------------------------------
(***************************************************************************)
(* WsGatewayService: the browsers' connections, and the rights each of     *)
(* them took from the database when it was upgraded, beside the            *)
(* administrators' operations of AdminUsers, which close them.             *)
(***************************************************************************)
EXTENDS AdminUsers

CONSTANT Conns            \* upgrades and connections at the same time

VARIABLE conn             \* browserConnections, and the upgrades under way

accessVars == <<vars, conn>>

\* allowedScopes = null: the connection is not restricted.
Unrestricted == [restricted |-> FALSE, scopes |-> {}]

Only(list) == [restricted |-> TRUE, scopes |-> list]

NoConn == [pc |-> "idle", user |-> NoUser, role |-> "user",
           allowed |-> Unrestricted, raced |-> FALSE]

AccessInit == Init /\ conn = [c \in Conns |-> NoConn]

Reject(c) == conn' = [conn EXCEPT ![c] = NoConn]

\* handleUpgrade(): the cookie resolves to a session, and a session to a user
\* that exists (ON DELETE CASCADE).
ResolveSession(c) ==
    /\ conn[c].pc = "idle"
    /\ \E u \in Users :
         /\ Exists(u)
         /\ conn' = [conn EXCEPT ![c] = [NoConn EXCEPT !.pc = "session", !.user = u]]

\* findUserById(): the row is read, and used when the answer is back.
LoadUser(c) ==
    LET u == conn[c].user IN
    /\ conn[c].pc = "session"
    /\ IF ~Exists(u) \/ ~user[u].active
       THEN Reject(c)
       ELSE conn' = [conn EXCEPT
                ![c].pc = IF user[u].restricted THEN "restricted" ELSE "ready",
                ![c].role = user[u].role]

\* getScopesForUser(), for a restricted user only.
LoadScopes(c) ==
    /\ conn[c].pc = "restricted"
    /\ conn' = [conn EXCEPT ![c].pc = "ready",
                            ![c].allowed = Only(scopes[conn[c].user])]

\* handleConnection(): the connection joins browserConnections.
Open(c) ==
    /\ conn[c].pc = "ready"
    /\ conn' = [conn EXCEPT ![c].pc = "open"]

\* The browser leaves, the handshake of a close() ends, or a query of the
\* upgrade fails and the socket is destroyed.
Close(c) ==
    /\ conn[c].pc # "idle"
    /\ Reject(c)

\* disconnectUser(): close() on what is in browserConnections.  An upgrade that
\* has read the row already is not there yet; "raced" remembers it.
CloseRestricted(u) ==
    [c \in Conns |->
        IF conn[c].user # u THEN conn[c]
        ELSE IF conn[c].pc = "open" /\ conn[c].allowed.restricted
             THEN [conn[c] EXCEPT !.pc = "closing"]
        ELSE IF conn[c].pc \in {"restricted", "ready"}
             THEN [conn[c] EXCEPT !.raced = TRUE]
        ELSE conn[c]]

CloseConnections(u) ==
    [c \in Conns |->
        IF conn[c].user # u THEN conn[c]
        ELSE IF conn[c].pc = "open" THEN [conn[c] EXCEPT !.pc = "closing"]
        ELSE IF conn[c].pc \in {"restricted", "ready"}
             THEN [conn[c] EXCEPT !.raced = TRUE]
        ELSE conn[c]]

Upgrade(c) == ResolveSession(c) \/ LoadUser(c) \/ LoadScopes(c) \/ Open(c) \/ Close(c)

AccessNext ==
    \/ \E o \in Ops :
         \/ (Request(o) \/ Proceed(o)) /\ UNCHANGED conn
         \/ Disconnect(o) /\ conn' = CloseConnections(op[o].target)
    \/ \E c \in Conns : Upgrade(c) /\ UNCHANGED vars

AccessSpec == AccessInit /\ [][AccessNext]_accessVars

-------------------------------------------------------------------------------
(* Properties                                                              *)

Rights(u) == IF user[u].restricted THEN Only(scopes[u]) ELSE Unrestricted

\* An operation has changed, or may be about to change, the user's rights, and
\* has not disconnected him yet.
Changing(u) ==
    \E o \in Ops : op[o].target = u /\ op[o].pc \notin {"idle", "started", "counting"}

\* What a connection was given is what the database says.
UpToDate(c) ==
    LET u == conn[c].user IN
    /\ user[u].active
    /\ conn[c].role = user[u].role
    /\ conn[c].allowed = Rights(u)

\* A connection whose user was neither deleted nor left in the middle by a
\* failure, and on whom no operation is at work.
Settled(c) ==
    LET u == conn[c].user IN
    conn[c].pc = "open" /\ Exists(u) /\ u \notin cutShort /\ ~Changing(u)

\* Once an operation on a user is over, his open connections have the new role
\* and scopes, except for an upgrade that had read the old ones before the
\* operation disconnected him.
FreshUnlessRaced ==
    \A c \in Conns : Settled(c) /\ ~conn[c].raced => UpToDate(c)

\* "Чтобы новые role/scope применились сразу, а не при следующем случайном
\* переподключении браузера": the same without the exception.
AppliedAtOnce == \A c \in Conns : Settled(c) => UpToDate(c)

===============================================================================
