------------------------------ MODULE AdminUsers ------------------------------
(***************************************************************************)
(* services/AdminService.ts over the tables auth.users and                 *)
(* auth.user_scope_access: administrators change each other's role, access *)
(* and scopes.  An operation runs from await to await, so operations that  *)
(* are handled at the same time interleave at their SQL statements.        *)
(***************************************************************************)
EXTENDS Naturals, FiniteSets

CONSTANTS
    Users,
    FirstAdmins,          \* the administrators at the start
    FirstRestricted,      \* the users at the start, restricted and without a scope
    Scopes,
    Ops,                  \* operations that are handled at the same time
    NoUser

ASSUME AdminAssumption ==
    /\ IsFiniteSet(Users)
    /\ FirstAdmins \subseteq Users /\ FirstAdmins # {}
    /\ FirstRestricted \subseteq Users \ FirstAdmins
    /\ NoUser \notin Users

VARIABLES
    user,                 \* auth.users
    scopes,               \* auth.user_scope_access: the scopes of every user
    op,                   \* the operations being handled
    overlapped,           \* history: users two operations on whom have overlapped
    crossed,              \* history: two removals have been past their check at once
    cutShort              \* history: users an operation on whom failed halfway

history == <<overlapped, crossed, cutShort>>

vars == <<user, scopes, op, history>>

Roles == {"admin", "user"}

Row(status, role, active, restricted) ==
    [status |-> status, role |-> role, active |-> active, restricted |-> restricted]

IdleOp == [pc |-> "idle", kind |-> "none", target |-> NoUser, role |-> "user",
           active |-> FALSE, restricted |-> FALSE, list |-> {}, gone |-> {}]

Init ==
    /\ user = [u \in Users |->
                CASE u \in FirstAdmins     -> Row("exists", "admin", TRUE, FALSE)
                  [] u \in FirstRestricted -> Row("exists", "user", TRUE, TRUE)
                  [] OTHER                 -> Row("unborn", "user", FALSE, FALSE)]
    /\ scopes = [u \in Users |-> {}]
    /\ op = [o \in Ops |-> IdleOp]
    /\ overlapped = {}
    /\ crossed = FALSE
    /\ cutShort = {}

Exists(u) == user[u].status = "exists"

IsActiveAdmin(u) == Exists(u) /\ user[u].role = "admin" /\ user[u].active

ActiveAdmins == {u \in Users : IsActiveAdmin(u)}

Idle(o) == op[o].pc = "idle"

GoTo(o, pc) == op' = [op EXCEPT ![o].pc = pc]

Return(o) == op' = [op EXCEPT ![o] = IdleOp]

-------------------------------------------------------------------------------
(* Requests                                                                *)

\* What the handlers test before their first await: an administrator neither
\* deletes nor demotes nor deactivates himself.
AllowedTarget(actor, new) ==
    \/ new.target # actor
    \/ new.kind \in {"scopes", "create"}
    \/ new.kind = "update" /\ new.role = "admin" /\ new.active

\* requireAuth and requireAdmin have let the actor through.
Begin(o, actor, new) ==
    /\ Idle(o)
    /\ IsActiveAdmin(actor)
    /\ AllowedTarget(actor, new)
    /\ op' = [op EXCEPT ![o] = new]
    /\ overlapped' = overlapped \cup {u \in Users : /\ u = new.target
                                                  /\ \E p \in Ops : op[p].target = u}
    /\ UNCHANGED <<user, scopes, crossed, cutShort>>

Updates ==
    {[pc |-> "started", kind |-> "update", target |-> u, role |-> role,
      active |-> active, restricted |-> restricted, list |-> {}, gone |-> {}] :
        u \in Users, role \in Roles, active \in BOOLEAN, restricted \in BOOLEAN}

Deletions ==
    {[IdleOp EXCEPT !.pc = "started", !.kind = "delete", !.target = u] : u \in Users}

ScopeList(u, l) ==
    [IdleOp EXCEPT !.pc = "started", !.kind = "scopes", !.target = u, !.list = l]

ScopeLists == {ScopeList(u, l) : u \in Users, l \in SUBSET Scopes}

Creations ==
    {[IdleOp EXCEPT !.pc = "started", !.kind = "create", !.role = r] : r \in Roles}

\* createAdminUser(): the row gets an id of its own, and no row is made when
\* the password or the name is refused.
CreateUser(o) ==
    /\ op[o].pc = "started" /\ op[o].kind = "create"
    /\ \/ user' = user
       \/ \E u \in Users :
            /\ user[u].status = "unborn"
            /\ user' = [user EXCEPT ![u] = Row("exists", op[o].role, TRUE, FALSE)]
    /\ Return(o)
    /\ UNCHANGED <<scopes, history>>

\* The operation takes an active administrator away from the target.
Removes(o) ==
    \/ op[o].kind = "delete"
    \/ op[o].kind = "update" /\ (op[o].role # "admin" \/ ~op[o].active)

\* A removal that has passed its check, and has not written yet.
Removing(o) == op[o].pc = "writing" /\ Removes(o)

PassCheck(o) ==
    /\ GoTo(o, "writing")
    /\ crossed' = (crossed \/ (Removes(o) /\ \E p \in Ops \ {o} : Removing(p)))

\* findUserById(target) and what follows up to the next await: not_found,
\* not_restricted, or the way to the next statement.
LoadTarget(o) ==
    LET u == op[o].target
        counted == IsActiveAdmin(u) /\ Removes(o)
    IN
    /\ op[o].pc = "started" /\ op[o].kind # "create"
    /\ \/ ~Exists(u) /\ Return(o) /\ UNCHANGED crossed
       \/ /\ Exists(u) /\ op[o].kind = "scopes" /\ UNCHANGED crossed
          /\ IF user[u].restricted THEN GoTo(o, "replacing") ELSE Return(o)
       \/ /\ Exists(u) /\ op[o].kind # "scopes"
          /\ IF counted THEN GoTo(o, "counting") /\ UNCHANGED crossed
                        ELSE PassCheck(o)
    /\ UNCHANGED <<user, scopes, overlapped, cutShort>>

\* countAdmins() <= 1 answers "last_admin".
CountAdminsBelowOne(o) ==
    /\ op[o].pc = "counting"
    /\ IF ActiveAdmins = {} THEN Return(o) /\ UNCHANGED crossed ELSE PassCheck(o)
    /\ UNCHANGED <<user, scopes, overlapped, cutShort>>

CountAdmins(o) ==
    /\ op[o].pc = "counting"
    /\ IF Cardinality(ActiveAdmins) <= 1 THEN Return(o) /\ UNCHANGED crossed
                                         ELSE PassCheck(o)
    /\ UNCHANGED <<user, scopes, overlapped, cutShort>>

\* effectiveScopeRestricted: an administrator is never restricted.
AsRequested(o) == op[o].restricted

EffectiveRestricted(o) == op[o].restricted /\ op[o].role # "admin"

\* updateUserRoleAndActive(): an UPDATE by id, also of a row that is gone.  The
\* rest of the request is not used any more.
UpdateUser(o) ==
    LET u == op[o].target IN
    /\ op[o].pc = "writing" /\ op[o].kind = "update"
    /\ user' = IF Exists(u)
               THEN [user EXCEPT ![u] = Row("exists", op[o].role, op[o].active,
                                            EffectiveRestricted(o))]
               ELSE user
    /\ op' = [op EXCEPT ![o] = [IdleOp EXCEPT
                 !.pc = IF EffectiveRestricted(o) THEN "disconnecting" ELSE "replacing",
                 !.kind = "update", !.target = u]]
    /\ UNCHANGED <<scopes, history>>

\* deleteUser(): the scopes go with the row (ON DELETE CASCADE).
DeleteRowOnly(o) ==
    /\ op[o].pc = "writing" /\ op[o].kind = "delete"
    /\ user' = [user EXCEPT ![op[o].target] = Row("deleted", "user", FALSE, FALSE)]
    /\ Return(o)
    /\ UNCHANGED <<scopes, history>>

DeleteUser(o) ==
    /\ op[o].pc = "writing" /\ op[o].kind = "delete"
    /\ user' = [user EXCEPT ![op[o].target] = Row("deleted", "user", FALSE, FALSE)]
    /\ scopes' = [scopes EXCEPT ![op[o].target] = {}]
    /\ Return(o)
    /\ UNCHANGED history

\* replaceScopesForUser() under READ COMMITTED.  DELETE sees the rows committed
\* when it starts, and waits for those that another transaction has deleted ...
StartDelete(o) ==
    /\ op[o].pc = "replacing"
    /\ op' = [op EXCEPT ![o].pc = "deleting", ![o].gone = scopes[op[o].target]]
    /\ UNCHANGED <<user, scopes, history>>

DeleteScopeRows(o) ==
    /\ op[o].pc = "deleting"
    /\ \A p \in Ops \ {o} :
         op[p].pc = "inserting" /\ op[p].target = op[o].target
            => op[p].gone \cap op[o].gone = {}
    /\ GoTo(o, "inserting")
    /\ UNCHANGED <<user, scopes, history>>

KeptRows(o) == scopes[op[o].target] \ op[o].gone

\* ... an INSERT fails on a row that is there already or when the user is gone ...
InsertFails(o) ==
    op[o].list # {} /\ (~Exists(op[o].target) \/ op[o].list \cap KeptRows(o) # {})

\* ... and the COMMIT shows both at once.  What it inserts is not among the rows
\* that a DELETE under way has seen.
CommitAdding(o) ==
    /\ op[o].pc = "inserting" /\ ~InsertFails(o)
    /\ scopes' = [scopes EXCEPT ![op[o].target] = @ \cup op[o].list]
    /\ GoTo(o, "disconnecting")
    /\ UNCHANGED <<user, history>>

CommitScopes(o) ==
    LET u == op[o].target IN
    /\ op[o].pc = "inserting" /\ ~InsertFails(o)
    /\ scopes' = [scopes EXCEPT ![u] = KeptRows(o) \cup op[o].list]
    /\ op' = [p \in Ops |->
               IF p = o THEN [op[o] EXCEPT !.pc = "disconnecting"]
               ELSE IF op[p].target = u THEN [op[p] EXCEPT !.gone = @ \ op[o].list]
               ELSE op[p]]
    /\ UNCHANGED <<user, history>>

\* A statement fails (a conflict, or the database): the operation ends with an
\* error, a transaction is rolled back, and nobody is disconnected.
StatementFails(o) ==
    /\ op[o].pc \notin {"idle", "disconnecting"}
    /\ cutShort' = IF op[o].pc \in {"replacing", "deleting", "inserting"}
                   THEN cutShort \cup {op[o].target}
                   ELSE cutShort
    /\ Return(o)
    /\ UNCHANGED <<user, scopes, overlapped, crossed>>

\* disconnectUserWsConnections(): the last effect of the operation.
Disconnect(o) ==
    /\ op[o].pc = "disconnecting"
    /\ Return(o)
    /\ UNCHANGED <<user, scopes, history>>

Request(o) ==
    \E actor \in Users, new \in Updates \cup Deletions \cup ScopeLists \cup Creations :
        Begin(o, actor, new)

Proceed(o) ==
    \/ CreateUser(o) \/ LoadTarget(o) \/ CountAdmins(o) \/ UpdateUser(o)
    \/ DeleteUser(o) \/ StartDelete(o) \/ DeleteScopeRows(o) \/ CommitScopes(o)
    \/ StatementFails(o)

Next == \E o \in Ops : Request(o) \/ Proceed(o) \/ Disconnect(o)

Spec == Init /\ [][Next]_vars

-------------------------------------------------------------------------------
(* Properties                                                              *)

Rows == [status : {"unborn", "exists", "deleted"}, role : Roles,
         active : BOOLEAN, restricted : BOOLEAN]

OpStates ==
    [pc : {"idle", "started", "counting", "writing", "replacing", "deleting",
           "inserting", "disconnecting"},
     kind : {"none", "update", "delete", "scopes", "create"},
     target : Users \cup {NoUser}, role : Roles, active : BOOLEAN,
     restricted : BOOLEAN, list : SUBSET Scopes, gone : SUBSET Scopes]

\* Rows of auth.user_scope_access belong to a user that exists, however the
\* transactions interleave.
TypeOK ==
    /\ user \in [Users -> Rows]
    /\ scopes \in [Users -> SUBSET Scopes]
    /\ op \in [Ops -> OpStates]
    /\ crossed \in BOOLEAN
    /\ overlapped \subseteq Users /\ cutShort \subseteq Users
    /\ \A u \in Users : scopes[u] # {} => Exists(u)

\* An active administrator remains whatever overlaps, unless two removals were
\* past their check at the same time: two administrators who demote or delete
\* each other may both have counted two.
AdminRemains == crossed \/ ActiveAdmins # {}

\* An administrator is never restricted by scopes, whatever overlaps.
AdminUnrestricted ==
    \A u \in Users : user[u].role = "admin" => ~user[u].restricted

\* While no operation on him is under way, an unrestricted user has no rows left
\* that would come into force when he is restricted again, whatever happens to the
\* others meanwhile, unless operations on him overlapped or one failed between its
\* two writes.
NoStaleScopes ==
    \A u \in Users \ (overlapped \cup cutShort) :
        (~user[u].restricted /\ \A o \in Ops : op[o].target # u) => scopes[u] = {}

===============================================================================
