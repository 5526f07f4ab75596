-------------------------- MODULE AdminUsers_proofs --------------------------
(***************************************************************************)
(* What holds of AdminUsers, and of the connections that WsAccess adds,    *)
(* for every number of users, scopes, operations at once and connections,  *)
(* proved.                                                                 *)
(***************************************************************************)
EXTENDS WsAccess, FiniteSetTheorems, TLAPS

\* An operation that is being handled has a target, except a creation, which
\* has a single step.
HasTarget ==
    \A o \in Ops : op[o].pc # "idle" =>
        \/ op[o].target \in Users /\ op[o].kind \in {"update", "delete", "scopes"}
        \/ op[o].kind = "create" /\ op[o].pc = "started"

Typed == TypeOK /\ HasTarget

Requests == Updates \cup Deletions \cup ScopeLists \cup Creations

\* The request a handler begins with has a target of its own kind.
LEMMA RequestsTyped ==
    \A new \in Requests :
        /\ new \in OpStates /\ new.pc = "started"
        /\ \/ new.target \in Users /\ new.kind \in {"update", "delete", "scopes"}
           \/ new.kind = "create"
  <1> SUFFICES ASSUME NEW new \in Requests
               PROVE  /\ new \in OpStates /\ new.pc = "started"
                      /\ \/ new.target \in Users
                            /\ new.kind \in {"update", "delete", "scopes"}
                         \/ new.kind = "create"
    OBVIOUS
  <1>1. CASE new \in Updates
    BY <1>1 DEF Updates, OpStates
  <1>2. CASE new \in Deletions
    BY <1>2 DEF Deletions, IdleOp, OpStates, Roles
  <1>3. CASE new \in ScopeLists
    <2>1. \A u \in Users, l \in SUBSET Scopes :
             /\ ScopeList(u, l) \in OpStates /\ ScopeList(u, l).pc = "started"
             /\ ScopeList(u, l).target \in Users /\ ScopeList(u, l).kind = "scopes"
      BY DEF ScopeList, IdleOp, OpStates, Roles
    <2> QED BY <1>3, <2>1 DEF ScopeLists
  <1>4. CASE new \in Creations
    BY <1>4 DEF Creations, IdleOp, OpStates, Roles
  <1> QED BY <1>1, <1>2, <1>3, <1>4 DEF Requests

LEMMA InitTyped == Init => Typed
  <1> SUFFICES ASSUME Init PROVE Typed
    OBVIOUS
  <1>1. user \in [Users -> Rows]
    <2>1. \A u \in Users : user[u] \in Rows
      BY DEF Init, Rows, Row, Roles
    <2> QED BY <2>1 DEF Init
  <1>2. IdleOp \in OpStates /\ IdleOp.pc = "idle"
    BY DEF IdleOp, OpStates, Roles
  <1>3. op \in [Ops -> OpStates] /\ HasTarget
    BY <1>2 DEF Init, HasTarget
  <1>4. scopes \in [Users -> SUBSET Scopes] /\ \A u \in Users : scopes[u] = {}
    BY DEF Init
  <1> QED BY <1>1, <1>3, <1>4 DEF Init, Typed, TypeOK

\* The steps that only move an operation.
LEMMA MoveTyped ==
    ASSUME Typed, NEW o \in Ops, NEW next \in OpStates,
           op' = [op EXCEPT ![o] = next],
           next.pc # "idle" =>
               \/ next.target \in Users /\ next.kind \in {"update", "delete", "scopes"}
               \/ next.kind = "create" /\ next.pc = "started"
    PROVE  op' \in [Ops -> OpStates] /\ HasTarget'
  BY DEF Typed, TypeOK, HasTarget

LEMMA NextTyped == Typed /\ [Next]_vars => Typed'
  <1> SUFFICES ASSUME Typed, [Next]_vars PROVE Typed'
    OBVIOUS
  <1> USE DEF Typed
  <1>0. IdleOp \in OpStates
    BY DEF IdleOp, OpStates, Roles
  <1>1. ASSUME NEW o \in Ops, Request(o) PROVE Typed'
    <2> PICK actor \in Users, new \in Requests : Begin(o, actor, new)
      BY <1>1 DEF Request, Requests
    <2>1. op' \in [Ops -> OpStates] /\ HasTarget'
      BY RequestsTyped, MoveTyped DEF Begin
    <2> QED BY <2>1 DEF Begin, TypeOK, Exists
  <1>2. ASSUME NEW o \in Ops, CreateUser(o) PROVE Typed'
    <2>1. op' \in [Ops -> OpStates] /\ HasTarget'
      BY <1>0, <1>2, MoveTyped DEF CreateUser, Return, IdleOp
    <2>2. user' \in [Users -> Rows] /\ \A u \in Users : scopes[u] # {} => Exists(u)'
      <3>1. CASE user' = user
        BY <3>1 DEF TypeOK, Exists
      <3>2. ASSUME NEW u \in Users,
                   user' = [user EXCEPT ![u] = Row("exists", op[o].role, TRUE, FALSE)]
            PROVE  user' \in [Users -> Rows] /\ \A v \in Users : Exists(v) => Exists(v)'
        <4>1. Row("exists", op[o].role, TRUE, FALSE) \in Rows
          BY DEF Row, Rows, TypeOK, OpStates
        <4>2. Row("exists", op[o].role, TRUE, FALSE).status = "exists"
          BY DEF Row
        <4> QED BY <3>2, <4>1, <4>2 DEF TypeOK, Exists
      <3> QED BY <1>2, <3>1, <3>2 DEF CreateUser, TypeOK
    <2> QED BY <1>2, <2>1, <2>2 DEF CreateUser, TypeOK, history
  <1>3. ASSUME NEW o \in Ops, LoadTarget(o) PROVE Typed'
    <2>1. op' \in [Ops -> OpStates] /\ HasTarget'
      <3>1. CASE Return(o)
        BY <1>0, <3>1, MoveTyped DEF Return, IdleOp
      <3>2. ASSUME NEW pc \in {"replacing", "counting", "writing"}, GoTo(o, pc)
            PROVE  op' \in [Ops -> OpStates] /\ HasTarget'
        BY <1>3, <3>2 DEF GoTo, LoadTarget, TypeOK, OpStates, HasTarget
      <3> QED BY <1>3, <3>1, <3>2 DEF LoadTarget, PassCheck
    <2>2. crossed' \in BOOLEAN
      BY <1>3 DEF LoadTarget, PassCheck, TypeOK
    <2> QED BY <1>3, <2>1, <2>2 DEF LoadTarget, TypeOK, Exists
  <1>4. ASSUME NEW o \in Ops, CountAdmins(o) PROVE Typed'
    <2>1. op' \in [Ops -> OpStates] /\ HasTarget'
      <3>1. CASE Return(o)
        BY <1>0, <3>1, MoveTyped DEF Return, IdleOp
      <3>2. CASE GoTo(o, "writing")
        <4>1. op[o] \in OpStates /\ op[o].pc = "counting"
          BY <1>4 DEF CountAdmins, TypeOK
        <4>2. PICK next : next = [op[o] EXCEPT !.pc = "writing"]
          OBVIOUS
        <4>3. next \in OpStates /\ next.target = op[o].target /\ next.kind = op[o].kind
          BY <4>1, <4>2 DEF OpStates
        <4> QED BY <3>2, <4>1, <4>2, <4>3, MoveTyped DEF GoTo, HasTarget
      <3> QED BY <1>4, <3>1, <3>2 DEF CountAdmins, PassCheck
    <2>2. crossed' \in BOOLEAN
      BY <1>4 DEF CountAdmins, PassCheck, TypeOK
    <2> QED BY <1>4, <2>1, <2>2 DEF CountAdmins, TypeOK, Exists
  <1>5. ASSUME NEW o \in Ops, UpdateUser(o) PROVE Typed'
    <2> DEFINE next == [IdleOp EXCEPT
            !.pc = IF EffectiveRestricted(o) THEN "disconnecting" ELSE "replacing",
            !.kind = "update", !.target = op[o].target]
    <2>1. op[o].target \in Users
      BY <1>5 DEF UpdateUser, TypeOK, HasTarget
    <2>2. op' \in [Ops -> OpStates] /\ HasTarget'
      <3>1. next \in OpStates /\ next.target \in Users /\ next.kind = "update"
        BY <2>1 DEF IdleOp, OpStates, Roles
      <3>2. op' = [op EXCEPT ![o] = next]
        BY <1>5 DEF UpdateUser
      <3> HIDE DEF next
      <3> QED BY <3>1, <3>2, MoveTyped
    <2>3. op[o].role \in Roles /\ op[o].active \in BOOLEAN /\ EffectiveRestricted(o) \in BOOLEAN
      BY DEF TypeOK, OpStates, EffectiveRestricted
    <2>4. user' \in [Users -> Rows] /\ \A u \in Users : Exists(u) => Exists(u)'
      BY <1>5, <2>1, <2>3 DEF UpdateUser, TypeOK, Rows, Row, Exists
    <2> QED BY <1>5, <2>2, <2>4 DEF UpdateUser, TypeOK, history
  <1>6. ASSUME NEW o \in Ops, DeleteUser(o) PROVE Typed'
    <2>1. op' \in [Ops -> OpStates] /\ HasTarget'
      BY <1>0, <1>6, MoveTyped DEF DeleteUser, Return, IdleOp
    <2>2. op[o].target \in Users
      BY <1>6 DEF DeleteUser, TypeOK, HasTarget
    <2>3. /\ user' \in [Users -> Rows] /\ scopes' \in [Users -> SUBSET Scopes]
          /\ \A u \in Users : scopes'[u] # {} => Exists(u)'
      BY <1>6, <2>2 DEF DeleteUser, TypeOK, Rows, Row, Exists, Roles
    <2> QED BY <1>6, <2>1, <2>3 DEF DeleteUser, TypeOK, history
  <1>7. ASSUME NEW o \in Ops, StartDelete(o) PROVE Typed'
    <2>1. op[o].target \in Users /\ scopes[op[o].target] \in SUBSET Scopes
      BY <1>7 DEF StartDelete, TypeOK, HasTarget
    <2>2. op' \in [Ops -> OpStates] /\ HasTarget'
      <3> DEFINE next == [op[o] EXCEPT !.pc = "deleting", !.gone = scopes[op[o].target]]
      <3>1. op[o] \in OpStates /\ op[o].kind \in {"update", "delete", "scopes"}
        BY <1>7 DEF StartDelete, TypeOK, HasTarget
      <3>2. /\ next \in OpStates /\ next.target \in Users
            /\ next.kind \in {"update", "delete", "scopes"}
        BY <2>1, <3>1 DEF OpStates
      <3>3. op' = [op EXCEPT ![o] = next]
        BY <1>7 DEF StartDelete
      <3> HIDE DEF next
      <3> QED BY <3>2, <3>3, MoveTyped
    <2> QED BY <1>7, <2>2 DEF StartDelete, TypeOK, Exists, history
  <1>8. ASSUME NEW o \in Ops, DeleteScopeRows(o) PROVE Typed'
    <2>1. op' \in [Ops -> OpStates] /\ HasTarget'
      <3>1. op[o] \in OpStates /\ op[o].pc = "deleting"
        BY <1>8 DEF DeleteScopeRows, TypeOK
      <3>2. PICK next : next = [op[o] EXCEPT !.pc = "inserting"]
        OBVIOUS
      <3>3. next \in OpStates /\ next.target = op[o].target /\ next.kind = op[o].kind
        BY <3>1, <3>2 DEF OpStates
      <3>4. op' = [op EXCEPT ![o] = next]
        BY <1>8, <3>2 DEF DeleteScopeRows, GoTo
      <3> QED BY <3>1, <3>3, <3>4, MoveTyped DEF HasTarget
    <2> QED BY <1>8, <2>1 DEF DeleteScopeRows, TypeOK, Exists, history
  <1>9. ASSUME NEW o \in Ops, CommitScopes(o) PROVE Typed'
    <2>1. op[o].target \in Users /\ op[o].list \in SUBSET Scopes
      BY <1>9 DEF CommitScopes, TypeOK, HasTarget, OpStates
    <2>2. op' \in [Ops -> OpStates] /\ HasTarget'
      <3> DEFINE after(p) == IF p = o THEN [op[o] EXCEPT !.pc = "disconnecting"]
                             ELSE IF op[p].target = op[o].target
                                  THEN [op[p] EXCEPT !.gone = @ \ op[o].list] ELSE op[p]
      <3>1. op' = [p \in Ops |-> after(p)]
        BY <1>9 DEF CommitScopes
      <3>2. ASSUME NEW p \in Ops
            PROVE  /\ after(p) \in OpStates
                   /\ after(p).target = op[p].target /\ after(p).kind = op[p].kind
                   /\ p # o => after(p).pc = op[p].pc
        <4>1. op[p] \in OpStates
          BY DEF TypeOK
        <4>2. CASE p = o
          BY <4>1, <4>2 DEF OpStates
        <4>3. CASE p # o /\ op[p].target = op[o].target
          BY <2>1, <4>1, <4>3 DEF OpStates
        <4>4. CASE p # o /\ op[p].target # op[o].target
          BY <4>1, <4>4
        <4> QED BY <4>2, <4>3, <4>4
      <3> HIDE DEF after
      <3>3. op' \in [Ops -> OpStates]
        BY <3>1, <3>2
      <3>4. \A p \in Ops : /\ op'[p].target = op[p].target /\ op'[p].kind = op[p].kind
                           /\ p # o => op'[p].pc = op[p].pc
        BY <3>1, <3>2
      <3>5. HasTarget'
        BY <1>9, <2>1, <3>4 DEF HasTarget, CommitScopes
      <3> QED BY <3>3, <3>5
    <2>3. /\ scopes' \in [Users -> SUBSET Scopes]
          /\ \A u \in Users : scopes'[u] # {} => Exists(u)'
      BY <1>9, <2>1 DEF CommitScopes, InsertFails, KeptRows, TypeOK, Exists
    <2> QED BY <1>9, <2>2, <2>3 DEF CommitScopes, TypeOK, history
  <1>10. ASSUME NEW o \in Ops, StatementFails(o) PROVE Typed'
    <2>1. op' \in [Ops -> OpStates] /\ HasTarget'
      BY <1>0, <1>10, MoveTyped DEF StatementFails, Return, IdleOp
    <2>2. cutShort' \subseteq Users
      BY <1>10 DEF StatementFails, TypeOK, HasTarget
    <2> QED BY <1>10, <2>1, <2>2 DEF StatementFails, TypeOK, Exists
  <1>11. ASSUME NEW o \in Ops, Disconnect(o) PROVE Typed'
    <2>1. op' \in [Ops -> OpStates] /\ HasTarget'
      BY <1>0, <1>11, MoveTyped DEF Disconnect, Return, IdleOp
    <2> QED BY <1>11, <2>1 DEF Disconnect, TypeOK, Exists, history
  <1>12. CASE UNCHANGED vars
    BY <1>12 DEF vars, history, TypeOK, HasTarget, Exists
  <1> QED
    BY <1>1, <1>2, <1>3, <1>4, <1>5, <1>6, <1>7, <1>8, <1>9, <1>10, <1>11, <1>12
    DEF Next, Proceed

-------------------------------------------------------------------------------
(* The last administrator.  Unless two removals have been past their check  *)
(* together, the only one that is has somebody else to leave behind.        *)

Others(u) == ActiveAdmins \ {u}

Guarded ==
    /\ ActiveAdmins # {}
    /\ \A o \in Ops : Removing(o) => Others(op[o].target) # {}
    /\ \A o, p \in Ops : Removing(o) /\ Removing(p) => o = p

AdminInv == Typed /\ (~crossed => Guarded)

\* Two or more administrators: one of them is not u.
LEMMA CountedTwo ==
    ASSUME Typed, NEW u, ~(Cardinality(ActiveAdmins) <= 1)
    PROVE  Others(u) # {}
  <1>1. SUFFICES ASSUME ActiveAdmins \subseteq {u} PROVE FALSE
    BY DEF Others
  <1>2. IsFiniteSet({u}) /\ Cardinality({u}) = 1
    BY FS_Singleton
  <1>3. Cardinality(ActiveAdmins) <= Cardinality({u})
    BY <1>1, <1>2, FS_Subset
  <1>4. Cardinality(ActiveAdmins) \in Nat
    BY <1>1, <1>2, FS_Subset, FS_CardinalityType
  <1> QED BY <1>2, <1>3, <1>4

\* A step after which there are as many administrators, and no removal more.
LEMMA KeepsGuarded ==
    ASSUME Guarded, ActiveAdmins \subseteq ActiveAdmins',
           \A o \in Ops : Removing(o)' => Removing(o) /\ op'[o].target = op[o].target
    PROVE  Guarded'
  BY DEF Guarded, Others

\* A removal that passes its check alone, with somebody to leave behind.
LEMMA PassedAlone ==
    ASSUME Typed, Guarded, NEW o \in Ops, op[o].pc # "writing", PassCheck(o), ~crossed',
           UNCHANGED user, Removes(o) => Others(op[o].target) # {}
    PROVE  Guarded'
  <1>1. \A p \in Ops : op'[p] = IF p = o THEN [op[o] EXCEPT !.pc = "writing"] ELSE op[p]
    BY DEF PassCheck, GoTo, Typed, TypeOK
  <1>2. op[o] \in OpStates
    BY DEF Typed, TypeOK
  <1>3. ActiveAdmins' = ActiveAdmins
    BY DEF ActiveAdmins, IsActiveAdmin, Exists
  <1>4. Removes(o)' <=> Removes(o)
    BY <1>1, <1>2 DEF Removes, OpStates
  <1>5. op'[o].target = op[o].target
    BY <1>1, <1>2 DEF OpStates
  <1>6. \A p \in Ops \ {o} : (Removing(p)' <=> Removing(p)) /\ op'[p] = op[p]
    BY <1>1 DEF Removing, Removes
  <1>7. Removes(o) => \A p \in Ops \ {o} : ~Removing(p)
    BY DEF PassCheck
  <1>8. Removing(o)' => Removes(o)
    BY <1>4 DEF Removing
  <1>9. \A p \in Ops : Removing(p)' => Others(op[p].target)' # {}
    BY <1>3, <1>5, <1>6, <1>8 DEF Guarded, Others
  <1>10. \A p, q \in Ops : Removing(p)' /\ Removing(q)' => p = q
    BY <1>6, <1>7, <1>8 DEF Guarded
  <1> QED BY <1>3, <1>9, <1>10 DEF Guarded

LEMMA InitAdminInv == Init => AdminInv
  <1> SUFFICES ASSUME Init PROVE AdminInv
    OBVIOUS
  <1>1. Typed
    BY InitTyped
  <1>2. FirstAdmins \subseteq ActiveAdmins
    BY AdminAssumption DEF AdminAssumption, Init, ActiveAdmins, IsActiveAdmin, Exists, Row
  <1>3. \A o \in Ops : ~Removing(o)
    BY DEF Init, IdleOp, Removing
  <1> QED BY <1>1, <1>2, <1>3, AdminAssumption DEF AdminInv, Guarded, AdminAssumption

LEMMA NextAdminInv == AdminInv /\ [Next]_vars => AdminInv'
  <1> SUFFICES ASSUME AdminInv, [Next]_vars, ~crossed' PROVE Guarded'
    BY NextTyped DEF AdminInv
  <1> USE DEF AdminInv
  <1>0. ~crossed
    BY DEF Next, Request, Begin, Proceed, CreateUser, LoadTarget, CountAdmins, PassCheck,
           UpdateUser, DeleteUser, StartDelete, DeleteScopeRows, CommitScopes,
           StatementFails, Disconnect, vars, history
  <1> Typed /\ Guarded /\ TypeOK
    BY <1>0 DEF Typed
  <1>1. ASSUME NEW o \in Ops, UNCHANGED user,
               \A p \in Ops \ {o} : /\ op'[p].pc = op[p].pc /\ op'[p].kind = op[p].kind
                                    /\ op'[p].target = op[p].target
                                    /\ op'[p].role = op[p].role
                                    /\ op'[p].active = op[p].active,
               op'[o].pc # "writing"
        PROVE  Guarded'
    <2>1. ActiveAdmins' = ActiveAdmins
      BY <1>1 DEF ActiveAdmins, IsActiveAdmin, Exists
    <2>2. \A p \in Ops : Removing(p)' => Removing(p) /\ op'[p].target = op[p].target
      BY <1>1 DEF Removing, Removes
    <2> QED BY <2>1, <2>2, KeepsGuarded
  <1>2. ASSUME NEW o \in Ops, NEW next, next.pc # "writing", UNCHANGED user,
               op' = [op EXCEPT ![o] = next]
        PROVE  Guarded'
    BY <1>1, <1>2 DEF TypeOK
  <1>3. IdleOp.pc # "writing"
    BY DEF IdleOp
  <1>4. ASSUME NEW o \in Ops, Request(o) PROVE Guarded'
    <2> PICK actor \in Users, new \in Requests : Begin(o, actor, new)
      BY <1>4 DEF Request, Requests
    <2> QED BY <1>2, RequestsTyped DEF Begin
  <1>5. ASSUME NEW o \in Ops, CreateUser(o) PROVE Guarded'
    <2>1. ActiveAdmins \subseteq ActiveAdmins'
      BY <1>5 DEF CreateUser, ActiveAdmins, IsActiveAdmin, Exists, TypeOK
    <2>2. \A p \in Ops : Removing(p)' => Removing(p) /\ op'[p].target = op[p].target
      BY <1>3, <1>5 DEF CreateUser, Return, Removing, Removes, TypeOK
    <2> QED BY <2>1, <2>2, KeepsGuarded
  <1>6. ASSUME NEW o \in Ops, LoadTarget(o) PROVE Guarded'
    <2>1. CASE Return(o)
      BY <1>2, <1>3, <1>6, <2>1 DEF LoadTarget, Return
    <2>2. ASSUME NEW pc \in {"replacing", "counting"}, GoTo(o, pc) PROVE Guarded'
      BY <1>1, <1>6, <2>2 DEF LoadTarget, GoTo, TypeOK, OpStates
    <2>3. CASE PassCheck(o) /\ ~(IsActiveAdmin(op[o].target) /\ Removes(o))
      <3>1. Removes(o) => Others(op[o].target) # {}
        BY <2>3 DEF Others, Guarded, ActiveAdmins
      <3> QED BY <1>6, <2>3, <3>1, PassedAlone DEF LoadTarget
    <2> QED BY <1>6, <2>1, <2>2, <2>3 DEF LoadTarget
  <1>7. ASSUME NEW o \in Ops, CountAdmins(o) PROVE Guarded'
    <2>1. CASE Return(o)
      BY <1>2, <1>3, <1>7, <2>1 DEF CountAdmins, Return
    <2>2. CASE PassCheck(o) /\ ~(Cardinality(ActiveAdmins) <= 1)
      <3>1. Others(op[o].target) # {}
        BY <2>2, CountedTwo
      <3> QED BY <1>7, <2>2, <3>1, PassedAlone DEF CountAdmins
    <2> QED BY <1>7, <2>1, <2>2 DEF CountAdmins
  <1>8. ASSUME NEW o \in Ops, UpdateUser(o) \/ DeleteUser(o) PROVE Guarded'
    <2>1. op[o].target \in Users /\ op[o] \in OpStates
      BY <1>8 DEF UpdateUser, DeleteUser, Typed, TypeOK, HasTarget
    <2>2. \A p \in Ops : Removing(p)' => /\ p # o /\ Removing(p)
                                         /\ op'[p].target = op[p].target
      <3>1. CASE DeleteUser(o)
        <4> op'[o].pc # "writing" /\ \A p \in Ops \ {o} : op'[p] = op[p]
          BY <1>3, <3>1 DEF DeleteUser, Return, TypeOK
        <4> QED BY DEF Removing, Removes
      <3>2. CASE UpdateUser(o)
        <4> op'[o].pc # "writing" /\ \A p \in Ops \ {o} : op'[p] = op[p]
          BY <3>2 DEF UpdateUser, TypeOK, IdleOp
        <4> QED BY DEF Removing, Removes
      <3> QED BY <1>8, <3>1, <3>2
    <2>3. Others(op[o].target) \subseteq ActiveAdmins'
      BY <1>8, <2>1 DEF UpdateUser, DeleteUser, Others, ActiveAdmins, IsActiveAdmin, Exists,
                        TypeOK
    <2>4. CASE Removing(o)
      <3>1. \A p \in Ops : ~Removing(p)'
        BY <2>2, <2>4 DEF Guarded
      <3>2. ActiveAdmins' # {}
        BY <2>3, <2>4 DEF Guarded
      <3> QED BY <3>1, <3>2 DEF Guarded
    <2>5. CASE ~Removing(o)
      <3>1. op[o].kind = "update" /\ op[o].role = "admin" /\ op[o].active /\ UpdateUser(o)
        BY <1>8, <2>1, <2>5 DEF UpdateUser, DeleteUser, Removing, Removes, OpStates
      <3>2. ActiveAdmins \subseteq ActiveAdmins'
        BY <2>1, <3>1 DEF UpdateUser, ActiveAdmins, IsActiveAdmin, Exists, Row, TypeOK
      <3> QED BY <2>2, <3>2, KeepsGuarded
    <2> QED BY <2>4, <2>5
  <1>9. ASSUME NEW o \in Ops, StartDelete(o) \/ DeleteScopeRows(o) PROVE Guarded'
    BY <1>1, <1>9 DEF StartDelete, DeleteScopeRows, GoTo, TypeOK, OpStates
  <1>10. ASSUME NEW o \in Ops, CommitScopes(o) PROVE Guarded'
    <2>1. \A p \in Ops \ {o} :
             op'[p] = op[p] \/ op'[p] = [op[p] EXCEPT !.gone = @ \ op[o].list]
      BY <1>10 DEF CommitScopes
    <2>2. op'[o].pc = "disconnecting"
      BY <1>10 DEF CommitScopes, TypeOK, OpStates
    <2>3. \A p \in Ops \ {o} : op[p] \in OpStates
      BY DEF TypeOK
    <2>4. \A p \in Ops \ {o} : /\ op'[p].pc = op[p].pc /\ op'[p].kind = op[p].kind
                               /\ op'[p].target = op[p].target
                               /\ op'[p].role = op[p].role
                               /\ op'[p].active = op[p].active
      BY <2>1, <2>3 DEF OpStates
    <2> QED BY <1>1, <1>10, <2>2, <2>4 DEF CommitScopes
  <1>11. ASSUME NEW o \in Ops, StatementFails(o) \/ Disconnect(o) PROVE Guarded'
    BY <1>2, <1>3, <1>11 DEF StatementFails, Disconnect, Return
  <1>12. CASE UNCHANGED vars
    BY <1>12 DEF vars, Guarded, Others, Removing, Removes, ActiveAdmins, IsActiveAdmin, Exists
  <1> QED
    BY <1>4, <1>5, <1>6, <1>7, <1>8, <1>9, <1>10, <1>11, <1>12 DEF Next, Proceed

\* The tables keep their types, and no scope row outlives its user, however the
\* administrators' statements interleave (AdminService.ts, the foreign key of
\* auth.user_scope_access).
THEOREM AdminTypeCorrect == Spec => []TypeOK
  <1>1. Spec => []Typed
    BY InitTyped, NextTyped, PTL DEF Spec
  <1> QED BY <1>1, PTL DEF Typed

\* An active administrator remains, however many operations overlap, unless two
\* removals were between their check and their write together: what countAdmins()
\* guarantees in updateAdminUserRole() and deleteAdminUser().
THEOREM LastAdminRemains == Spec => []AdminRemains
  <1>1. Spec => []AdminInv
    BY InitAdminInv, NextAdminInv, PTL DEF Spec
  <1>2. AdminInv => AdminRemains
    BY DEF AdminInv, Guarded, AdminRemains
  <1> QED BY <1>1, <1>2, PTL

\* No administrator is restricted by scopes (effectiveScopeRestricted).
THEOREM AdminNeverRestricted == Spec => []AdminUnrestricted
  <1>1. Init => AdminUnrestricted
    BY AdminAssumption DEF AdminAssumption, Init, AdminUnrestricted, Row
  <1>2. Typed /\ AdminUnrestricted /\ [Next]_vars => AdminUnrestricted'
    <2> SUFFICES ASSUME Typed, AdminUnrestricted, [Next]_vars,
                        user' # user
                 PROVE  AdminUnrestricted'
      BY DEF AdminUnrestricted
    <2> PICK o \in Ops : CreateUser(o) \/ UpdateUser(o) \/ DeleteUser(o)
      BY DEF Next, Request, Begin, Proceed, LoadTarget, CountAdmins, StartDelete,
             DeleteScopeRows, CommitScopes, StatementFails, Disconnect, vars
    <2>1. PICK v :
              \/ user' = [user EXCEPT ![v] = Row("exists", op[o].role, TRUE, FALSE)]
              \/ user' = [user EXCEPT ![v] = Row("deleted", "user", FALSE, FALSE)]
              \/ user' = [user EXCEPT ![v] = Row("exists", op[o].role, op[o].active,
                                                EffectiveRestricted(o))]
      BY DEF CreateUser, UpdateUser, DeleteUser
    <2>2. \A u \in Users :
              user'[u] = user[u] \/ (user'[u].role = "admin" => ~user'[u].restricted)
      <3> DEFINE Unrestrictable(row) == row.role = "admin" => ~row.restricted
      <3>1. /\ Unrestrictable(Row("exists", op[o].role, TRUE, FALSE))
            /\ Unrestrictable(Row("deleted", "user", FALSE, FALSE))
            /\ Unrestrictable(Row("exists", op[o].role, op[o].active,
                                  EffectiveRestricted(o)))
        BY DEF Row, EffectiveRestricted
      <3>2. PICK row : user' = [user EXCEPT ![v] = row] /\ Unrestrictable(row)
        <4> HIDE DEF Unrestrictable
        <4> QED BY <2>1, <3>1
      <3> QED BY <3>2 DEF Typed, TypeOK
    <2> QED BY <2>2 DEF AdminUnrestricted
  <1>3. Spec => []Typed
    BY InitTyped, NextTyped, PTL DEF Spec
  <1> QED BY <1>1, <1>2, <1>3, PTL DEF Spec

-------------------------------------------------------------------------------
(* Stale scopes.  While no two operations on a user have been handled at once,  *)
(* a replacement of his scopes finds the rows and the restriction it has read.  *)

Replacing(o) == op[o].pc \in {"replacing", "deleting", "inserting"}

\* The update on u that has written the row, and not yet the scopes.
Clearing(o, u) == Replacing(o) /\ op[o].kind = "update" /\ op[o].target = u

AloneOn(u) == \A o, p \in Ops : op[o].target = u /\ op[p].target = u => o = p

AsRead(o) ==
    /\ ~Idle(o) /\ op[o].kind = "update" => op[o].list = {}
    /\ Replacing(o) =>
         /\ op[o].kind # "update" => user[op[o].target].restricted
         /\ op[o].pc # "replacing" => op[o].gone = scopes[op[o].target]

Clean(u) ==
    \/ u \in cutShort \/ user[u].restricted \/ scopes[u] = {}
    \/ \E o \in Ops : Clearing(o, u)

Fresh(u) ==
    /\ AloneOn(u)
    /\ \A o \in Ops : op[o].target = u => AsRead(o)
    /\ Clean(u)

\* Nobody who is still to be created is restricted.
Unborn == \A u \in Users : user[u].status = "unborn" => ~user[u].restricted

StaleInv == Typed /\ Unborn /\ \A u \in Users \ overlapped : Fresh(u)

LEMMA InitStale == Init => StaleInv
  <1> SUFFICES ASSUME Init PROVE StaleInv
    OBVIOUS
  <1>1. \A o \in Ops : op[o].target \notin Users
    BY AdminAssumption DEF Init, IdleOp
  <1>2. \A u \in Users : scopes[u] = {}
    BY DEF Init
  <1>3. Unborn
    BY DEF Init, Unborn, Row
  <1> QED BY <1>1, <1>2, <1>3, InitTyped DEF StaleInv, Fresh, AloneOn, Clean

LEMMA NextUnborn == Typed /\ Unborn /\ [Next]_vars => Unborn'
  <1> SUFFICES ASSUME Typed, Unborn, [Next]_vars, user' # user PROVE Unborn'
    BY DEF Unborn
  <1> PICK o \in Ops : CreateUser(o) \/ UpdateUser(o) \/ DeleteUser(o)
    BY DEF Next, Request, Begin, Proceed, LoadTarget, CountAdmins, StartDelete,
           DeleteScopeRows, CommitScopes, StatementFails, Disconnect, vars
  <1>1. PICK v, row : user' = [user EXCEPT ![v] = row] /\ row.status # "unborn"
    <2>1. \A status, role, active, restricted :
             Row(status, role, active, restricted).status = status
      BY DEF Row
    <2>2. CASE CreateUser(o)
      <3>1. PICK v \in Users :
               user' = [user EXCEPT ![v] = Row("exists", op[o].role, TRUE, FALSE)]
        BY <2>2 DEF CreateUser
      <3>2. Row("exists", op[o].role, TRUE, FALSE).status # "unborn"
        BY DEF Row
      <3> QED BY <3>1, <3>2, Zenon
    <2>3. CASE UpdateUser(o)
      BY <2>1, <2>3 DEF UpdateUser
    <2>4. CASE DeleteUser(o)
      BY <2>1, <2>4 DEF DeleteUser
    <2> QED BY <2>2, <2>3, <2>4
  <1> QED BY <1>1 DEF Unborn, Typed, TypeOK

\* The step of the operation that is alone on u.
LEMMA FreshAlone ==
    ASSUME NEW o \in Ops, NEW u \in Users, \A p \in Ops \ {o} : op'[p].target # u,
           AsRead(o)', Clean(u)'
    PROVE  Fresh(u)'
  BY DEF Fresh, AloneOn

\* A step that changes nothing of u, nor of the operations on him.
LEMMA Elsewhere ==
    ASSUME NEW u \in Users, Fresh(u),
           user'[u] = user[u], scopes'[u] = scopes[u], cutShort \subseteq cutShort',
           \A p \in Ops : op[p].target = u \/ op'[p].target = u => op'[p] = op[p]
    PROVE  Fresh(u)'
  <1>1. AloneOn(u)'
    BY DEF Fresh, AloneOn
  <1>2. ASSUME NEW p \in Ops, op'[p].target = u PROVE AsRead(p)'
    <2>1. op'[p] = op[p] /\ op[p].target = u
      BY <1>2
    <2>2. AsRead(p)
      BY <2>1 DEF Fresh
    <2> QED BY <2>1, <2>2 DEF AsRead, Replacing, Idle
  <1>3. Clean(u)'
    BY DEF Fresh, Clean, Clearing, Replacing
  <1> QED BY <1>1, <1>2, <1>3 DEF Fresh

\* A step that writes nothing, and leaves u or ends no update on him.
LEMMA CleanUnwritten ==
    ASSUME NEW u \in Users, Clean(u), UNCHANGED <<user, scopes>>,
           cutShort \subseteq cutShort',
           \A o \in Ops : Clearing(o, u) => Clearing(o, u)' \/ u \in cutShort'
    PROVE  Clean(u)'
  BY DEF Clean

LEMMA NextStale == StaleInv /\ [Next]_vars => StaleInv'
  <1> SUFFICES ASSUME StaleInv, [Next]_vars, NEW u \in Users, u \notin overlapped'
               PROVE  Fresh(u)'
    BY NextTyped, NextUnborn DEF StaleInv
  <1>0. u \notin overlapped
    BY DEF Next, Request, Begin, Proceed, CreateUser, LoadTarget, CountAdmins, PassCheck,
           UpdateUser, DeleteUser, StartDelete, DeleteScopeRows, CommitScopes,
           StatementFails, Disconnect, vars, history
  <1>1. /\ Typed /\ TypeOK /\ HasTarget /\ Unborn /\ Fresh(u) /\ AloneOn(u) /\ Clean(u)
        /\ \A o \in Ops : op[o].target = u => AsRead(o)
    BY <1>0 DEF StaleInv, Fresh, Typed
  <1>2. IdleOp.pc = "idle" /\ IdleOp.list = {} /\ IdleOp.target # u
    BY AdminAssumption DEF IdleOp
  <1> USE DEF Idle
  \* What an operation on u finds that is handled: no other on him.
  <1>3. ASSUME NEW o \in Ops, NEW next, op[o].target = u, op' = [op EXCEPT ![o] = next]
        PROVE  /\ op'[o] = next
               /\ \A p \in Ops \ {o} : op'[p] = op[p] /\ op[p].target # u
    BY <1>1, <1>3 DEF TypeOK, AloneOn
  \* The operations on others.
  <1>4. ASSUME NEW o \in Ops, NEW next, op[o].target # u, op' = [op EXCEPT ![o] = next],
               next.target # u, user'[u] = user[u], scopes'[u] = scopes[u],
               cutShort \subseteq cutShort'
        PROVE  Fresh(u)'
    <2>1. op'[o] = next /\ \A p \in Ops \ {o} : op'[p] = op[p]
      BY <1>1, <1>4 DEF TypeOK
    <2> QED BY <1>1, <1>4, <2>1, Elsewhere
  \* The operation returns, having written nothing in this step.
  <1>5. ASSUME NEW o \in Ops, Return(o), UNCHANGED <<user, scopes>>,
               cutShort \subseteq cutShort',
               Replacing(o) => op[o].target \in cutShort'
        PROVE  Fresh(u)'
    <2>1. CASE op[o].target = u
      <3>1. op'[o] = IdleOp /\ \A p \in Ops \ {o} : op'[p] = op[p] /\ op[p].target # u
        BY <1>3, <1>5, <2>1 DEF Return
      <3>2. AsRead(o)'
        BY <1>2, <3>1 DEF AsRead, Replacing
      <3>3. \A p \in Ops : Clearing(p, u) => u \in cutShort'
        BY <1>5, <2>1, <3>1 DEF Clearing
      <3>4. Clean(u)'
        BY <1>1, <1>5, <3>3, CleanUnwritten
      <3> QED BY <3>1, <3>2, <3>4, FreshAlone
    <2>2. CASE op[o].target # u
      BY <1>2, <1>4, <1>5, <2>2 DEF Return
    <2> QED BY <2>1, <2>2
  <1>6. ASSUME NEW o \in Ops, Request(o) PROVE Fresh(u)'
    <2> PICK actor \in Users, new \in Requests : Begin(o, actor, new)
      BY <1>6 DEF Request, Requests
    <2>0. op[o].pc = "idle" /\ op' = [op EXCEPT ![o] = new]
          /\ UNCHANGED <<user, scopes, cutShort>>
      BY DEF Begin
    <2>1. op'[o] = new /\ \A p \in Ops \ {o} : op'[p] = op[p]
      BY <1>1, <2>0 DEF TypeOK
    <2>2. new.pc = "started" /\ (new.kind = "update" => new.list = {})
      <3>1. CASE new \in Updates
        BY <3>1 DEF Updates
      <3>2. CASE new \in Deletions
        BY <3>2 DEF Deletions, IdleOp
      <3>3. CASE new \in ScopeLists
        <4>1. \A v \in Users, l \in SUBSET Scopes :
                 ScopeList(v, l).pc = "started" /\ ScopeList(v, l).kind = "scopes"
          BY DEF ScopeList, IdleOp
        <4> QED BY <3>3, <4>1 DEF ScopeLists
      <3>4. CASE new \in Creations
        BY <3>4 DEF Creations, IdleOp
      <3> QED BY <3>1, <3>2, <3>3, <3>4 DEF Requests
    <2>3. CASE new.target = u
      <3>1. \A p \in Ops : op[p].target # u
        BY <2>3 DEF Begin
      <3>2. AsRead(o)'
        BY <2>1, <2>2 DEF AsRead, Replacing
      <3>3. Clean(u)'
        BY <1>1, <2>0, <3>1, CleanUnwritten DEF Clearing
      <3> QED BY <2>1, <3>1, <3>2, <3>3, FreshAlone
    <2>4. CASE new.target # u /\ op[o].target # u
      BY <1>4, <2>0, <2>4
    <2>5. CASE new.target # u /\ op[o].target = u
      <3>1. ~Clearing(o, u)
        BY <2>0 DEF Clearing, Replacing
      <3>2. \A p \in Ops \ {o} : op'[p].target # u /\ ~Clearing(p, u)
        BY <1>3, <2>0, <2>5 DEF Clearing
      <3>3. AsRead(o)'
        BY <2>1, <2>2 DEF AsRead, Replacing
      <3>4. Clean(u)'
        BY <1>1, <2>0, <3>1, <3>2, CleanUnwritten
      <3> QED BY <3>2, <3>3, <3>4, FreshAlone
    <2> QED BY <2>3, <2>4, <2>5
  <1>7. ASSUME NEW o \in Ops, CreateUser(o) PROVE Fresh(u)'
    <2>0. op[o].pc = "started" /\ op' = [op EXCEPT ![o] = IdleOp]
          /\ UNCHANGED <<scopes, cutShort>>
      BY <1>7 DEF CreateUser, Return, history
    <2>1. op'[o] = IdleOp /\ \A p \in Ops \ {o} : op'[p] = op[p]
      BY <1>1, <2>0 DEF TypeOK
    <2>2. ~Clearing(o, u)
      BY <2>0 DEF Clearing, Replacing
    <2>3. user'[u] = user[u] \/ scopes[u] = {}
      BY <1>1, <1>7 DEF CreateUser, TypeOK, Exists
    <2>4. Clean(u)'
      BY <1>1, <2>0, <2>1, <2>2, <2>3 DEF Clean, Clearing, Replacing
    <2>5. CASE op[o].target = u
      <3>1. \A p \in Ops \ {o} : op'[p].target # u
        BY <1>3, <2>0, <2>5
      <3>2. AsRead(o)'
        BY <1>2, <2>1 DEF AsRead, Replacing
      <3> QED BY <2>4, <3>1, <3>2, FreshAlone
    <2>6. CASE op[o].target # u
      <3>1. AloneOn(u)'
        BY <1>1, <1>2, <2>1 DEF AloneOn
      <3>2. CASE user'[u] = user[u]
        BY <1>2, <1>4, <2>0, <2>6, <3>2
      <3>3. ASSUME NEW p \in Ops, op'[p].target = u, scopes[u] = {}, user'[u] # user[u]
            PROVE  AsRead(p)'
        <4>1. op'[p] = op[p] /\ AsRead(p) /\ op[p].target = u
          BY <1>1, <1>2, <2>1, <3>3
        <4>2. user[u].status = "unborn"
          BY <1>1, <1>7, <3>3 DEF CreateUser, TypeOK
        <4>3. ~(Replacing(p) /\ op[p].kind # "update")
          BY <1>1, <4>1, <4>2 DEF AsRead, Unborn
        <4> QED BY <2>0, <4>1, <4>3 DEF AsRead, Replacing
      <3> QED BY <2>3, <2>4, <3>1, <3>2, <3>3 DEF Fresh
    <2> QED BY <2>5, <2>6
  \* The operation goes on to its next statement, having written nothing.
  <1>8. ASSUME NEW o \in Ops, NEW pc, ~Idle(o), GoTo(o, pc), ~Replacing(o),
               UNCHANGED <<user, scopes, cutShort>>,
               pc = "replacing" => op[o].kind # "update" /\ user[op[o].target].restricted,
               pc \notin {"deleting", "inserting"}
        PROVE  Fresh(u)'
    <2>1. op[o] \in OpStates
      BY <1>1 DEF TypeOK
    <2>2. PICK next : next = [op[o] EXCEPT !.pc = pc]
      OBVIOUS
    <2>3. /\ next.pc = pc /\ next.kind = op[o].kind /\ next.list = op[o].list
          /\ next.target = op[o].target
      BY <2>1, <2>2 DEF OpStates
    <2>4. op' = [op EXCEPT ![o] = next]
      BY <1>8, <2>2 DEF GoTo
    <2>5. CASE op[o].target = u
      <3>1. op'[o] = next /\ \A p \in Ops \ {o} : op'[p] = op[p] /\ op[p].target # u
        BY <1>3, <2>4, <2>5
      <3>2. AsRead(o)'
        BY <1>1, <1>8, <2>3, <2>5, <3>1 DEF AsRead, Replacing
      <3>3. Clean(u)'
        BY <1>1, <1>8, <3>1, CleanUnwritten DEF Clearing
      <3> QED BY <3>1, <3>2, <3>3, FreshAlone
    <2>6. CASE op[o].target # u
      BY <1>4, <1>8, <2>3, <2>4, <2>6
    <2> QED BY <2>5, <2>6
  <1>9. ASSUME NEW o \in Ops, LoadTarget(o) PROVE Fresh(u)'
    <2>1. ~Idle(o) /\ ~Replacing(o) /\ UNCHANGED <<user, scopes, cutShort>>
      BY <1>9 DEF LoadTarget, Replacing
    <2>2. CASE Return(o)
      BY <1>5, <2>1, <2>2
    <2>3. CASE GoTo(o, "replacing") /\ op[o].kind = "scopes" /\ user[op[o].target].restricted
      BY <1>8, <2>1, <2>3
    <2>4. CASE GoTo(o, "counting") \/ GoTo(o, "writing")
      BY <1>8, <2>1, <2>4
    <2> QED BY <1>9, <2>2, <2>3, <2>4 DEF LoadTarget, PassCheck
  <1>10. ASSUME NEW o \in Ops, CountAdmins(o) PROVE Fresh(u)'
    <2>1. ~Idle(o) /\ ~Replacing(o) /\ UNCHANGED <<user, scopes, cutShort>>
      BY <1>10 DEF CountAdmins, Replacing
    <2> QED BY <1>5, <1>8, <1>10, <2>1 DEF CountAdmins, PassCheck
  <1>11. ASSUME NEW o \in Ops, UpdateUser(o) PROVE Fresh(u)'
    <2>1. /\ op[o].pc = "writing" /\ UNCHANGED <<scopes, cutShort>>
          /\ op[o].target \in Users
      BY <1>1, <1>11 DEF UpdateUser, HasTarget, history
    <2>2. PICK next :
             /\ op' = [op EXCEPT ![o] = next]
             /\ next.pc = IF EffectiveRestricted(o) THEN "disconnecting" ELSE "replacing"
             /\ next.kind = "update" /\ next.target = op[o].target /\ next.list = {}
      <3>1. PICK next : next = [IdleOp EXCEPT
                !.pc = IF EffectiveRestricted(o) THEN "disconnecting" ELSE "replacing",
                !.kind = "update", !.target = op[o].target]
        OBVIOUS
      <3>2. /\ next.pc = IF EffectiveRestricted(o) THEN "disconnecting" ELSE "replacing"
            /\ next.kind = "update" /\ next.target = op[o].target /\ next.list = {}
        BY <3>1 DEF IdleOp
      <3>3. op' = [op EXCEPT ![o] = next]
        BY <1>11, <3>1 DEF UpdateUser
      <3> QED BY <3>2, <3>3
    <2>3. \A v \in Users \ {op[o].target} : user'[v] = user[v]
      BY <1>1, <1>11 DEF UpdateUser, TypeOK
    <2>4. CASE op[o].target # u
      BY <1>4, <2>1, <2>2, <2>3, <2>4
    <2>5. CASE op[o].target = u
      <3>1. op'[o] = next /\ \A p \in Ops \ {o} : op'[p] = op[p] /\ op[p].target # u
        BY <1>3, <2>2, <2>5
      <3>2. AsRead(o)'
        BY <2>2, <3>1 DEF AsRead, Replacing
      <3>3. u \in cutShort \/ user[u].restricted \/ scopes[u] = {}
        BY <1>1, <2>1, <3>1 DEF Clean, Clearing, Replacing
      <3>4. CASE ~EffectiveRestricted(o)
        <4>1. Clearing(o, u)'
          BY <2>2, <2>5, <3>1, <3>4 DEF Clearing, Replacing
        <4> QED BY <3>1, <3>2, <4>1, FreshAlone DEF Clean
      <3>5. CASE EffectiveRestricted(o)
        <4>1. user'[u].restricted \/ user'[u] = user[u]
          BY <1>1, <1>11, <2>5, <3>5 DEF UpdateUser, TypeOK, Row
        <4>2. Clean(u)'
          BY <2>1, <3>3, <4>1 DEF Clean
        <4> QED BY <3>1, <3>2, <4>2, FreshAlone
      <3> QED BY <3>4, <3>5
    <2> QED BY <2>4, <2>5
  <1>12. ASSUME NEW o \in Ops, DeleteUser(o) PROVE Fresh(u)'
    <2>1. op' = [op EXCEPT ![o] = IdleOp] /\ UNCHANGED cutShort
      BY <1>12 DEF DeleteUser, Return, history
    <2>2. CASE op[o].target # u
      <3>1. user'[u] = user[u] /\ scopes'[u] = scopes[u]
        BY <1>1, <1>12, <2>2 DEF DeleteUser, TypeOK
      <3> QED BY <1>2, <1>4, <2>1, <2>2, <3>1
    <2>3. CASE op[o].target = u
      <3>1. op'[o] = IdleOp /\ \A p \in Ops \ {o} : op'[p] = op[p] /\ op[p].target # u
        BY <1>3, <2>1, <2>3
      <3>2. AsRead(o)'
        BY <1>2, <3>1 DEF AsRead, Replacing
      <3>3. scopes'[u] = {}
        BY <1>1, <1>12, <2>3 DEF DeleteUser, TypeOK
      <3> QED BY <3>1, <3>2, <3>3, FreshAlone DEF Clean
    <2> QED BY <2>2, <2>3
  <1>13. ASSUME NEW o \in Ops, StartDelete(o) \/ DeleteScopeRows(o) PROVE Fresh(u)'
    <2>1. Replacing(o) /\ UNCHANGED <<user, scopes, cutShort>>
      BY <1>13 DEF StartDelete, DeleteScopeRows, Replacing, history
    <2>2. op[o] \in OpStates
      BY <1>1 DEF TypeOK
    <2>3. PICK next :
             /\ op' = [op EXCEPT ![o] = next]
             /\ next.pc \in {"deleting", "inserting"}
             /\ next.kind = op[o].kind /\ next.list = op[o].list
             /\ next.target = op[o].target
             /\ \/ next.gone = scopes[op[o].target]
                \/ op[o].pc = "deleting" /\ next.gone = op[o].gone
      <3>1. CASE StartDelete(o)
        <4>1. PICK next : next = [op[o] EXCEPT !.pc = "deleting",
                                               !.gone = scopes[op[o].target]]
          OBVIOUS
        <4>2. op' = [op EXCEPT ![o] = next]
          BY <3>1, <4>1 DEF StartDelete
        <4>3. /\ next.pc = "deleting" /\ next.kind = op[o].kind /\ next.list = op[o].list
              /\ next.target = op[o].target /\ next.gone = scopes[op[o].target]
          BY <2>2, <4>1 DEF OpStates
        <4> QED BY <4>2, <4>3
      <3>2. CASE DeleteScopeRows(o)
        <4>1. PICK next : next = [op[o] EXCEPT !.pc = "inserting"]
          OBVIOUS
        <4>2. op' = [op EXCEPT ![o] = next] /\ op[o].pc = "deleting"
          BY <3>2, <4>1 DEF DeleteScopeRows, GoTo
        <4>3. /\ next.pc = "inserting" /\ next.kind = op[o].kind /\ next.list = op[o].list
              /\ next.target = op[o].target /\ next.gone = op[o].gone
          BY <2>2, <4>1 DEF OpStates
        <4> QED BY <4>2, <4>3
      <3> QED BY <1>13, <3>1, <3>2
    <2>4. CASE op[o].target # u
      BY <1>4, <2>1, <2>3, <2>4
    <2>5. CASE op[o].target = u
      <3>1. op'[o] = next /\ \A p \in Ops \ {o} : op'[p] = op[p] /\ op[p].target # u
        BY <1>3, <2>3, <2>5
      <3>2. AsRead(o)
        BY <1>1, <2>5
      <3>3. AsRead(o)'
        BY <2>1, <2>3, <3>1, <3>2 DEF AsRead, Replacing
      <3>4. \A p \in Ops : Clearing(p, u) => Clearing(p, u)'
        BY <2>3, <3>1 DEF Clearing, Replacing
      <3>5. Clean(u)'
        BY <1>1, <2>1, <3>4, CleanUnwritten
      <3> QED BY <3>1, <3>3, <3>5, FreshAlone
    <2> QED BY <2>4, <2>5
  <1>14. ASSUME NEW o \in Ops, CommitScopes(o) PROVE Fresh(u)'
    <2> DEFINE v == op[o].target
    <2>1. Replacing(o) /\ UNCHANGED <<user, cutShort>> /\ v \in Users
      BY <1>1, <1>14 DEF CommitScopes, Replacing, history, HasTarget
    <2>2. scopes' = [scopes EXCEPT ![v] = KeptRows(o) \cup op[o].list]
      BY <1>14 DEF CommitScopes
    <2>3. op'[o].pc = "disconnecting" /\ op'[o].kind = op[o].kind
          /\ op'[o].list = op[o].list /\ op'[o].target = v
      BY <1>1, <1>14 DEF CommitScopes, TypeOK, OpStates
    <2>4. \A p \in Ops \ {o} :
             /\ op[p].target # v => op'[p] = op[p]
             /\ op'[p].target = op[p].target
      <3>1. \A p \in Ops \ {o} : op[p] \in OpStates
        BY <1>1 DEF TypeOK
      <3>2. \A p \in Ops \ {o} :
               op'[p] = IF op[p].target = v THEN [op[p] EXCEPT !.gone = @ \ op[o].list]
                                            ELSE op[p]
        BY <1>14 DEF CommitScopes
      <3> QED BY <3>1, <3>2 DEF OpStates
    <2>5. CASE v # u
      <3>1. \A p \in Ops : op[p].target = u \/ op'[p].target = u => op'[p] = op[p]
        BY <2>3, <2>4, <2>5
      <3>2. scopes'[u] = scopes[u]
        BY <1>1, <2>2, <2>5 DEF TypeOK
      <3> QED BY <1>1, <2>1, <3>1, <3>2, Elsewhere
    <2>6. CASE v = u
      <3>1. \A p \in Ops \ {o} : op'[p].target # u
        BY <1>1, <2>4, <2>6 DEF AloneOn
      <3>2. AsRead(o) /\ op[o].gone = scopes[u]
        BY <1>1, <1>14, <2>1, <2>6 DEF AsRead, CommitScopes
      <3>3. scopes'[u] = op[o].list
        BY <1>1, <2>2, <2>6, <3>2 DEF KeptRows, TypeOK
      <3>4. AsRead(o)'
        BY <2>1, <2>3, <3>2 DEF AsRead, Replacing
      <3>5. user[u].restricted \/ op[o].list = {}
        BY <2>1, <2>6, <3>2 DEF AsRead, Replacing
      <3>6. Clean(u)'
        BY <2>1, <3>3, <3>5 DEF Clean
      <3> QED BY <3>1, <3>4, <3>6, FreshAlone
    <2> QED BY <2>5, <2>6
  <1>15. ASSUME NEW o \in Ops, StatementFails(o) PROVE Fresh(u)'
    <2>1. /\ Return(o) /\ UNCHANGED <<user, scopes>>
          /\ cutShort \subseteq cutShort'
          /\ Replacing(o) => op[o].target \in cutShort'
      BY <1>15 DEF StatementFails, Replacing
    <2> QED BY <1>5, <2>1
  <1>16. ASSUME NEW o \in Ops, Disconnect(o) PROVE Fresh(u)'
    BY <1>5, <1>16 DEF Disconnect, history, Replacing
  <1>17. CASE UNCHANGED vars
    BY <1>1, <1>17, Elsewhere DEF vars, history
  <1> QED
    BY <1>6, <1>7, <1>9, <1>10, <1>11, <1>12, <1>13, <1>14, <1>15, <1>16, <1>17
    DEF Next, Proceed

\* Nobody who is unrestricted keeps scope rows while no operation on him is under way,
\* however operations on others interleave, unless two on him overlapped or a failure
\* cut his replacement short: the order in which updateAdminUserRole() writes the row
\* and the scopes is enough for that.
THEOREM NoRowsLeftBehind == Spec => []NoStaleScopes
  <1>1. Spec => []StaleInv
    BY InitStale, NextStale, PTL DEF Spec
  <1>2. StaleInv => NoStaleScopes
    BY DEF StaleInv, Fresh, Clean, Clearing, NoStaleScopes
  <1> QED BY <1>1, <1>2, PTL

-------------------------------------------------------------------------------
(* The browsers' connections of WsAccess, beside the operations.           *)

\* What WsAccess adds to a step leaves the administrators' operations as they are:
\* whatever is proved of AdminUsers holds beside the connections.
THEOREM AdminBesideConnections == AccessSpec => Spec
  <1>1. AccessInit => Init
    BY DEF AccessInit
  <1>2. [AccessNext]_accessVars => [Next]_vars
    BY DEF AccessNext, accessVars, Next, vars
  <1> QED BY <1>1, <1>2, PTL DEF AccessSpec, Spec

ConnStates ==
    [pc : {"idle", "session", "restricted", "ready", "open", "closing"},
     user : Users \cup {NoUser}, role : Roles,
     allowed : [restricted : BOOLEAN, scopes : SUBSET Scopes], raced : BOOLEAN]

\* An operation on u may have written, and will disconnect him or be cut short.
Written(u) ==
    \E o \in Ops :
        /\ op[o].target = u
        /\ op[o].pc \in {"replacing", "deleting", "inserting", "disconnecting"}

\* What the upgrade has read so far is what the tables say.
ReadTrue(c) ==
    LET u == conn[c].user IN
    /\ user[u].active
    /\ conn[c].role = user[u].role
    /\ IF conn[c].pc = "restricted" THEN user[u].restricted
                                    ELSE conn[c].allowed = Rights(u)

\* The connections the property is about, from the moment they have read the row.
Tracked(c) ==
    /\ conn[c].pc \in {"restricted", "ready", "open"}
    /\ Exists(conn[c].user) /\ conn[c].user \notin cutShort /\ ~conn[c].raced

\* A connection belongs to a user that was created, and has no scopes before it
\* has read them.
ConnTyped ==
    /\ conn \in [Conns -> ConnStates]
    /\ \A c \in Conns :
         /\ conn[c].pc # "idle" =>
                conn[c].user \in Users /\ user[conn[c].user].status # "unborn"
         /\ conn[c].pc = "session" => conn[c].allowed = Unrestricted

TrueOrPending ==
    \A c \in Conns : Tracked(c) => Written(conn[c].user) \/ ReadTrue(c)

AccessInv == Typed /\ ConnTyped /\ TrueOrPending

LEMMA InitAccess == AccessInit => AccessInv
  <1> SUFFICES ASSUME AccessInit PROVE AccessInv
    OBVIOUS
  <1>1. NoConn \in ConnStates /\ NoConn.pc = "idle"
    BY DEF NoConn, ConnStates, Roles, Unrestricted
  <1> QED BY <1>1, InitTyped DEF AccessInit, AccessInv, ConnTyped, TrueOrPending, Tracked

\* A step of an upgrade changes one connection, and none of the tables.
LEMMA UpgradeKeeps ==
    ASSUME AccessInv, NEW c \in Conns, Upgrade(c), UNCHANGED vars
    PROVE  AccessInv'
  <1>1. UNCHANGED <<user, scopes, op, cutShort>> /\ Typed'
    BY DEF AccessInv, Typed, TypeOK, HasTarget, Exists, vars, history
  <1>2. /\ conn \in [Conns -> ConnStates] /\ conn[c] \in ConnStates
        /\ user \in [Users -> Rows] /\ scopes \in [Users -> SUBSET Scopes]
    BY DEF AccessInv, ConnTyped, Typed, TypeOK
  <1>3. NoConn \in ConnStates /\ NoConn.pc = "idle"
    BY DEF NoConn, ConnStates, Roles, Unrestricted
  \* It is enough to look at the connection that moves.
  <1>4. ASSUME NEW next \in ConnStates, conn' = [conn EXCEPT ![c] = next],
               next.pc # "idle" =>
                   next.user \in Users /\ user[next.user].status # "unborn",
               next.pc = "session" => next.allowed = Unrestricted,
               Tracked(c)' => Written(next.user) \/ ReadTrue(c)'
        PROVE  AccessInv'
    <2>1. ConnTyped'
      BY <1>1, <1>2, <1>4 DEF AccessInv, ConnTyped
    <2>2. \A d \in Conns \ {c} : conn'[d] = conn[d]
      BY <1>2, <1>4
    <2>3. \A v : Written(v)' = Written(v)
      BY <1>1 DEF Written
    <2>4. ASSUME NEW d \in Conns \ {c}, Tracked(d)'
          PROVE  Written(conn[d].user)' \/ ReadTrue(d)'
      <3>1. Tracked(d) /\ conn'[d] = conn[d]
        BY <1>1, <2>2, <2>4 DEF Tracked, Exists
      <3>2. ReadTrue(d) => ReadTrue(d)'
        BY <1>1, <3>1 DEF ReadTrue, Rights
      <3> QED BY <2>3, <3>1, <3>2 DEF AccessInv, TrueOrPending
    <2>5. TrueOrPending'
      <3>1. conn'[c] = next
        BY <1>2, <1>4
      <3>2. Tracked(c)' => Written(conn[c].user)' \/ ReadTrue(c)'
        BY <1>4, <2>3, <3>1
      <3> QED BY <2>4, <3>2 DEF TrueOrPending
    <2> QED BY <1>1, <2>1, <2>5 DEF AccessInv
  <1>5. CASE Reject(c)
    BY <1>2, <1>3, <1>4, <1>5 DEF Reject, Tracked
  <1>6. CASE ResolveSession(c)
    <2>1. PICK u \in Users :
             /\ Exists(u)
             /\ conn' = [conn EXCEPT ![c] = [NoConn EXCEPT !.pc = "session", !.user = u]]
      BY <1>6 DEF ResolveSession
    <2> DEFINE next == [NoConn EXCEPT !.pc = "session", !.user = u]
    <2>2. next \in ConnStates /\ next.pc = "session" /\ next.user = u
          /\ next.allowed = Unrestricted
      BY DEF NoConn, ConnStates, Roles, Unrestricted
    <2>3. conn' = [conn EXCEPT ![c] = next] /\ conn'[c] = next
      BY <1>2, <2>1
    <2>4. ~Tracked(c)'
      BY <2>2, <2>3 DEF Tracked
    <2> HIDE DEF next
    <2>5. u \in Users /\ user[u].status # "unborn"
      BY <2>1 DEF Exists
    <2> QED BY <1>4, <2>2, <2>3, <2>4, <2>5
  <1>7. CASE LoadUser(c) /\ ~Reject(c)
    <2> DEFINE u == conn[c].user
               pc == IF user[u].restricted THEN "restricted" ELSE "ready"
               next == [conn[c] EXCEPT !.pc = pc, !.role = user[u].role]
    <2>1. /\ conn[c].pc = "session" /\ Exists(u) /\ user[u].active
          /\ conn' = [conn EXCEPT ![c].pc = pc, ![c].role = user[u].role]
      BY <1>7 DEF LoadUser
    <2>2. u \in Users /\ user[u] \in Rows /\ conn[c].allowed = Unrestricted
      BY <1>2, <2>1 DEF AccessInv, ConnTyped
    <2>3. /\ next \in ConnStates /\ next.pc = pc /\ next.user = u
          /\ next.role = user[u].role /\ next.allowed = Unrestricted
      BY <1>2, <2>2 DEF ConnStates, Rows
    <2>4. conn' = [conn EXCEPT ![c] = next] /\ conn'[c] = next
      BY <1>2, <2>1
    <2> HIDE DEF next
    <2>5. ReadTrue(c)'
      <3>1. conn'[c].pc = "restricted" => user'[conn'[c].user].restricted
        BY <1>1, <2>3, <2>4
      <3>2. conn'[c].pc # "restricted" => conn'[c].allowed = Rights(conn[c].user)'
        BY <1>1, <2>3, <2>4 DEF Rights
      <3> QED BY <1>1, <2>1, <2>3, <2>4, <3>1, <3>2 DEF ReadTrue
    <2>6. user[u].status # "unborn" /\ pc # "session" /\ pc # "idle"
      BY <2>1 DEF Exists
    <2> HIDE DEF pc
    <2> QED BY <1>4, <2>2, <2>3, <2>4, <2>5, <2>6
  <1>8. CASE LoadScopes(c)
    <2> DEFINE u == conn[c].user
               next == [conn[c] EXCEPT !.pc = "ready", !.allowed = Only(scopes[u])]
    <2>1. /\ conn[c].pc = "restricted"
          /\ conn' = [conn EXCEPT ![c].pc = "ready", ![c].allowed = Only(scopes[u])]
      BY <1>8 DEF LoadScopes
    <2>2. u \in Users /\ user[u].status # "unborn" /\ scopes[u] \in SUBSET Scopes
      BY <1>2, <2>1 DEF AccessInv, ConnTyped
    <2>3. /\ next \in ConnStates /\ next.pc = "ready" /\ next.user = u
          /\ next.role = conn[c].role /\ next.allowed = Only(scopes[u])
          /\ next.raced = conn[c].raced
      BY <1>2, <2>2 DEF ConnStates, Only
    <2>4. conn' = [conn EXCEPT ![c] = next] /\ conn'[c] = next
      BY <1>2, <2>1
    <2> HIDE DEF next
    <2>5. Tracked(c)' => Tracked(c)
      BY <1>1, <2>1, <2>3, <2>4 DEF Tracked, Exists
    <2>6. Tracked(c) /\ ReadTrue(c) => ReadTrue(c)'
      BY <1>1, <2>1, <2>3, <2>4 DEF ReadTrue, Rights
    <2>7. Tracked(c)' => Written(u) \/ ReadTrue(c)'
      BY <2>5, <2>6 DEF AccessInv, TrueOrPending
    <2> QED BY <1>4, <2>2, <2>3, <2>4, <2>7
  <1>9. CASE Open(c)
    <2> DEFINE u == conn[c].user
               next == [conn[c] EXCEPT !.pc = "open"]
    <2>1. conn[c].pc = "ready" /\ conn' = [conn EXCEPT ![c].pc = "open"]
      BY <1>9 DEF Open
    <2>2. u \in Users /\ user[u].status # "unborn"
      BY <2>1 DEF AccessInv, ConnTyped
    <2>3. /\ next \in ConnStates /\ next.pc = "open" /\ next.user = u
          /\ next.role = conn[c].role /\ next.allowed = conn[c].allowed
          /\ next.raced = conn[c].raced
      BY <1>2 DEF ConnStates
    <2>4. conn' = [conn EXCEPT ![c] = next] /\ conn'[c] = next
      BY <1>2, <2>1
    <2> HIDE DEF next
    <2>5. Tracked(c)' => Tracked(c)
      BY <1>1, <2>1, <2>3, <2>4 DEF Tracked, Exists
    <2>6. ReadTrue(c) => ReadTrue(c)'
      BY <1>1, <2>1, <2>3, <2>4 DEF ReadTrue, Rights
    <2>7. Tracked(c)' => Written(u) \/ ReadTrue(c)'
      BY <2>5, <2>6 DEF AccessInv, TrueOrPending
    <2> QED BY <1>4, <2>2, <2>3, <2>4, <2>7
  <1> QED BY <1>5, <1>6, <1>7, <1>8, <1>9 DEF Upgrade, Close

Pending == {"replacing", "deleting", "inserting", "disconnecting"}

\* What a step of the operations may do to a user: leave what his connections have
\* read true, or leave somebody to disconnect him.
Spared(u) ==
    \/ Written(u)'
    \/ u \in cutShort'
    \/ user[u].status = "unborn"
    \/ ~Exists(u)'
    \/ (Written(u) => Written(u)') /\ user'[u] = user[u] /\ scopes'[u] = scopes[u]

LEMMA SparedKeeps ==
    ASSUME AccessInv, Typed', UNCHANGED conn, cutShort \subseteq cutShort',
           \A u \in Users : user[u].status # "unborn" => user'[u].status # "unborn",
           \A u \in Users : Exists(u)' => Exists(u) \/ user[u].status = "unborn",
           \A u \in Users : Spared(u)
    PROVE  AccessInv'
  <1>1. ConnTyped'
    BY DEF AccessInv, ConnTyped
  <1>2. ASSUME NEW c \in Conns, Tracked(c)' PROVE Written(conn[c].user)' \/ ReadTrue(c)'
    <2> DEFINE u == conn[c].user
    <2>1. u \in Users /\ user[u].status # "unborn" /\ conn'[c] = conn[c]
      BY <1>2 DEF AccessInv, ConnTyped, Tracked
    <2>2. Exists(u)' /\ u \notin cutShort' /\ Exists(u)
      BY <1>2, <2>1 DEF Tracked
    <2>3. Tracked(c)
      BY <1>2, <2>1, <2>2 DEF Tracked
    <2>4. CASE Written(u)'
      BY <2>4
    <2>5. CASE (Written(u) => Written(u)') /\ user'[u] = user[u] /\ scopes'[u] = scopes[u]
      <3>1. ReadTrue(c) => ReadTrue(c)'
        BY <2>1, <2>5 DEF ReadTrue, Rights
      <3> QED BY <2>3, <2>5, <3>1 DEF AccessInv, TrueOrPending
    <2> QED BY <2>1, <2>2, <2>4, <2>5 DEF Spared
  <1> QED BY <1>1, <1>2 DEF AccessInv, TrueOrPending

\* An operation that has written stays so until it disconnects or fails.
LEMMA StaysWritten ==
    ASSUME NEW o \in Ops,
           \A p \in Ops \ {o} : op'[p].pc = op[p].pc /\ op'[p].target = op[p].target,
           op[o].pc \in Pending => op'[o].pc \in Pending /\ op'[o].target = op[o].target
    PROVE  \A u : Written(u) => Written(u)'
  BY DEF Written, Pending

LEMMA OperationKeeps ==
    ASSUME AccessInv, Typed', UNCHANGED conn,
           NEW o \in Ops, Request(o) \/ Proceed(o)
    PROVE  AccessInv'
  <1>1. /\ op \in [Ops -> OpStates] /\ user \in [Users -> Rows]
        /\ scopes \in [Users -> SUBSET Scopes] /\ HasTarget
    BY DEF AccessInv, Typed, TypeOK
  \* The steps that leave the tables alone.
  <1>2. ASSUME UNCHANGED <<user, scopes, cutShort>>,
               NEW next \in OpStates, op' = [op EXCEPT ![o] = next],
               op[o].pc \in Pending => next.pc \in Pending /\ next.target = op[o].target
        PROVE  AccessInv'
    <2>1. \A u : Written(u) => Written(u)'
      BY <1>1, <1>2, StaysWritten
    <2>2. \A u \in Users : Spared(u)
      BY <1>2, <2>1 DEF Spared
    <2> QED BY <1>2, <2>2, SparedKeeps DEF Exists
  <1>3. IdleOp \in OpStates /\ IdleOp.pc = "idle"
    BY DEF IdleOp, OpStates, Roles
  <1>4. CASE Request(o)
    <2>1. PICK actor \in Users, new \in Requests : Begin(o, actor, new)
      BY <1>4 DEF Request, Requests
    <2> QED BY <1>2, <2>1, RequestsTyped DEF Begin, Idle, Pending
  <1>5. CASE CreateUser(o)
    <2>1. \A u : Written(u) => Written(u)'
      BY <1>1, <1>3, <1>5, StaysWritten DEF CreateUser, Return, Pending
    <2>2. \A u \in Users : user'[u] = user[u] \/
                           (user[u].status = "unborn" /\ user'[u].status = "exists")
      BY <1>1, <1>5 DEF CreateUser, Row
    <2>3. \A u \in Users : Spared(u)
      BY <1>5, <2>1, <2>2 DEF CreateUser, Spared
    <2> QED BY <1>5, <2>2, <2>3, SparedKeeps DEF CreateUser, Exists, history
  <1>6. CASE LoadTarget(o)
    <2>1. UNCHANGED <<user, scopes, cutShort>> /\ op[o].pc = "started"
      BY <1>6 DEF LoadTarget
    <2>2. CASE Return(o)
      BY <1>2, <1>3, <2>1, <2>2 DEF Return, Pending
    <2>3. ASSUME NEW pc \in {"replacing", "counting", "writing"}, GoTo(o, pc)
          PROVE  AccessInv'
      <3> DEFINE next == [op[o] EXCEPT !.pc = pc]
      <3>1. next \in OpStates /\ op' = [op EXCEPT ![o] = next]
        BY <1>1, <2>3 DEF GoTo, OpStates
      <3> HIDE DEF next
      <3> QED BY <1>2, <2>1, <3>1 DEF Pending
    <2> QED BY <1>6, <2>2, <2>3 DEF LoadTarget, PassCheck
  <1>7. CASE CountAdmins(o)
    <2>1. UNCHANGED <<user, scopes, cutShort>> /\ op[o].pc = "counting"
      BY <1>7 DEF CountAdmins
    <2>2. CASE Return(o)
      BY <1>2, <1>3, <2>1, <2>2 DEF Return, Pending
    <2>3. CASE GoTo(o, "writing")
      <3> DEFINE next == [op[o] EXCEPT !.pc = "writing"]
      <3>1. next \in OpStates /\ op' = [op EXCEPT ![o] = next]
        BY <1>1, <2>3 DEF GoTo, OpStates
      <3> HIDE DEF next
      <3> QED BY <1>2, <2>1, <3>1 DEF Pending
    <2> QED BY <1>7, <2>2, <2>3 DEF CountAdmins, PassCheck
  <1>8. CASE UpdateUser(o)
    <2> PICK t : t = op[o].target
      OBVIOUS
    <2>1. t \in Users /\ op[o].pc = "writing"
      BY <1>1, <1>8 DEF UpdateUser, HasTarget
    <2>2. op'[o].pc \in Pending /\ op'[o].target = t /\ \A p \in Ops \ {o} : op'[p] = op[p]
      BY <1>1, <1>8 DEF UpdateUser, IdleOp, Pending
    <2>3. Written(t)'
      BY <2>2 DEF Written, Pending
    <2>4. \A u : Written(u) => Written(u)'
      BY <2>1, <2>2, StaysWritten DEF Pending
    <2>5. /\ \A u \in Users \ {t} : user'[u] = user[u]
          /\ user'[t] = user[t] \/ (Exists(t) /\ Exists(t)')
      BY <1>1, <1>8, <2>1 DEF UpdateUser, Row, Exists
    <2>6. \A u \in Users : Spared(u)
      BY <1>8, <2>3, <2>4, <2>5 DEF UpdateUser, Spared
    <2>7. \A u \in Users : user'[u].status = user[u].status
      BY <2>5 DEF Exists
    <2> QED BY <1>8, <2>6, <2>7, SparedKeeps DEF UpdateUser, Exists, history
  <1>9. CASE DeleteUser(o)
    <2> PICK t : t = op[o].target
      OBVIOUS
    <2>1. t \in Users /\ op[o].pc = "writing"
      BY <1>1, <1>9 DEF DeleteUser, HasTarget
    <2>2. \A u : Written(u) => Written(u)'
      BY <1>1, <1>3, <1>9, <2>1, StaysWritten DEF DeleteUser, Return, Pending
    <2>3. /\ \A u \in Users \ {t} : user'[u] = user[u] /\ scopes'[u] = scopes[u]
          /\ user'[t].status = "deleted"
      BY <1>1, <1>9, <2>1 DEF DeleteUser, Row
    <2>4. \A u \in Users : Spared(u)
      BY <2>2, <2>3 DEF Spared, Exists
    <2> QED BY <1>9, <2>3, <2>4, SparedKeeps DEF DeleteUser, Exists, history
  <1>10. CASE StartDelete(o)
    <2> DEFINE next == [op[o] EXCEPT !.pc = "deleting", !.gone = scopes[op[o].target]]
    <2>1. op[o].pc = "replacing" /\ op[o].target \in Users
      BY <1>1, <1>10 DEF StartDelete, HasTarget
    <2>2. /\ next \in OpStates /\ next.pc = "deleting" /\ next.target = op[o].target
          /\ op' = [op EXCEPT ![o] = next]
      BY <1>1, <1>10, <2>1 DEF StartDelete, OpStates
    <2> HIDE DEF next
    <2> QED BY <1>2, <1>10, <2>1, <2>2 DEF StartDelete, history, Pending
  <1>11. CASE DeleteScopeRows(o)
    <2> DEFINE next == [op[o] EXCEPT !.pc = "inserting"]
    <2>1. /\ next \in OpStates /\ next.pc = "inserting" /\ next.target = op[o].target
          /\ op' = [op EXCEPT ![o] = next]
      BY <1>1, <1>11 DEF DeleteScopeRows, GoTo, OpStates
    <2> HIDE DEF next
    <2> QED BY <1>2, <1>11, <2>1 DEF DeleteScopeRows, history, Pending
  <1>12. CASE CommitScopes(o)
    <2> PICK t : t = op[o].target
      OBVIOUS
    <2>1. /\ op'[o].pc = "disconnecting" /\ op'[o].target = t
          /\ \A p \in Ops \ {o} : op'[p].pc = op[p].pc /\ op'[p].target = op[p].target
      <3>1. \A p \in Ops : op'[p] = IF p = o THEN [op[o] EXCEPT !.pc = "disconnecting"]
                                    ELSE IF op[p].target = t
                                         THEN [op[p] EXCEPT !.gone = @ \ op[o].list]
                                         ELSE op[p]
        BY <1>12 DEF CommitScopes
      <3> QED BY <1>1, <3>1 DEF OpStates
    <2>2. Written(t)' /\ \A u : Written(u) => Written(u)'
      BY <2>1, StaysWritten DEF Written, Pending
    <2>3. \A u \in Users \ {t} : scopes'[u] = scopes[u]
      BY <1>1, <1>12 DEF CommitScopes
    <2>4. \A u \in Users : Spared(u)
      BY <1>12, <2>2, <2>3 DEF CommitScopes, Spared
    <2> QED BY <1>12, <2>4, SparedKeeps DEF CommitScopes, Exists, history
  \* Who fails after a write leaves the user among the cut short.
  <1>13. CASE StatementFails(o)
    <2> PICK t : t = op[o].target
      OBVIOUS
    <2>1. /\ UNCHANGED <<user, scopes>> /\ cutShort \subseteq cutShort'
          /\ op[o].pc \in Pending => t \in cutShort'
      BY <1>13 DEF StatementFails, Pending
    <2>2. \A p \in Ops \ {o} : op'[p] = op[p]
      BY <1>1, <1>13 DEF StatementFails, Return
    <2>3. \A u \in Users \ cutShort' : Written(u) => Written(u)'
      BY <2>1, <2>2 DEF Written, Pending
    <2>4. \A u \in Users : Spared(u)
      BY <2>1, <2>3 DEF Spared
    <2> QED BY <2>1, <2>4, SparedKeeps DEF Exists
  <1> QED
    BY <1>4, <1>5, <1>6, <1>7, <1>8, <1>9, <1>10, <1>11, <1>12, <1>13 DEF Proceed

\* The operation's last effect: what it changed does not matter to any connection
\* that is left open and was not raced.
LEMMA DisconnectKeeps ==
    ASSUME AccessInv, Typed',
           NEW o \in Ops, Disconnect(o), conn' = CloseConnections(op[o].target)
    PROVE  AccessInv'
  <1> DEFINE t == op[o].target
  <1>1. UNCHANGED <<user, scopes, cutShort>> /\ \A p \in Ops \ {o} : op'[p] = op[p]
    BY DEF Disconnect, Return, history, AccessInv, Typed, TypeOK
  <1>2. conn \in [Conns -> ConnStates]
    BY DEF AccessInv, ConnTyped
  <1>3. ASSUME NEW c \in Conns
        PROVE  /\ conn'[c] \in ConnStates
               /\ conn'[c].user = conn[c].user /\ conn'[c].allowed = conn[c].allowed
               /\ conn'[c].pc = "idle" <=> conn[c].pc = "idle"
               /\ conn'[c].pc = "session" <=> conn[c].pc = "session"
               /\ conn[c].user = t =>
                      conn'[c].raced \/ conn'[c].pc \notin {"restricted", "ready", "open"}
               /\ conn[c].user # t => conn'[c] = conn[c]
    <2>1. conn[c] \in ConnStates
      BY <1>2
    <2>2. conn'[c] = IF conn[c].user # t THEN conn[c]
                     ELSE IF conn[c].pc = "open" THEN [conn[c] EXCEPT !.pc = "closing"]
                     ELSE IF conn[c].pc \in {"restricted", "ready"}
                          THEN [conn[c] EXCEPT !.raced = TRUE]
                     ELSE conn[c]
      BY DEF CloseConnections
    <2>3. CASE conn[c].user # t
      BY <2>1, <2>2, <2>3
    <2>4. CASE conn[c].user = t /\ conn[c].pc = "open"
      BY <2>1, <2>2, <2>4 DEF ConnStates
    <2>5. CASE conn[c].user = t /\ conn[c].pc \in {"restricted", "ready"}
      <3>1. conn'[c] = [conn[c] EXCEPT !.raced = TRUE]
        BY <2>2, <2>5
      <3>2. conn'[c] \in ConnStates /\ conn'[c].raced
        BY <2>1, <3>1 DEF ConnStates
      <3>3. conn'[c].pc = conn[c].pc /\ conn'[c].user = t /\ conn'[c].allowed = conn[c].allowed
        BY <2>1, <2>5, <3>1 DEF ConnStates
      <3> QED BY <2>5, <3>2, <3>3
    <2>6. CASE conn[c].user = t /\ conn[c].pc \notin {"open", "restricted", "ready"}
      BY <2>1, <2>2, <2>6
    <2> QED BY <2>3, <2>4, <2>5, <2>6
  <1>4. ConnTyped'
    <2>1. conn' \in [Conns -> ConnStates]
      BY <1>3 DEF CloseConnections
    <2> QED BY <1>1, <1>3, <2>1 DEF AccessInv, ConnTyped
  <1>5. ASSUME NEW c \in Conns, Tracked(c)' PROVE Written(conn[c].user)' \/ ReadTrue(c)'
    <2>1. conn[c].user # t /\ conn'[c] = conn[c] /\ Tracked(c)
      BY <1>1, <1>3, <1>5 DEF Tracked, Exists
    <2>2. ReadTrue(c) => ReadTrue(c)'
      BY <1>1, <2>1 DEF ReadTrue, Rights
    <2>3. Written(conn[c].user) => Written(conn[c].user)'
      BY <1>1, <2>1 DEF Written
    <2> QED BY <2>1, <2>2, <2>3 DEF AccessInv, TrueOrPending
  <1> QED BY <1>4, <1>5 DEF AccessInv, TrueOrPending

LEMMA NextAccess == AccessInv /\ [AccessNext]_accessVars => AccessInv'
  <1> SUFFICES ASSUME AccessInv, [AccessNext]_accessVars PROVE AccessInv'
    OBVIOUS
  <1>1. [Next]_vars
    BY DEF AccessNext, accessVars, Next, vars
  <1>2. Typed'
    BY <1>1, NextTyped DEF AccessInv
  <1>3. ASSUME NEW o \in Ops, (Request(o) \/ Proceed(o)) /\ UNCHANGED conn PROVE AccessInv'
    BY <1>2, <1>3, OperationKeeps
  <1>4. ASSUME NEW o \in Ops, Disconnect(o) /\ conn' = CloseConnections(op[o].target)
        PROVE  AccessInv'
    BY <1>2, <1>4, DisconnectKeeps
  <1>5. ASSUME NEW c \in Conns, Upgrade(c) /\ UNCHANGED vars PROVE AccessInv'
    BY <1>5, UpgradeKeeps
  <1>6. CASE UNCHANGED accessVars
    BY <1>2, <1>6 DEF accessVars, vars, history, AccessInv, ConnTyped, TrueOrPending, Tracked,
                      Written, ReadTrue, Rights, Exists
  <1> QED BY <1>3, <1>4, <1>5, <1>6 DEF AccessNext

\* Once an operation on a user is over, his open connections have what it wrote,
\* except for an upgrade that it raced: for any number of operations that overlap,
\* on one user or many, and of connections.
THEOREM RightsStayFresh == AccessSpec => []FreshUnlessRaced
  <1>1. AccessSpec => []AccessInv
    BY InitAccess, NextAccess, PTL DEF AccessSpec
  <1>2. AccessInv => FreshUnlessRaced
    <2> SUFFICES ASSUME AccessInv, NEW c \in Conns, Settled(c), ~conn[c].raced
                 PROVE  UpToDate(c)
      BY DEF FreshUnlessRaced
    <2>1. Tracked(c) /\ conn[c].pc = "open"
      BY DEF Settled, Tracked
    <2>2. ~Written(conn[c].user)
      BY DEF Settled, Changing, Written
    <2>3. ReadTrue(c)
      BY <2>1, <2>2 DEF AccessInv, TrueOrPending
    <2> QED BY <2>1, <2>3 DEF ReadTrue, UpToDate
  <1> QED BY <1>1, <1>2, PTL

===============================================================================
