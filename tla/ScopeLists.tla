------------------------------ MODULE ScopeLists ------------------------------
(***************************************************************************)
(* The lists of scopes that administrators send, beside the rows that the  *)
(* operations of AdminUsers leave in auth.user_scope_access.               *)
(***************************************************************************)
EXTENDS AdminUsers

VARIABLE sent      \* history: the lists that were sent for every user

ListsInHand(u) ==
    {op[o].list : o \in {p \in Ops : op[p].kind = "scopes" /\ op[p].target = u}}

ListsInit == Init /\ sent = [u \in Users |-> {}]

ListsNext == Next /\ sent' = [u \in Users |-> sent[u] \cup ListsInHand(u)']

ListsSpec == ListsInit /\ [][ListsNext]_<<vars, sent>>

\* replaceScopesForUser() replaces the whole set in one go, the administrator
\* sends the complete final list: a user's scopes are one of the lists that were
\* sent, or none.  Two transactions at once leave the union of two lists, since
\* neither DELETE sees the rows of the other.
WholeLists == \A u \in Users : scopes[u] \in sent[u] \cup {{}}

===============================================================================
