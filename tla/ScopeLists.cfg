SPECIFICATION ListsSpec

CONSTANTS
    Users = {u1, u2}
    FirstAdmins = {u1}
    FirstRestricted = {u2}
    Scopes = {a1, a2}
    Ops = {o1, o2}
    NoUser = NoUser

INVARIANT WholeLists

\* See AdminUsersMC.cfg.
CHECK_DEADLOCK FALSE
