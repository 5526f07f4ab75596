SPECIFICATION AccessSpec

CONSTANTS
    Users = {u1, u2}
    FirstAdmins = {u1}
    FirstRestricted = {u2}
    Scopes = {a1}
    Ops = {o1}
    Conns = {c1}
    NoUser = NoUser

INVARIANT FreshUnlessRaced

\* See AdminUsersMC.cfg.
CHECK_DEADLOCK FALSE
