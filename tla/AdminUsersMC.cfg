SPECIFICATION Spec
SYMMETRY Interchangeable

CONSTANTS
    Users = {u1, u2}
    FirstAdmins = {u1}
    FirstRestricted = {}
    Scopes = {a1}
    Ops = {o1, o2}
    NoUser = NoUser

INVARIANTS
    TypeOK
    AdminRemains
    AdminUnrestricted
    NoStaleScopes

\* Once two administrators have removed each other nobody can start anything.
CHECK_DEADLOCK FALSE
