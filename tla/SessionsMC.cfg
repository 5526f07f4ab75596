SPECIFICATION SessionsSpec

CONSTANTS
    Requests = {r1, r2}
    Secrets = {s1, s2, s3}
    NoSecret = NoSecret
    CodeCount = 2
    MaxCodes = 8
    Rows = {row1, row2}
    Logins = {l1}

INVARIANTS
    TypeOK
    SecretConfirmed
    CodesOfOneSetup
    ResetEndsSessions

SYMMETRY Symmetry
