SPECIFICATION LockoutSpec

CONSTANTS
    Logins = {r1, r2, r3}
    MaxFailed = 3
    SmallintMax = 5
    MaxLost = 2

INVARIANTS
    LockoutTypeOK
    GuessesBound

\* A user whose every request waits for an UPDATE that cannot succeed, past the
\* bound MaxLost, takes no further step.
CHECK_DEADLOCK FALSE
