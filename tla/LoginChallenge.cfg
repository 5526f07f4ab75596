SPECIFICATION Spec

CONSTANTS
    Requests = {r1, r2, r3}
    Challenges = {c1}
    Codes = {k1}
    NoCode = NoCode
    NoChallenge = NoChallenge
    MaxAttempts = 2

INVARIANTS
    TypeOK
    AttemptsBound

PROPERTIES
    LateComersRefused
    CodeDeadOnceUsed
