SPECIFICATION Spec

CONSTANTS
    Backups = {b1, b2}
    Requests = {q1}
    Restores = {x1}
    Tables = {t1, t2}
    NoRequest = NoRequest
    Retention = 1
    MaxTime = 2

INVARIANTS
    TypeOK
    AckedOnDisk
    AnsweredWithFile

PROPERTY
    ImplementsBackupRequests

\* Every backup, request and restore of the instance may be over.
CHECK_DEADLOCK FALSE
