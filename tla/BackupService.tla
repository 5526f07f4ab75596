---------------------------- MODULE BackupService -----------------------------
(***************************************************************************)
(* services/BackupService.ts: backups that the iRidium server streams to   *)
(* this process (begin, tables, end) become files; administrators ask for  *)
(* one, and have one restored.  handleBackupEnd() runs from await to await, *)
(* so several backups and a crash interleave with it.                      *)
(*                                                                         *)
(* A file is named by the second it is made in, so it is modelled by that  *)
(* second.  A message that gets lost upstream simply does not come.        *)
(***************************************************************************)
EXTENDS Integers

CONSTANTS
    Backups,              \* backupIds the server gives
    Requests,             \* requestIds of manual backups
    Restores,             \* requestIds of restores
    Tables,               \* BACKUP_TABLES
    NoRequest,            \* requestId = null: a daily backup
    Retention,            \* retentionDays, in the unit of time
    MaxTime               \* bound on the time

ASSUME BackupAssumption ==
    /\ NoRequest \notin Requests /\ Requests \cap Restores = {}
    /\ Retention \in Nat /\ MaxTime \in Nat

VARIABLES
    now,
    backup,               \* every backup: pendingBackups, then its handler
    fileOf,               \* the name of its file
    disk,                 \* the files in backupsDir
    answers,              \* what every manual backup answered
    restores,             \* what every restore answered
    acks,                 \* history: the dbBackupAck sent for every backup
    notified              \* history: what an administrator was notified of

vars == <<now, backup, fileOf, disk, answers, restores, acks, notified>>

Seconds == 0 .. MaxTime
NoFile == -1

Nothing == [what |-> "nothing", of |-> {}]       \* no such file
Garbled == [what |-> "garbled", of |-> {}]       \* no valid JSON
Dump(tables) == [what |-> "dump", of |-> tables]

Init ==
    /\ now = 0
    /\ backup = [b \in Backups |-> [pc |-> "none", tables |-> {}, request |-> NoRequest]]
    /\ fileOf = [b \in Backups |-> NoFile]
    /\ disk = [s \in Seconds |-> Nothing]
    /\ answers = [q \in Requests |-> "none"]
    /\ restores = [x \in Restores |-> "none"]
    /\ acks = [b \in Backups |-> {}]
    /\ notified = {}

At(b, pc) == backup[b].pc = pc

GoTo(b, pc) == backup' = [backup EXCEPT ![b].pc = pc]

Ack(b, success) == acks' = [acks EXCEPT ![b] = @ \cup {success}]

-------------------------------------------------------------------------------
(* Manual backups                                                          *)

\* triggerManualBackup(): "backupNow" is sent, and the timer is set.
TriggerManualBackup(q) ==
    /\ answers[q] = "none"
    /\ answers' = [answers EXCEPT ![q] = "waiting"]
    /\ UNCHANGED <<now, backup, fileOf, disk, restores, acks, notified>>

\* The request's timer fires: whatever comes later is nobody's answer.
RequestTimesOut(q) ==
    /\ answers[q] = "waiting"
    /\ answers' = [answers EXCEPT ![q] = "timeout"]
    /\ UNCHANGED <<now, backup, fileOf, disk, restores, acks, notified>>

\* resolvePending() and rejectPending(): nothing without an entry in the map.
AnswerAnyway(b, answer) ==
    LET q == backup[b].request IN
    answers' = IF q \in Requests THEN [answers EXCEPT ![q] = answer] ELSE answers

Answer(b, answer) ==
    LET q == backup[b].request IN
    answers' = IF q \in Requests /\ answers[q] = "waiting"
               THEN [answers EXCEPT ![q] = answer]
               ELSE answers

-------------------------------------------------------------------------------
(* The messages of a backup                                                *)

\* dbBackupBegin, of a daily backup or for a request that was made before.
BackupBegin(b, q) ==
    /\ At(b, "none")
    /\ q # NoRequest => answers[q] # "none" /\ \A c \in Backups : backup[c].request # q
    /\ backup' = [backup EXCEPT ![b] = [pc |-> "receiving", tables |-> {}, request |-> q]]
    /\ UNCHANGED <<now, fileOf, disk, answers, restores, acks, notified>>

\* dbBackupTable.
BackupTable(b, t) ==
    /\ At(b, "receiving")
    /\ backup' = [backup EXCEPT ![b].tables = @ \cup {t}]
    /\ UNCHANGED <<now, fileOf, disk, answers, restores, acks, notified>>

\* dbBackupEnd, up to the first await (mkdir).
BackupEnd(b) ==
    /\ At(b, "receiving")
    /\ GoTo(b, "ended")
    /\ UNCHANGED <<now, fileOf, disk, answers, restores, acks, notified>>

\* writeBackupFile(): the file gets its name, and is truncated or made.
OpenRoundedUp(b) ==
    /\ At(b, "ended")
    /\ fileOf' = [fileOf EXCEPT ![b] = now + 1]
    /\ disk' = [disk EXCEPT ![now + 1] = Garbled]
    /\ GoTo(b, "writing")
    /\ UNCHANGED <<now, answers, restores, acks, notified>>

OpenAndAck(b) ==
    /\ At(b, "ended")
    /\ fileOf' = [fileOf EXCEPT ![b] = now]
    /\ disk' = [disk EXCEPT ![now] = Garbled]
    /\ GoTo(b, "writing")
    /\ Ack(b, TRUE)
    /\ UNCHANGED <<now, answers, restores, notified>>

OpenFile(b) ==
    /\ At(b, "ended")
    /\ fileOf' = [fileOf EXCEPT ![b] = now]
    /\ disk' = [disk EXCEPT ![now] = Garbled]
    /\ GoTo(b, "writing")
    /\ UNCHANGED <<now, answers, restores, acks, notified>>

\* Two backups ended in the same second have one file.
Shared(b) == \E c \in Backups \ {b} : fileOf[c] = fileOf[b]

\* The file is written, and acknowledged.
FinishAndAnswer(b) ==
    /\ At(b, "writing")
    /\ disk' = [disk EXCEPT ![fileOf[b]] = Dump(backup[b].tables)]
    /\ GoTo(b, "pruning")
    /\ Ack(b, TRUE)
    /\ Answer(b, "file")
    /\ UNCHANGED <<now, fileOf, restores, notified>>

FinishFile(b) ==
    /\ At(b, "writing")
    /\ \E content \in {Dump(backup[b].tables)} \cup (IF Shared(b) THEN {Garbled} ELSE {}) :
         disk' = [disk EXCEPT ![fileOf[b]] = content]
    /\ GoTo(b, "pruning")
    /\ Ack(b, TRUE)
    /\ UNCHANGED <<now, fileOf, answers, restores, notified>>

\* pruneOldBackups(): what is older than the retention, by createdAt or by mtime,
\* is removed; a removal that fails is not noticed.
Expired(s) == s < now - Retention

Prune(b) ==
    /\ At(b, "pruning")
    /\ \E removed \in SUBSET {s \in Seconds : Expired(s)} :
         disk' = [s \in Seconds |-> IF s \in removed THEN Nothing ELSE disk[s]]
    /\ Answer(b, "file")
    /\ GoTo(b, "over")
    /\ UNCHANGED <<now, fileOf, restores, acks, notified>>

\* Any await of handleBackupEnd() throws (so does the listing of the files, when
\* another backup prunes one of them): the catch clause.
BackupFails(b) ==
    /\ backup[b].pc \in {"ended", "writing", "pruning"}
    /\ Ack(b, FALSE)
    /\ Answer(b, "error")
    /\ notified' = notified \cup {backup[b].request}
    /\ GoTo(b, "over")
    /\ UNCHANGED <<now, fileOf, disk, restores>>

-------------------------------------------------------------------------------
(* Restores                                                                *)

\* restoreFromFile(): the file is read and parsed (there may be no such file, or no
\* valid JSON in it), and sent table by table.
RestoreFromFile(x, s) ==
    /\ restores[x] = "none"
    /\ restores' = [restores EXCEPT ![x] =
                       IF disk[s] \in {Nothing, Garbled} THEN "refused" ELSE "waiting"]
    /\ UNCHANGED <<now, backup, fileOf, disk, answers, acks, notified>>

RestoreTimesOut(x) ==
    /\ restores[x] = "waiting"
    /\ restores' = [restores EXCEPT ![x] = "timeout"]
    /\ UNCHANGED <<now, backup, fileOf, disk, answers, acks, notified>>

\* handleRestoreResult(): a failure is notified even when it comes too late.
RestoreResult(x, success) ==
    /\ restores[x] \in {"waiting", "timeout", "broken"}
    /\ restores' = IF restores[x] # "waiting" THEN restores
                   ELSE [restores EXCEPT ![x] = IF success THEN "restored" ELSE "error"]
    /\ notified' = IF success THEN notified ELSE notified \cup {x}
    /\ UNCHANGED <<now, backup, fileOf, disk, answers, acks>>

-------------------------------------------------------------------------------
Tick ==
    /\ now < MaxTime
    /\ now' = now + 1
    /\ UNCHANGED <<backup, fileOf, disk, answers, restores, acks, notified>>

\* The process ends and is started again: the maps are empty, the files stay.
Crash ==
    /\ backup' = [b \in Backups |-> IF At(b, "none") THEN backup[b]
                                    ELSE [backup[b] EXCEPT !.pc = "over"]]
    /\ answers' = [q \in Requests |-> IF answers[q] = "waiting" THEN "broken"
                                      ELSE answers[q]]
    /\ restores' = [x \in Restores |-> IF restores[x] = "waiting" THEN "broken"
                                       ELSE restores[x]]
    /\ UNCHANGED <<now, fileOf, disk, acks, notified>>

Manual == \E q \in Requests : TriggerManualBackup(q) \/ RequestTimesOut(q)

Stream(b) ==
    \/ \E q \in Requests \cup {NoRequest} : BackupBegin(b, q)
    \/ \E t \in Tables : BackupTable(b, t)
    \/ BackupEnd(b)

HandleEnd(b) == OpenFile(b) \/ FinishFile(b) \/ Prune(b) \/ BackupFails(b)

Restore(x) ==
    \/ \E s \in Seconds : RestoreFromFile(x, s)
    \/ RestoreTimesOut(x)
    \/ \E success \in BOOLEAN : RestoreResult(x, success)

Next ==
    \/ Manual \/ Tick \/ Crash
    \/ \E b \in Backups : Stream(b) \/ HandleEnd(b)
    \/ \E x \in Restores : Restore(x)

SafeSpec == Init /\ [][Next]_vars

\* A timer that is set fires.
Spec ==
    /\ SafeSpec
    /\ \A q \in Requests : WF_vars(RequestTimesOut(q))
    /\ \A x \in Restores : WF_vars(RestoreTimesOut(x))

-------------------------------------------------------------------------------
(* Properties                                                              *)

Contents == {Nothing, Garbled} \cup {Dump(tables) : tables \in SUBSET Tables}

TypeOK ==
    /\ now \in Seconds
    /\ backup \in [Backups ->
          [pc : {"none", "receiving", "ended", "writing", "pruning", "over"},
           tables : SUBSET Tables, request : Requests \cup {NoRequest}]]
    /\ fileOf \in [Backups -> Seconds \cup {NoFile}]
    /\ disk \in [Seconds -> Contents]
    /\ answers \in [Requests -> {"none", "waiting", "file", "error", "timeout", "broken"}]
    /\ restores \in [Restores -> {"none", "refused", "waiting", "restored", "error",
                                  "timeout", "broken"}]
    /\ acks \in [Backups -> SUBSET BOOLEAN]
    /\ notified \subseteq Requests \cup {NoRequest} \cup Restores

OnDisk(b) == disk[fileOf[b]] = Dump(backup[b].tables)

Retained(b) == fileOf[b] >= now - Retention

\* What was acknowledged to the server is a file with the tables it sent, through
\* other backups, failures and crashes, as long as the retention lasts, unless
\* another backup ended in the same second.
AckedOnDisk ==
    \A b \in Backups : TRUE \in acks[b] /\ Retained(b) /\ ~Shared(b) => OnDisk(b)

\* An administrator who is answered with a file has a backup that the server saw
\* acknowledged and never refused, and no failure of which is notified: the
\* answer, the acknowledgement and the notification agree, also when pruning fails.
AnsweredWithFile ==
    \A q \in Requests : answers[q] = "file" =>
        /\ q \notin notified
        /\ \E b \in Backups : backup[b].request = q /\ acks[b] = {TRUE}

\* Requests are answered once, in the end, and with a file only when the backup
\* made for them was stored: a late answer, a timer that fires late, a failure
\* after the acknowledgement and a crash do not change what was said before.
Promised == INSTANCE BackupRequests WITH
    stored <- {b \in Backups : TRUE \in acks[b]},
    servedBy <- [b \in Backups |-> backup[b].request]

ImplementsBackupRequests == Promised!Spec

===============================================================================
