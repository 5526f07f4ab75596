------------------------- MODULE BackupService_proofs -------------------------
(***************************************************************************)
(* Backups and restores, for any number of them and any retention: what is *)
(* acknowledged is on disk, who is answered with a file has one, and every *)
(* behaviour is one of BackupRequests.                                     *)
(***************************************************************************)
EXTENDS BackupService, TLAPS

BackupStates ==
    [pc : {"none", "receiving", "ended", "writing", "pruning", "over"},
     tables : SUBSET Tables, request : Requests \cup {NoRequest}]

LEMMA TypeInit == Init => TypeOK
<1> SUFFICES ASSUME Init PROVE TypeOK
  OBVIOUS
<1>1. 0 \in Seconds /\ now = 0
  BY BackupAssumption DEF Init, Seconds
<1>2. [pc |-> "none", tables |-> {}, request |-> NoRequest] \in BackupStates
  BY DEF BackupStates
<1> QED BY <1>1, <1>2 DEF Init, TypeOK, Contents, BackupStates

\* The parts of the type that several actions change.
LEMMA GoToTyped ==
    ASSUME TypeOK, NEW b \in Backups, NEW pc \in {"ended", "writing", "pruning", "over"},
           GoTo(b, pc)
    PROVE  backup' \in [Backups -> BackupStates]
<1>1. backup[b] \in BackupStates
  BY DEF TypeOK, BackupStates
<1>2. [backup[b] EXCEPT !.pc = pc] \in BackupStates
  BY <1>1 DEF BackupStates
<1> QED BY <1>2 DEF GoTo, TypeOK, BackupStates

LEMMA AckTyped ==
    ASSUME TypeOK, NEW b \in Backups, NEW success \in BOOLEAN, Ack(b, success)
    PROVE  acks' \in [Backups -> SUBSET BOOLEAN]
<1>1. acks[b] \cup {success} \in SUBSET BOOLEAN
  BY DEF TypeOK
<1> QED BY <1>1 DEF Ack, TypeOK

LEMMA AnswerTyped ==
    ASSUME TypeOK, NEW b \in Backups, NEW answer \in {"file", "error"}, Answer(b, answer)
    PROVE  answers' \in [Requests -> {"none", "waiting", "file", "error", "timeout", "broken"}]
BY DEF Answer, TypeOK

LEMMA TypeStep == TypeOK /\ [Next]_vars => TypeOK'
<1> SUFFICES ASSUME TypeOK, [Next]_vars PROVE TypeOK'
  OBVIOUS
<1>1. ASSUME NEW q \in Requests PROVE TriggerManualBackup(q) \/ RequestTimesOut(q) => TypeOK'
  BY DEF TypeOK, TriggerManualBackup, RequestTimesOut
<1>2. ASSUME NEW b \in Backups, NEW q \in Requests \cup {NoRequest}, BackupBegin(b, q)
      PROVE  TypeOK'
  <2>1. [pc |-> "receiving", tables |-> {}, request |-> q] \in BackupStates
    BY DEF BackupStates
  <2> QED BY <1>2, <2>1 DEF BackupBegin, TypeOK, BackupStates
<1>3. ASSUME NEW b \in Backups, NEW t \in Tables, BackupTable(b, t)
      PROVE  TypeOK'
  <2>1. backup[b] \in BackupStates
    BY DEF TypeOK, BackupStates
  <2>2. [backup[b] EXCEPT !.tables = @ \cup {t}] \in BackupStates
    BY <2>1 DEF BackupStates
  <2> QED BY <1>3, <2>2 DEF BackupTable, TypeOK, BackupStates
<1>4. ASSUME NEW b \in Backups, BackupEnd(b) PROVE TypeOK'
  BY <1>4, GoToTyped DEF BackupEnd, TypeOK, BackupStates
<1>5. ASSUME NEW b \in Backups, OpenFile(b) PROVE TypeOK'
  <2>1. fileOf' \in [Backups -> Seconds \cup {NoFile}]
    BY <1>5 DEF OpenFile, TypeOK
  <2>2. disk' \in [Seconds -> Contents]
    BY <1>5 DEF OpenFile, TypeOK, Contents
  <2> QED BY <1>5, <2>1, <2>2, GoToTyped DEF OpenFile, TypeOK, BackupStates
<1>6. ASSUME NEW b \in Backups, FinishFile(b) PROVE TypeOK'
  <2>1. Dump(backup[b].tables) \in Contents /\ Garbled \in Contents
    BY DEF TypeOK, Contents
  <2>2. disk' \in [Seconds -> Contents]
    BY <1>6, <2>1 DEF FinishFile, TypeOK
  <2> QED BY <1>6, <2>2, GoToTyped, AckTyped DEF FinishFile, TypeOK, BackupStates
<1>7. ASSUME NEW b \in Backups, Prune(b) PROVE TypeOK'
  <2>1. disk' \in [Seconds -> Contents]
    BY <1>7 DEF Prune, TypeOK, Contents
  <2> QED BY <1>7, <2>1, GoToTyped, AnswerTyped DEF Prune, TypeOK, BackupStates
<1>8. ASSUME NEW b \in Backups, BackupFails(b) PROVE TypeOK'
  <2>1. notified' \subseteq Requests \cup {NoRequest} \cup Restores
    BY <1>8 DEF BackupFails, TypeOK
  <2> QED BY <1>8, <2>1, GoToTyped, AckTyped, AnswerTyped DEF BackupFails, TypeOK, BackupStates
<1>9. ASSUME NEW x \in Restores, Restore(x) PROVE TypeOK'
  <2>1. restores' \in [Restores -> {"none", "refused", "waiting", "restored", "error",
                                   "timeout", "broken"}]
    BY <1>9 DEF Restore, RestoreFromFile, RestoreTimesOut, RestoreResult, TypeOK
  <2>2. notified' \subseteq Requests \cup {NoRequest} \cup Restores
    BY <1>9 DEF Restore, RestoreFromFile, RestoreTimesOut, RestoreResult, TypeOK
  <2>3. UNCHANGED <<now, backup, fileOf, disk, answers, acks>>
    BY <1>9 DEF Restore, RestoreFromFile, RestoreTimesOut, RestoreResult
  <2> QED BY <2>1, <2>2, <2>3 DEF TypeOK
<1>10. CASE Tick
  BY <1>10, BackupAssumption DEF Tick, TypeOK, Seconds
<1>11. CASE Crash
  <2>1. \A b \in Backups : [backup[b] EXCEPT !.pc = "over"] \in BackupStates
    BY DEF TypeOK, BackupStates
  <2>2. backup' \in [Backups -> BackupStates]
    BY <1>11, <2>1 DEF Crash, TypeOK, BackupStates
  <2> QED BY <1>11, <2>2 DEF Crash, TypeOK, BackupStates
<1>12. CASE UNCHANGED vars
  BY <1>12 DEF vars, TypeOK
<1> QED
  BY <1>1, <1>2, <1>3, <1>4, <1>5, <1>6, <1>7, <1>8, <1>9, <1>10, <1>11, <1>12
  DEF Next, Manual, Stream, HandleEnd

LEMMA TypeInvariant == SafeSpec => []TypeOK
BY TypeInit, TypeStep, PTL DEF SafeSpec

-------------------------------------------------------------------------------
(* Acknowledged files                                                      *)

\* A backup has its file from when it is opened, and is acknowledged only then.
Named ==
    \A b \in Backups :
        /\ backup[b].pc \in {"none", "receiving", "ended"} => fileOf[b] = NoFile
        /\ backup[b].pc \in {"writing", "pruning"} \/ TRUE \in acks[b] => fileOf[b] \in Seconds
        /\ TRUE \in acks[b] => backup[b].pc \in {"pruning", "over"}

DiskInv == Named /\ AckedOnDisk

LEMMA DiskInit == Init => DiskInv
BY DEF Init, DiskInv, Named, AckedOnDisk

\* A step that changes no file, and of the backups neither names nor contents.
LEMMA DiskUntouched ==
    ASSUME TypeOK, AckedOnDisk, UNCHANGED <<fileOf, disk, acks>>, now' \in Int, now <= now',
           \A b \in Backups : TRUE \in acks[b] => backup'[b].tables = backup[b].tables
    PROVE  AckedOnDisk'
<1> SUFFICES ASSUME NEW b \in Backups, TRUE \in acks[b], Retained(b)', ~Shared(b)
             PROVE  OnDisk(b)'
  BY DEF AckedOnDisk, Shared
<1>1. Retained(b)
  BY BackupAssumption DEF Retained, TypeOK, Seconds, NoFile
<1> QED BY <1>1 DEF AckedOnDisk, OnDisk

LEMMA DiskStep == TypeOK /\ DiskInv /\ [Next]_vars => DiskInv'
<1> SUFFICES ASSUME TypeOK, DiskInv, [Next]_vars PROVE DiskInv'
  OBVIOUS
<1>0. NoFile \notin Seconds /\ now \in Int /\ now <= now
  BY DEF TypeOK, Seconds, NoFile
<1> USE DEF DiskInv, Named, At, GoTo, Ack
<1>1. ASSUME UNCHANGED <<backup, fileOf, disk, acks>>, now' \in Int, now <= now'
      PROVE  DiskInv'
  BY <1>1, DiskUntouched
<1>2. ASSUME NEW b \in Backups, NEW q \in Requests \cup {NoRequest}, BackupBegin(b, q)
      PROVE  DiskInv'
  <2>1. Named'
    BY <1>2 DEF BackupBegin, TypeOK
  <2>2. \A c \in Backups : TRUE \in acks[c] => backup'[c].tables = backup[c].tables
    BY <1>2 DEF BackupBegin, TypeOK
  <2>3. AckedOnDisk'
    BY <1>0, <1>2, <2>2, DiskUntouched DEF BackupBegin
  <2> QED BY <2>1, <2>3
<1>3. ASSUME NEW b \in Backups, NEW t \in Tables, BackupTable(b, t)
      PROVE  DiskInv'
  <2>1. Named'
    BY <1>3 DEF BackupTable, TypeOK
  <2>2. \A c \in Backups : TRUE \in acks[c] => backup'[c].tables = backup[c].tables
    BY <1>3 DEF BackupTable, TypeOK
  <2>3. AckedOnDisk'
    BY <1>0, <1>3, <2>2, DiskUntouched DEF BackupTable
  <2> QED BY <2>1, <2>3
<1>4. ASSUME NEW b \in Backups, BackupEnd(b) PROVE DiskInv'
  <2>1. Named'
    BY <1>4 DEF BackupEnd, TypeOK
  <2>2. \A c \in Backups : TRUE \in acks[c] => backup'[c].tables = backup[c].tables
    BY <1>4 DEF BackupEnd, TypeOK
  <2>3. AckedOnDisk'
    BY <1>0, <1>4, <2>2, DiskUntouched DEF BackupEnd
  <2> QED BY <2>1, <2>3
\* Whoever had a file of this second shares it now.
<1>5. ASSUME NEW b \in Backups, OpenFile(b) PROVE DiskInv'
  <2>1. Named'
    BY <1>0, <1>5 DEF OpenFile, TypeOK
  <2>2. ASSUME NEW c \in Backups, TRUE \in acks[c], Retained(c), ~Shared(c)'
        PROVE  OnDisk(c)'
    <3>1. c # b /\ fileOf[c] \in Seconds /\ fileOf'[c] = fileOf[c] /\ fileOf'[b] = now
      BY <1>5, <2>2 DEF OpenFile, TypeOK
    <3>2. fileOf[c] # now
      BY <2>2, <3>1 DEF Shared
    <3>3. ~Shared(c)
      BY <1>0, <1>5, <2>2, <3>1 DEF Shared, OpenFile, TypeOK
    <3>4. OnDisk(c)
      BY <2>2, <3>3 DEF AckedOnDisk
    <3>5. disk'[fileOf[c]] = disk[fileOf[c]] /\ backup'[c] = backup[c]
      BY <1>5, <3>1, <3>2 DEF OpenFile, TypeOK
    <3> QED BY <3>1, <3>4, <3>5 DEF OnDisk
  <2>3. AckedOnDisk'
    <3> SUFFICES ASSUME NEW c \in Backups, TRUE \in acks'[c], Retained(c)', ~Shared(c)'
                 PROVE  OnDisk(c)'
      BY DEF AckedOnDisk
    <3>1. TRUE \in acks[c] /\ c # b
      BY <1>5 DEF OpenFile
    <3>2. Retained(c)
      BY <1>5, <3>1 DEF OpenFile, Retained, TypeOK
    <3> QED BY <2>2, <3>1, <3>2
  <2> QED BY <2>1, <2>3
\* Whoever has the file that is written shares it, or is the one who writes.
<1>6. ASSUME NEW b \in Backups, FinishFile(b) PROVE DiskInv'
  <2>1. Named'
    BY <1>6 DEF FinishFile, TypeOK
  <2>2. AckedOnDisk'
    <3> SUFFICES ASSUME NEW c \in Backups, TRUE \in acks'[c], Retained(c), ~Shared(c)
                 PROVE  OnDisk(c)'
      BY <1>6 DEF AckedOnDisk, FinishFile, Retained, Shared
    <3>1. fileOf'[c] = fileOf[c] /\ backup'[c].tables = backup[c].tables
      BY <1>6 DEF FinishFile, TypeOK
    <3>2. CASE c = b
      <4>1. disk' = [disk EXCEPT ![fileOf[b]] = Dump(backup[b].tables)]
        BY <1>6, <3>2 DEF FinishFile
      <4>2. fileOf[b] \in Seconds
        BY <1>6 DEF FinishFile
      <4> QED BY <3>1, <3>2, <4>1, <4>2 DEF OnDisk, TypeOK
    <3>3. CASE c # b
      <4>1. TRUE \in acks[c]
        BY <1>6, <3>3 DEF FinishFile, TypeOK
      <4>2. fileOf[c] # fileOf[b]
        BY <3>3 DEF Shared
      <4>3. disk'[fileOf[c]] = disk[fileOf[c]]
        BY <1>6, <4>1, <4>2 DEF FinishFile, TypeOK
      <4>4. OnDisk(c)
        BY <4>1 DEF AckedOnDisk
      <4> QED BY <3>1, <4>3, <4>4 DEF OnDisk
    <3> QED BY <3>2, <3>3
  <2> QED BY <2>1, <2>2
\* Only what is older than the retention is removed.
<1>7. ASSUME NEW b \in Backups, Prune(b) PROVE DiskInv'
  <2>1. Named'
    BY <1>7 DEF Prune, TypeOK
  <2>2. AckedOnDisk'
    <3> SUFFICES ASSUME NEW c \in Backups, TRUE \in acks[c], Retained(c), ~Shared(c)
                 PROVE  OnDisk(c)'
      BY <1>7 DEF AckedOnDisk, Prune, Retained, Shared
    <3>0. fileOf[c] \in Seconds
      OBVIOUS
    <3>1. ~Expired(fileOf[c])
      BY <1>0, <3>0, BackupAssumption DEF Retained, Expired, Seconds
    <3>2. disk'[fileOf[c]] = disk[fileOf[c]]
      BY <1>7, <3>0, <3>1 DEF Prune
    <3>3. OnDisk(c)
      BY DEF AckedOnDisk
    <3>4. fileOf'[c] = fileOf[c] /\ backup'[c].tables = backup[c].tables
      BY <1>7 DEF Prune, TypeOK
    <3> QED BY <3>2, <3>3, <3>4 DEF OnDisk
  <2> QED BY <2>1, <2>2
<1>8. ASSUME NEW b \in Backups, BackupFails(b) PROVE DiskInv'
  <2>1. \A c \in Backups : TRUE \in acks'[c] => TRUE \in acks[c]
    BY <1>8 DEF BackupFails, TypeOK
  <2>2. \A c \in Backups : backup'[c].tables = backup[c].tables
    BY <1>8 DEF BackupFails, TypeOK
  <2>3. Named'
    BY <1>8, <2>1 DEF BackupFails, TypeOK
  <2>4. AckedOnDisk'
    BY <1>8, <2>1, <2>2 DEF AckedOnDisk, BackupFails, Retained, Shared, OnDisk
  <2> QED BY <2>3, <2>4
<1>9. CASE Crash
  <2>1. Named'
    BY <1>9 DEF Crash, TypeOK
  <2>2. \A c \in Backups : backup'[c].tables = backup[c].tables
    BY <1>9 DEF Crash, TypeOK
  <2>3. AckedOnDisk'
    BY <1>0, <1>9, <2>2, DiskUntouched DEF Crash
  <2> QED BY <2>1, <2>3
<1>10. CASE Manual \/ (\E x \in Restores : Restore(x)) \/ UNCHANGED vars
  <2>1. UNCHANGED <<now, backup, fileOf, disk, acks>>
    BY <1>10 DEF Manual, TriggerManualBackup, RequestTimesOut, Restore, RestoreFromFile,
                 RestoreTimesOut, RestoreResult, vars
  <2> QED BY <1>0, <1>1, <2>1
<1>11. CASE Tick
  <2>1. now' \in Int /\ now <= now' /\ UNCHANGED <<backup, fileOf, disk, acks>>
    BY <1>11 DEF Tick, TypeOK, Seconds
  <2> QED BY <1>1, <2>1
<1> QED
  BY <1>2, <1>3, <1>4, <1>5, <1>6, <1>7, <1>8, <1>9, <1>10, <1>11
  DEF Next, Stream, HandleEnd

\* Through other backups, failures and crashes a file that was acknowledged keeps
\* its tables while its retention lasts, unless another one got its name.
THEOREM AckedFilesKept == Spec => []AckedOnDisk
<1>1. DiskInv => AckedOnDisk
  BY DEF DiskInv
<1> QED BY <1>1, TypeInvariant, DiskInit, DiskStep, PTL DEF Spec, SafeSpec

\* Every variable keeps its type.
THEOREM BackupTypeCorrect == Spec => []TypeOK
BY TypeInvariant, PTL DEF Spec

-------------------------------------------------------------------------------
(* Answers                                                                 *)

\* A request that was made has one backup at most, one that was not has none.
OneBackupEach ==
    /\ \A b \in Backups : At(b, "none") => backup[b].request = NoRequest
    /\ \A b, c \in Backups :
          backup[b].request = backup[c].request /\ backup[b].request # NoRequest => b = c
    /\ \A b \in Backups : backup[b].request # NoRequest => answers[backup[b].request] # "none"

\* A backup fails after its acknowledgement only on the way to "over", and
\* nobody is notified of one that has not failed.
InStep ==
    \A b \in Backups :
        /\ backup[b].pc \in {"none", "receiving", "ended", "writing"} => acks[b] = {}
        /\ At(b, "pruning") => acks[b] = {TRUE}
        /\ backup[b].pc # "over" /\ backup[b].request # NoRequest
              => backup[b].request \notin notified

\* Who was answered with a file has a backup that is over, without a failure.
Serves(b, q) == backup[b].request = q /\ acks[b] = {TRUE} /\ At(b, "over")

Served ==
    \A q \in Requests :
        answers[q] = "file" => q \notin notified /\ \E b \in Backups : Serves(b, q)

\* A failure that is notified for a request is one of its backup.
FailureOfOne ==
    \A q \in Requests : q \in notified => \E b \in Backups : backup[b].request = q

AnswerInv == OneBackupEach /\ InStep /\ Served /\ FailureOfOne

LEMMA AnswerInit == Init => AnswerInv
<1> SUFFICES ASSUME Init PROVE AnswerInv
  OBVIOUS
<1>1. OneBackupEach /\ InStep
  BY DEF Init, OneBackupEach, InStep, At
<1>2. Served /\ FailureOfOne
  BY DEF Init, Served, FailureOfOne
<1> QED BY <1>1, <1>2 DEF AnswerInv

\* A step in which a backup only moves on, unacknowledged, or nothing changes for it.
LEMMA AnswersUntouched ==
    ASSUME TypeOK, AnswerInv, UNCHANGED <<acks, notified>>,
           answers' \in [Requests -> {"none", "waiting", "file", "error", "timeout", "broken"}],
           \A q \in Requests : /\ answers'[q] = "file" <=> answers[q] = "file"
                               /\ answers'[q] = "none" => answers[q] = "none",
           \A b \in Backups :
              /\ backup'[b].request = backup[b].request
              /\ \/ backup'[b].pc = backup[b].pc
                 \/ backup'[b].pc = "over" /\ ~At(b, "none")
                 \/ /\ backup[b].pc \in {"receiving", "ended"}
                    /\ backup'[b].pc \in {"receiving", "ended", "writing"}
    PROVE  AnswerInv'
<1> USE DEF AnswerInv, At
<1>1. OneBackupEach'
  <2>1. \A b \in Backups : backup'[b].pc = "none" => backup'[b].request = NoRequest
    BY DEF OneBackupEach
  <2>2. \A b, c \in Backups :
           backup'[b].request = backup'[c].request /\ backup'[b].request # NoRequest => b = c
    BY DEF OneBackupEach
  <2>3. \A b \in Backups :
           backup'[b].request # NoRequest => answers'[backup'[b].request] # "none"
    BY DEF OneBackupEach, TypeOK
  <2> QED BY <2>1, <2>2, <2>3 DEF OneBackupEach
<1>2. InStep'
  BY DEF InStep
<1>3. Served'
  <2>1. \A b \in Backups, q \in Requests : Serves(b, q) => Serves(b, q)'
    BY DEF Serves
  <2> QED BY <2>1 DEF Served
<1>4. FailureOfOne'
  BY DEF FailureOfOne
<1> QED BY <1>1, <1>2, <1>3, <1>4

\* The answer a backup gives, if it is still awaited.
LEMMA AnswerGiven ==
    ASSUME TypeOK, NEW b \in Backups, NEW answer \in {"file", "error"}, Answer(b, answer),
           NEW q \in Requests
    PROVE  \/ answers'[q] = answers[q]
           \/ q = backup[b].request /\ answers[q] = "waiting" /\ answers'[q] = answer
BY DEF Answer, TypeOK

LEMMA AnswerStep == TypeOK /\ AnswerInv /\ [Next]_vars => AnswerInv'
<1> SUFFICES ASSUME TypeOK, AnswerInv, [Next]_vars PROVE AnswerInv'
  OBVIOUS
<1>0. TypeOK'
  BY TypeStep
<1> USE DEF At, GoTo, Ack
<1>1. ASSUME NEW q \in Requests, TriggerManualBackup(q) \/ RequestTimesOut(q)
      PROVE  AnswerInv'
  BY <1>0, <1>1, AnswersUntouched DEF TriggerManualBackup, RequestTimesOut, TypeOK
<1>2. ASSUME NEW b \in Backups, NEW q \in Requests \cup {NoRequest}, BackupBegin(b, q)
      PROVE  AnswerInv'
  <2>1. /\ backup'[b].pc = "receiving" /\ backup'[b].request = q
        /\ \A c \in Backups \ {b} : backup'[c] = backup[c]
        /\ backup[b].pc = "none" /\ backup[b].request = NoRequest
        /\ UNCHANGED <<answers, acks, notified>>
    BY <1>2 DEF BackupBegin, TypeOK, AnswerInv, OneBackupEach
  <2>2. q # NoRequest => answers[q] # "none" /\ \A c \in Backups : backup[c].request # q
    BY <1>2 DEF BackupBegin
  <2>3. OneBackupEach'
    BY <2>1, <2>2 DEF AnswerInv, OneBackupEach
  <2>4. InStep'
    <3>1. q # NoRequest => q \notin notified
      BY <2>2 DEF AnswerInv, FailureOfOne
    <3>2. acks[b] = {}
      BY <2>1 DEF AnswerInv, InStep
    <3> QED BY <2>1, <3>1, <3>2 DEF AnswerInv, InStep
  <2>5. Served'
    <3>1. \A c \in Backups, r \in Requests : Serves(c, r) => Serves(c, r)'
      BY <2>1 DEF Serves
    <3> QED BY <2>1, <3>1 DEF AnswerInv, Served
  <2>6. FailureOfOne'
    BY <2>1, BackupAssumption DEF AnswerInv, FailureOfOne
  <2> QED BY <2>3, <2>4, <2>5, <2>6 DEF AnswerInv
<1>3. ASSUME NEW b \in Backups, NEW t \in Tables, BackupTable(b, t) PROVE AnswerInv'
  BY <1>0, <1>3, AnswersUntouched DEF BackupTable, TypeOK
<1>4. ASSUME NEW b \in Backups, BackupEnd(b) \/ OpenFile(b) PROVE AnswerInv'
  BY <1>0, <1>4, AnswersUntouched DEF BackupEnd, OpenFile, TypeOK
<1>5. ASSUME NEW b \in Backups, FinishFile(b) PROVE AnswerInv'
  <2>1. /\ backup[b].pc = "writing" /\ backup'[b].pc = "pruning"
        /\ \A c \in Backups : backup'[c].request = backup[c].request
        /\ \A c \in Backups \ {b} : backup'[c] = backup[c] /\ acks'[c] = acks[c]
        /\ acks'[b] = acks[b] \cup {TRUE}
        /\ UNCHANGED <<answers, notified>>
    BY <1>5 DEF FinishFile, TypeOK
  <2>2. acks'[b] = {TRUE}
    BY <2>1 DEF AnswerInv, InStep
  <2>3. OneBackupEach'
    BY <2>1 DEF AnswerInv, OneBackupEach
  <2>4. InStep'
    BY <2>1, <2>2 DEF AnswerInv, InStep
  <2>5. Served'
    <3>1. \A c \in Backups, q \in Requests : Serves(c, q) => Serves(c, q)'
      BY <2>1 DEF Serves
    <3> QED BY <2>1, <3>1 DEF AnswerInv, Served
  <2>6. FailureOfOne'
    BY <2>1 DEF AnswerInv, FailureOfOne
  <2> QED BY <2>3, <2>4, <2>5, <2>6 DEF AnswerInv
<1>6. ASSUME NEW b \in Backups, Prune(b) PROVE AnswerInv'
  <2>1. /\ backup[b].pc = "pruning" /\ backup'[b].pc = "over"
        /\ \A c \in Backups : backup'[c].request = backup[c].request
        /\ \A c \in Backups \ {b} : backup'[c] = backup[c]
        /\ UNCHANGED <<acks, notified>>
    BY <1>6 DEF Prune, TypeOK
  <2>2. ASSUME NEW q \in Requests
        PROVE  \/ answers'[q] = answers[q]
               \/ q = backup[b].request /\ answers[q] = "waiting" /\ answers'[q] = "file"
    BY <1>6, AnswerGiven DEF Prune
  <2>3. OneBackupEach'
    BY <2>1, <2>2 DEF AnswerInv, OneBackupEach, TypeOK
  <2>4. InStep'
    BY <2>1 DEF AnswerInv, InStep
  <2>5. Served'
    <3> SUFFICES ASSUME NEW q \in Requests, answers'[q] = "file"
                 PROVE  q \notin notified /\ \E c \in Backups : Serves(c, q)'
      BY <2>1 DEF Served
    <3>1. CASE answers[q] = "file"
      <4>1. \A c \in Backups : Serves(c, q) => Serves(c, q)'
        BY <2>1 DEF Serves
      <4> QED BY <3>1, <4>1 DEF AnswerInv, Served
    <3>2. CASE q = backup[b].request
      <4>1. Serves(b, q)'
        BY <2>1, <3>2 DEF AnswerInv, InStep, Serves
      <4>2. q \notin notified
        BY <2>1, <3>2, BackupAssumption DEF AnswerInv, InStep
      <4> QED BY <4>1, <4>2
    <3> QED BY <2>2, <3>1, <3>2
  <2>6. FailureOfOne'
    BY <2>1 DEF AnswerInv, FailureOfOne
  <2> QED BY <2>3, <2>4, <2>5, <2>6 DEF AnswerInv
\* No other backup has the request, so that nobody else was answered for it.
<1>7. ASSUME NEW b \in Backups, BackupFails(b) PROVE AnswerInv'
  <2>1. /\ backup[b].pc \in {"ended", "writing", "pruning"} /\ backup'[b].pc = "over"
        /\ \A c \in Backups : backup'[c].request = backup[c].request
        /\ \A c \in Backups \ {b} : backup'[c] = backup[c] /\ acks'[c] = acks[c]
        /\ notified' = notified \cup {backup[b].request}
    BY <1>7 DEF BackupFails, TypeOK
  <2>2. ASSUME NEW q \in Requests
        PROVE  \/ answers'[q] = answers[q]
               \/ q = backup[b].request /\ answers[q] = "waiting" /\ answers'[q] = "error"
    BY <1>7, AnswerGiven DEF BackupFails
  <2>3. OneBackupEach'
    BY <2>1, <2>2 DEF AnswerInv, OneBackupEach, TypeOK
  <2>4. InStep'
    BY <2>1 DEF AnswerInv, InStep, OneBackupEach
  <2>5. Served'
    <3> SUFFICES ASSUME NEW q \in Requests, answers[q] = "file"
                 PROVE  q \notin notified' /\ \E c \in Backups : Serves(c, q)'
      BY <2>2 DEF Served
    <3>1. q \notin notified /\ \E c \in Backups : Serves(c, q)
      BY DEF AnswerInv, Served
    <3>2. PICK c \in Backups : Serves(c, q)
      BY <3>1
    <3>3. c # b /\ backup[b].request # q
      BY <2>1, <3>2, BackupAssumption DEF AnswerInv, OneBackupEach, Serves
    <3>4. Serves(c, q)'
      BY <2>1, <3>2, <3>3 DEF Serves
    <3> QED BY <2>1, <3>1, <3>3, <3>4
  <2>6. FailureOfOne'
    BY <2>1 DEF AnswerInv, FailureOfOne
  <2> QED BY <2>3, <2>4, <2>5, <2>6 DEF AnswerInv
\* A restore has another id than any request.
<1>8. ASSUME NEW x \in Restores, Restore(x) PROVE AnswerInv'
  <2>1. UNCHANGED <<backup, answers, acks>> /\ notified' \subseteq notified \cup {x}
    BY <1>8 DEF Restore, RestoreFromFile, RestoreTimesOut, RestoreResult
  <2>2. \A q \in Requests : q \in notified' => q \in notified
    BY <2>1, BackupAssumption
  <2>3. \A b \in Backups : backup[b].request # NoRequest => backup[b].request \in Requests
    BY DEF TypeOK
  <2>4. OneBackupEach' /\ InStep'
    BY <2>1, <2>2, <2>3 DEF AnswerInv, OneBackupEach, InStep
  <2>5. Served' /\ FailureOfOne'
    BY <2>1, <2>2 DEF AnswerInv, Served, Serves, FailureOfOne
  <2> QED BY <2>4, <2>5 DEF AnswerInv
<1>9. CASE Crash
  <2>1. \A q \in Requests : /\ answers'[q] = "file" <=> answers[q] = "file"
                            /\ answers'[q] = "none" => answers[q] = "none"
    BY <1>9 DEF Crash
  <2>2. \A b \in Backups :
           /\ backup'[b].request = backup[b].request
           /\ \/ backup'[b].pc = backup[b].pc
              \/ backup'[b].pc = "over" /\ ~At(b, "none")
    <3> TAKE b \in Backups
    <3>1. CASE At(b, "none")
      BY <1>9, <3>1 DEF Crash
    <3>2. CASE ~At(b, "none")
      BY <1>9, <3>2 DEF Crash, TypeOK
    <3> QED BY <3>1, <3>2
  <2> QED BY <1>0, <1>9, <2>1, <2>2, AnswersUntouched DEF Crash, TypeOK
<1>10. CASE Tick \/ UNCHANGED vars
  BY <1>0, <1>10, AnswersUntouched DEF Tick, vars, TypeOK
<1> QED
  BY <1>1, <1>2, <1>3, <1>4, <1>5, <1>6, <1>7, <1>8, <1>9, <1>10
  DEF Next, Manual, Stream, HandleEnd

LEMMA AnswerInvariant == SafeSpec => []AnswerInv
BY TypeInvariant, AnswerInit, AnswerStep, PTL DEF SafeSpec

\* Whoever is answered with a file has a backup that was acknowledged, never
\* refused, and of which no failure is notified.
THEOREM AnswersTrue == Spec => []AnsweredWithFile
<1>1. AnswerInv => AnsweredWithFile
  BY DEF AnswerInv, Served, Serves, AnsweredWithFile
<1> QED BY <1>1, AnswerInvariant, PTL DEF Spec

-------------------------------------------------------------------------------
(* The promise                                                             *)

LEMMA PromiseInit == Init => Promised!Init
<1> SUFFICES ASSUME Init PROVE Promised!Init
  OBVIOUS
<1>1. {b \in Backups : TRUE \in acks[b]} = {}
  BY DEF Init
<1>2. [b \in Backups |-> backup[b].request] = [b \in Backups |-> NoRequest]
  BY DEF Init
<1> QED BY <1>1, <1>2 DEF Init, Promised!Init

\* Every step answers, stores or begins as promised, or shows nothing of what it does.
LEMMA PromiseStep == TypeOK /\ AnswerInv /\ [Next]_vars => [Promised!Next]_(Promised!vars)
<1> SUFFICES ASSUME TypeOK, AnswerInv, [Next]_vars
             PROVE  Promised!Next \/ UNCHANGED Promised!vars
  OBVIOUS
<1> DEFINE stored == {b \in Backups : TRUE \in acks[b]}
           servedBy == [b \in Backups |-> backup[b].request]
<1> USE DEF At, GoTo, Ack
<1>1. ASSUME \A b \in Backups : backup'[b].request = backup[b].request
      PROVE  servedBy' = servedBy
  BY <1>1
<1>2. ASSUME \A b \in Backups : TRUE \in acks'[b] <=> TRUE \in acks[b]
      PROVE  stored' = stored
  BY <1>2
<1>3. UNCHANGED <<stored, servedBy, answers, restores>> => UNCHANGED Promised!vars
  BY DEF Promised!vars
<1>4. ASSUME NEW q \in Requests, TriggerManualBackup(q) PROVE Promised!Next
  <2>1. Promised!AskBackup(q)
    BY <1>4 DEF TriggerManualBackup, Promised!AskBackup
  <2> QED BY <2>1 DEF Promised!Next
<1>5. ASSUME NEW q \in Requests, RequestTimesOut(q) PROVE Promised!Next
  <2>1. Promised!AnswerBackup(q)
    BY <1>5 DEF RequestTimesOut, Promised!AnswerBackup
  <2> QED BY <2>1 DEF Promised!Next
<1>6. ASSUME NEW b \in Backups, NEW q \in Requests \cup {NoRequest}, BackupBegin(b, q)
      PROVE  Promised!Next \/ UNCHANGED Promised!vars
  <2>1. backup[b].request = NoRequest
    BY <1>6 DEF BackupBegin, AnswerInv, OneBackupEach
  <2>2. servedBy' = [servedBy EXCEPT ![b] = q]
    BY <1>6 DEF BackupBegin, TypeOK
  <2>3. UNCHANGED <<stored, answers, restores>>
    BY <1>6 DEF BackupBegin
  <2>4. CASE q = NoRequest
    <3>1. servedBy' = servedBy
      BY <2>1, <2>2, <2>4
    <3> QED BY <1>3, <2>3, <3>1
  <2>5. CASE q # NoRequest
    <3>1. \A c \in Backups : servedBy[c] # q
      BY <1>6, <2>5 DEF BackupBegin
    <3>2. servedBy[b] = NoRequest
      BY <2>1
    <3>3. Promised!Begin(b, q)
      BY <2>2, <2>3, <3>1, <3>2 DEF Promised!Begin
    <3> QED BY <2>5, <3>3 DEF Promised!Next
  <2> QED BY <2>4, <2>5
<1>7. ASSUME NEW b \in Backups,
             (\E t \in Tables : BackupTable(b, t)) \/ BackupEnd(b) \/ OpenFile(b)
      PROVE  UNCHANGED Promised!vars
  <2>1. /\ \A c \in Backups : backup'[c].request = backup[c].request
        /\ UNCHANGED <<answers, restores, acks>>
    BY <1>7 DEF BackupTable, BackupEnd, OpenFile, TypeOK
  <2> QED BY <1>1, <1>2, <1>3, <2>1
<1>8. ASSUME NEW b \in Backups, FinishFile(b) PROVE Promised!Next
  <2>1. \A c \in Backups : backup'[c].request = backup[c].request
    BY <1>8 DEF FinishFile, TypeOK
  <2>2. stored' = stored \cup {b}
    BY <1>8 DEF FinishFile, TypeOK
  <2>3. UNCHANGED <<answers, restores>>
    BY <1>8 DEF FinishFile
  <2>4. Promised!Store(b)
    BY <1>1, <2>1, <2>2, <2>3 DEF Promised!Store
  <2> QED BY <2>4 DEF Promised!Next
\* An answer that comes when none is awaited changes nothing.
<1>9. ASSUME NEW b \in Backups, NEW answer \in {"file", "error"}, Answer(b, answer),
             UNCHANGED <<stored, servedBy, restores>>,
             answer = "file" => b \in stored
      PROVE  Promised!Next \/ UNCHANGED Promised!vars
  <2> DEFINE q == backup[b].request
  <2>1. CASE q \in Requests /\ answers[q] = "waiting"
    <3>1. answers' = [answers EXCEPT ![q] = answer]
      BY <1>9, <2>1 DEF Answer
    <3>2. answer = "file" => \E c \in stored : servedBy[c] = q
      BY <1>9
    <3>3. Promised!AnswerBackup(q)
      BY <1>9, <2>1, <3>1, <3>2 DEF Promised!AnswerBackup
    <3> QED BY <2>1, <3>3 DEF Promised!Next
  <2>2. CASE ~(q \in Requests /\ answers[q] = "waiting")
    BY <1>3, <1>9, <2>2 DEF Answer
  <2> QED BY <2>1, <2>2
<1>10. ASSUME NEW b \in Backups, Prune(b) PROVE Promised!Next \/ UNCHANGED Promised!vars
  <2>1. /\ \A c \in Backups : backup'[c].request = backup[c].request
        /\ UNCHANGED <<restores, acks>> /\ Answer(b, "file")
    BY <1>10 DEF Prune, TypeOK
  <2>2. b \in stored
    BY <1>10 DEF Prune, AnswerInv, InStep
  <2> HIDE DEF stored, servedBy
  <2>3. UNCHANGED <<stored, servedBy>>
    BY <1>1, <1>2, <2>1
  <2> QED BY <1>9, <2>1, <2>2, <2>3
<1>11. ASSUME NEW b \in Backups, BackupFails(b) PROVE Promised!Next \/ UNCHANGED Promised!vars
  <2>1. /\ \A c \in Backups : backup'[c].request = backup[c].request
        /\ \A c \in Backups : TRUE \in acks'[c] <=> TRUE \in acks[c]
        /\ UNCHANGED restores /\ Answer(b, "error")
    BY <1>11 DEF BackupFails, TypeOK
  <2> HIDE DEF stored, servedBy
  <2>2. UNCHANGED <<stored, servedBy>>
    BY <1>1, <1>2, <2>1
  <2> QED BY <1>9, <2>1, <2>2
<1>12. ASSUME NEW x \in Restores, Restore(x) PROVE Promised!Next \/ UNCHANGED Promised!vars
  <2>1. UNCHANGED <<stored, servedBy, answers>>
    BY <1>12 DEF Restore, RestoreFromFile, RestoreTimesOut, RestoreResult
  <2>2. ASSUME NEW s \in Seconds, RestoreFromFile(x, s) PROVE Promised!AskRestore(x)
    BY <2>1, <2>2 DEF RestoreFromFile, Promised!AskRestore
  <2>3. ASSUME RestoreTimesOut(x) PROVE Promised!AnswerRestore(x)
    BY <2>1, <2>3 DEF RestoreTimesOut, Promised!AnswerRestore
  <2>4. ASSUME NEW success \in BOOLEAN, RestoreResult(x, success)
        PROVE  Promised!AnswerRestore(x) \/ UNCHANGED Promised!vars
    <3>1. CASE restores[x] = "waiting"
      <4>1. restores' = [restores EXCEPT ![x] = IF success THEN "restored" ELSE "error"]
        BY <2>4, <3>1 DEF RestoreResult
      <4> QED BY <2>1, <3>1, <4>1 DEF Promised!AnswerRestore
    <3>2. CASE restores[x] # "waiting"
      BY <1>3, <2>1, <2>4, <3>2 DEF RestoreResult
    <3> QED BY <3>1, <3>2
  <2> QED BY <1>12, <2>2, <2>3, <2>4 DEF Restore, Promised!Next
<1>13. CASE Crash
  <2>1. \A b \in Backups : backup'[b].request = backup[b].request
    BY <1>13 DEF Crash, TypeOK
  <2>2. Promised!Break
    BY <1>1, <1>13, <2>1 DEF Crash, Promised!Break
  <2> QED BY <2>2 DEF Promised!Next
<1>14. CASE Tick \/ UNCHANGED vars
  <2>1. UNCHANGED <<stored, servedBy, answers, restores>>
    BY <1>14 DEF Tick, vars
  <2> QED BY <1>3, <2>1
<1> QED
  BY <1>4, <1>5, <1>6, <1>7, <1>8, <1>10, <1>11, <1>12, <1>13, <1>14
  DEF Next, Manual, Stream, HandleEnd

\* Backups and restores do what BackupRequests promises, as far as it is safety:
\* one answer each, a file only when the backup made for the request is stored.
THEOREM BackupsKeepPromise == Spec => Promised!SafeSpec
BY TypeInvariant, AnswerInvariant, PromiseInit, PromiseStep, PTL
   DEF Spec, SafeSpec, Promised!SafeSpec

===============================================================================
