---------------------------- MODULE BackupRequests ----------------------------
(***************************************************************************)
(* What an administrator is promised who asks for a backup or a restore:   *)
(* there is an answer in the end, and only one; it names a file only when  *)
(* the backup made for this request was stored, and what was stored stays  *)
(* promised whatever the answer was.                                       *)
(***************************************************************************)
CONSTANTS Backups, Requests, Restores, NoRequest

VARIABLES
    stored,               \* backups the server was told are stored
    servedBy,             \* the request every backup is made for
    answers, restores     \* what every request was answered

vars == <<stored, servedBy, answers, restores>>

Init ==
    /\ stored = {}
    /\ servedBy = [b \in Backups |-> NoRequest]
    /\ answers = [q \in Requests |-> "none"]
    /\ restores = [x \in Restores |-> "none"]

AskBackup(q) ==
    /\ answers[q] = "none"
    /\ answers' = [answers EXCEPT ![q] = "waiting"]
    /\ UNCHANGED <<stored, servedBy, restores>>

AskRestore(x) ==
    /\ restores[x] = "none"
    /\ \E first \in {"waiting", "refused"} : restores' = [restores EXCEPT ![x] = first]
    /\ UNCHANGED <<stored, servedBy, answers>>

Begin(b, q) ==
    /\ servedBy[b] = NoRequest
    /\ \A c \in Backups : servedBy[c] # q
    /\ servedBy' = [servedBy EXCEPT ![b] = q]
    /\ UNCHANGED <<stored, answers, restores>>

Store(b) ==
    /\ stored' = stored \cup {b}
    /\ UNCHANGED <<servedBy, answers, restores>>

AnswerBackup(q) ==
    /\ answers[q] = "waiting"
    /\ \E answer \in {"file", "error", "timeout"} :
         /\ answer = "file" => \E b \in stored : servedBy[b] = q
         /\ answers' = [answers EXCEPT ![q] = answer]
    /\ UNCHANGED <<stored, servedBy, restores>>

AnswerRestore(x) ==
    /\ restores[x] = "waiting"
    /\ \E answer \in {"restored", "error", "timeout"} :
         restores' = [restores EXCEPT ![x] = answer]
    /\ UNCHANGED <<stored, servedBy, answers>>

\* The process that would have answered has ended.
Break ==
    /\ answers' = [q \in Requests |-> IF answers[q] = "waiting" THEN "broken"
                                      ELSE answers[q]]
    /\ restores' = [x \in Restores |-> IF restores[x] = "waiting" THEN "broken"
                                       ELSE restores[x]]
    /\ UNCHANGED <<stored, servedBy>>

Next ==
    \/ \E q \in Requests : AskBackup(q) \/ AnswerBackup(q) \/ \E b \in Backups : Begin(b, q)
    \/ \E x \in Restores : AskRestore(x) \/ AnswerRestore(x)
    \/ Break \/ \E b \in Backups : Store(b)

SafeSpec == Init /\ [][Next]_vars

Spec ==
    /\ SafeSpec
    /\ \A q \in Requests : WF_vars(AnswerBackup(q))
    /\ \A x \in Restores : WF_vars(AnswerRestore(x))

===============================================================================
