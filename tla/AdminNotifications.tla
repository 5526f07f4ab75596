--------------------------- MODULE AdminNotifications ---------------------------
(***************************************************************************)
(* AdminNotificationService over auth.admin_notifications: notifications   *)
(* are inserted, then pushed to the browsers of administrators; one such   *)
(* browser pages through the list after it has connected.  The read mark   *)
(* is shared by all administrators and pushed as well.                     *)
(***************************************************************************)
EXTENDS Integers, FiniteSets

CONSTANTS
    MaxNotes,             \* bound on the notifications
    PageLimit             \* DEFAULT_LIST_LIMIT

ASSUME NotesAssumption == MaxNotes \in Nat /\ PageLimit \in Nat \ {0}

\* BIGSERIAL: ids are given in the order of the inserts, which may commit in any.
Notes == 1 .. MaxNotes

VARIABLES
    note,                 \* how far notify() has got with each
    read,                 \* ids with a read_at
    mark,                 \* a mark between its UPDATE and its push: the ids it set
    browser,              \* the administrator's connection is open
    told,                 \* ids that were pushed or listed to it since
    before,               \* the next page it will ask for; 0: hasMore was false
    said,                 \* history: what pushes said last of each since it opened
    crossed               \* history: ids a mark overlapped between INSERT and push

noteVars == <<note, read, mark, browser, told, before, said, crossed>>

NoMark == {0}

NotesInit ==
    /\ note = [n \in Notes |-> "none"]
    /\ read = {} /\ mark = NoMark
    /\ browser = FALSE
    /\ told = {} /\ before = MaxNotes + 1
    /\ said = [n \in Notes |-> "nothing"]
    /\ crossed = {}

InTable == {n \in Notes : note[n] \in {"stored", "pushed", "silent"}}

-------------------------------------------------------------------------------
(* notify()                                                                *)

\* createNotification(): the INSERT takes its id.
BeginInsert(n) ==
    /\ note[n] = "none"
    /\ \A m \in 1 .. n - 1 : note[m] # "none"
    /\ note' = [note EXCEPT ![n] = "inserting"]
    /\ crossed' = IF mark = NoMark THEN crossed ELSE crossed \cup {n}
    /\ UNCHANGED <<read, mark, browser, told, before, said>>

InsertEnds(n) ==
    /\ note[n] = "inserting"
    /\ \E end \in {"stored", "failed"} : note' = [note EXCEPT ![n] = end]
    /\ UNCHANGED <<read, mark, browser, told, before, said, crossed>>

\* broadcastToAdmins(): whoever is connected, with read_at of the INSERT.
Push(n) ==
    /\ note[n] = "stored"
    /\ note' = [note EXCEPT ![n] = "pushed"]
    /\ told' = IF browser THEN told \cup {n} ELSE told
    /\ said' = IF browser THEN [said EXCEPT ![n] = "unread"] ELSE said
    /\ UNCHANGED <<read, mark, browser, before, crossed>>

-------------------------------------------------------------------------------
(* list()                                                                  *)

\* ORDER BY id DESC LIMIT k.
IsLatest(page, k, ids) ==
    /\ page \subseteq ids
    /\ \A n \in page, m \in ids : m > n => m \in page
    /\ Cardinality(page) <= k
    /\ page = ids \/ Cardinality(page) = k

\* One row more than the page has tells whether there are more.
FetchPageOnly == PageLimit

FetchLimit == PageLimit + 1

\* A page, as of the SELECT.  The next one begins below its last row.
List ==
    /\ browser /\ before # 0
    /\ \E rows \in SUBSET {n \in InTable : n < before} :
         /\ IsLatest(rows, FetchLimit, {n \in InTable : n < before})
         /\ \E page \in SUBSET rows :
              /\ IsLatest(page, PageLimit, rows)
              /\ told' = told \cup page
              /\ IF Cardinality(rows) > PageLimit
                 THEN \E last \in page : /\ \A n \in page : last <= n
                                         /\ before' = last
                 ELSE before' = 0
    /\ UNCHANGED <<note, read, mark, browser, said, crossed>>

-------------------------------------------------------------------------------
(* markRead(), markAllRead()                                               *)

\* The UPDATE; a notification whose INSERT is not committed is not there yet.
UpdateUnawaited(ids) ==
    /\ mark = NoMark
    /\ mark' = ids
    /\ \E done \in {{}, ids} : read' = read \cup (done \cap InTable)
    /\ crossed' = crossed \cup {n \in Notes : note[n] \in {"inserting", "stored"}}
    /\ UNCHANGED <<note, browser, told, before, said>>

Update(ids) ==
    /\ mark = NoMark
    /\ mark' = ids
    /\ read' = read \cup (ids \cap InTable)
    /\ crossed' = crossed \cup {n \in Notes : note[n] \in {"inserting", "stored"}}
    /\ UNCHANGED <<note, browser, told, before, said>>

MarkAllRead == Update(Notes)

\* Any id that is a number is accepted.
MarkRead == \E n \in Notes : Update({n})

\* The browser takes "all" for those it was pushed.
PushMark ==
    /\ mark # NoMark
    /\ mark' = NoMark
    /\ said' = [n \in Notes |-> IF browser /\ n \in mark /\ said[n] # "nothing"
                                THEN "read" ELSE said[n]]
    /\ UNCHANGED <<note, read, browser, told, before, crossed>>

-------------------------------------------------------------------------------
(* The browser, and the process                                            *)

BrowserConnects ==
    /\ ~browser
    /\ browser' = TRUE
    /\ UNCHANGED <<note, read, mark, told, before, said, crossed>>

Forgetting ==
    /\ browser' = FALSE
    /\ told' = {} /\ before' = MaxNotes + 1
    /\ said' = [n \in Notes |-> "nothing"]

BrowserLeaves ==
    /\ browser
    /\ Forgetting
    /\ UNCHANGED <<note, read, mark, crossed>>

\* The process ends: what it had not pushed is never pushed, and an INSERT
\* under way is committed or not.
Crash ==
    /\ \E commits \in SUBSET Notes :
         note' = [n \in Notes |->
            CASE note[n] = "inserting" -> IF n \in commits THEN "silent" ELSE "failed"
              [] note[n] = "stored" -> "silent"
              [] OTHER -> note[n]]
    /\ mark' = NoMark
    /\ Forgetting
    /\ UNCHANGED <<read, crossed>>

NotesNext ==
    \/ \E n \in Notes : BeginInsert(n) \/ InsertEnds(n) \/ Push(n)
    \/ List \/ MarkAllRead \/ MarkRead \/ PushMark
    \/ BrowserConnects \/ BrowserLeaves \/ Crash

NotesSpec == NotesInit /\ [][NotesNext]_noteVars

-------------------------------------------------------------------------------
(* Properties                                                              *)

\* A browser that has paged to the end since it connected knows every
\* notification there is, whether it was inserted before, meanwhile or after,
\* in whatever order inserts commit and are pushed, but for those whose push is
\* still to come.
NothingUnseen ==
    browser /\ before = 0 => {n \in InTable : note[n] # "stored"} \subseteq told

\* What was pushed last of a notification is what the table says, unless a mark
\* overlapped its insertion, or is just being made.
PushesAgree ==
    \A n \in Notes : said[n] # "nothing" /\ n \notin crossed \cup mark =>
        (said[n] = "read" <=> n \in read)

===============================================================================
