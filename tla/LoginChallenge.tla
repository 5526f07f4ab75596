---------------------------- MODULE LoginChallenge ----------------------------
(***************************************************************************)
(* The second login step of one user: LoginChallengeGate.ts,               *)
(* TwoFactorAuthService.verifyTwoFactor and RecoveryCodeService.ts over the *)
(* tables auth.login_challenges and auth.totp_recovery_codes.               *)
(*                                                                         *)
(* A request runs up to its next await in one step; every SQL statement is *)
(* atomic, but between two of them any other request may run.              *)
(***************************************************************************)
EXTENDS Naturals, FiniteSets

CONSTANTS
    Requests,             \* requests that are handled at the same time
    Challenges,           \* rows login() may insert
    Codes,                \* the recovery codes of the user
    NoCode,               \* any input that is no recovery code of the user
    NoChallenge,          \* a request slot that handles nothing
    MaxAttempts           \* MAX_CHALLENGE_ATTEMPTS

ASSUME ChallengeAssumption ==
    /\ NoCode \notin Codes
    /\ NoChallenge \notin Challenges
    /\ MaxAttempts \in Nat
    /\ IsFiniteSet(Requests)

VARIABLES
    row,                  \* state of every row of auth.login_challenges
    attempts,             \* its column attempts
    loadable,             \* the user is active and has TOTP enabled, with a secret
    unused,               \* recovery codes with used_at IS NULL
    req,                  \* the requests being handled
    checks,               \* history: codes compared, per challenge
    sessions,             \* history: sessions issued, per challenge
    accepted              \* history: requests let through with it, per code

vars == <<row, attempts, loadable, unused, req, checks, sessions, accepted>>

Idle == [pc |-> "idle", via |-> "totp", code |-> NoCode, chal |-> NoChallenge,
         candidates |-> {}]

Init ==
    /\ row = [c \in Challenges |-> "none"]
    /\ attempts = [c \in Challenges |-> 0]
    /\ loadable = TRUE
    /\ unused = Codes
    /\ req = [r \in Requests |-> Idle]
    /\ checks = [c \in Challenges |-> 0]
    /\ sessions = [c \in Challenges |-> 0]
    /\ accepted = [k \in Codes |-> 0]

At(r, pc) == req[r].pc = pc

GoTo(r, pc) == req' = [req EXCEPT ![r].pc = pc]

Return(r) == req' = [req EXCEPT ![r] = Idle]

-------------------------------------------------------------------------------
(* The challenge and the user                                              *)

\* login() of a user with TOTP enabled, after the right password.
CreateLoginChallenge(c) ==
    /\ row[c] = "none"
    /\ loadable
    /\ row' = [row EXCEPT ![c] = "active"]
    /\ UNCHANGED <<attempts, loadable, unused, req, checks, sessions, accepted>>

\* now() passes expires_at; nothing deletes the row.
Expire(c) ==
    /\ row[c] = "active"
    /\ row' = [row EXCEPT ![c] = "expired"]
    /\ UNCHANGED <<attempts, loadable, unused, req, checks, sessions, accepted>>

\* An administrator (de)activates the user or resets TOTP, or the user sets TOTP
\* up again.
UserChanges ==
    /\ loadable' = ~loadable
    /\ UNCHANGED <<row, attempts, unused, req, checks, sessions, accepted>>

\* The second statement of a TOTP reset.
DeleteRecoveryCodes ==
    /\ unused' = {}
    /\ UNCHANGED <<row, attempts, loadable, req, checks, sessions, accepted>>

-------------------------------------------------------------------------------
(* gateLoginChallenge()                                                    *)

\* findActiveLoginChallenge(): any other outcome answers "expired" at once.
FindChallenge(r, c, via, code) ==
    /\ At(r, "idle")
    /\ row[c] = "active"
    /\ req' = [req EXCEPT ![r] = [pc |-> "found", via |-> via, code |-> code,
                                  chal |-> c, candidates |-> {}]]
    /\ UNCHANGED <<row, attempts, loadable, unused, checks, sessions, accepted>>

\* findUserById() and the test of what it returned.
LoadUser(r) ==
    /\ At(r, "found")
    /\ IF loadable THEN GoTo(r, "loaded") ELSE Return(r)
    /\ UNCHANGED <<row, attempts, loadable, unused, checks, sessions, accepted>>

\* reserveLoginChallengeAttempt(): one UPDATE, whose rowCount is 0 when the row
\* is gone or out of attempts.  It does not look at expires_at.
MayReserveOneMore(c) == row[c] \in {"active", "expired"} /\ attempts[c] <= MaxAttempts

MayReserve(c) == row[c] \in {"active", "expired"} /\ attempts[c] < MaxAttempts

ReserveAttempt(r) ==
    LET c == req[r].chal IN
    /\ At(r, "loaded")
    /\ \/ /\ MayReserve(c)
          /\ attempts' = [attempts EXCEPT ![c] = @ + 1]
          /\ GoTo(r, "reserved")
       \/ /\ ~MayReserve(c)
          /\ UNCHANGED attempts
          /\ GoTo(r, "refused")
    /\ UNCHANGED <<row, loadable, unused, checks, sessions, accepted>>

Deleted(c) == [row EXCEPT ![c] = "deleted"]

\* "too many attempts": the challenge is deleted.
RefuseAttempt(r) ==
    /\ At(r, "refused")
    /\ row' = Deleted(req[r].chal)
    /\ Return(r)
    /\ UNCHANGED <<attempts, loadable, unused, checks, sessions, accepted>>

-------------------------------------------------------------------------------
(* verifyTwoFactor() and verifyRecoveryCode()                              *)

Checked(c) == checks' = [checks EXCEPT ![c] = @ + 1]

\* verifyTotpToken(): the code is right or wrong for the secret loaded before.
VerifyTotp(r) ==
    /\ At(r, "reserved") /\ req[r].via = "totp"
    /\ Checked(req[r].chal)
    /\ GoTo(r, "passed") \/ Return(r)
    /\ UNCHANGED <<row, attempts, loadable, unused, sessions, accepted>>

\* findUnusedRecoveryCodes().
FindAllCodes(r) ==
    /\ At(r, "reserved") /\ req[r].via = "recovery"
    /\ req' = [req EXCEPT ![r].pc = "comparing", ![r].candidates = Codes]
    /\ UNCHANGED <<row, attempts, loadable, unused, checks, sessions, accepted>>

FindUnusedCodes(r) ==
    /\ At(r, "reserved") /\ req[r].via = "recovery"
    /\ req' = [req EXCEPT ![r].pc = "comparing", ![r].candidates = unused]
    /\ UNCHANGED <<row, attempts, loadable, unused, checks, sessions, accepted>>

\* The loop that compares the input with each candidate's hash.
MatchCode(r) ==
    /\ At(r, "comparing")
    /\ Checked(req[r].chal)
    /\ IF req[r].code \in req[r].candidates THEN GoTo(r, "matched") ELSE Return(r)
    /\ UNCHANGED <<row, attempts, loadable, unused, sessions, accepted>>

Accepted(k) == accepted' = [accepted EXCEPT ![k] = @ + 1]

\* markRecoveryCodeUsed(): an UPDATE by id that no one checks.
MarkCodeUsed(r) ==
    /\ At(r, "matched")
    /\ unused' = unused \ {req[r].code}
    /\ Accepted(req[r].code)
    /\ GoTo(r, "passed")
    /\ UNCHANGED <<row, attempts, loadable, checks, sessions>>

\* completeLoginChallenge(): the challenge goes first, the session comes after.
KeepChallenge(r) ==
    /\ At(r, "passed")
    /\ GoTo(r, "closed")
    /\ UNCHANGED <<row, attempts, loadable, unused, checks, sessions, accepted>>

DeleteChallenge(r) ==
    /\ At(r, "passed")
    /\ row' = Deleted(req[r].chal)
    /\ GoTo(r, "closed")
    /\ UNCHANGED <<attempts, loadable, unused, checks, sessions, accepted>>

IssueSession(r) ==
    /\ At(r, "closed")
    /\ sessions' = [sessions EXCEPT ![req[r].chal] = @ + 1]
    /\ Return(r)
    /\ UNCHANGED <<row, attempts, loadable, unused, checks, accepted>>

\* A statement fails: the request ends with an error, and what it did stays.
StatementFails(r) ==
    /\ ~At(r, "idle")
    /\ Return(r)
    /\ UNCHANGED <<row, attempts, loadable, unused, checks, sessions, accepted>>

Handle(r) ==
    \/ LoadUser(r) \/ ReserveAttempt(r) \/ RefuseAttempt(r)
    \/ VerifyTotp(r) \/ FindUnusedCodes(r) \/ MatchCode(r) \/ MarkCodeUsed(r)
    \/ DeleteChallenge(r) \/ IssueSession(r) \/ StatementFails(r)

Next ==
    \/ UserChanges \/ DeleteRecoveryCodes
    \/ \E c \in Challenges : CreateLoginChallenge(c) \/ Expire(c)
    \/ \E r \in Requests, c \in Challenges :
          \/ FindChallenge(r, c, "totp", NoCode)
          \/ \E code \in Codes \cup {NoCode} : FindChallenge(r, c, "recovery", code)
    \/ \E r \in Requests : Handle(r)

Spec == Init /\ [][Next]_vars

-------------------------------------------------------------------------------
(* Properties                                                              *)

Pcs == {"idle", "found", "loaded", "refused", "reserved", "comparing",
        "matched", "passed", "closed"}

RequestState == [pc : Pcs, via : {"totp", "recovery"}, code : Codes \cup {NoCode},
                 chal : Challenges \cup {NoChallenge}, candidates : SUBSET Codes]

TypeOK ==
    /\ row \in [Challenges -> {"none", "active", "expired", "deleted"}]
    /\ attempts \in [Challenges -> 0 .. MaxAttempts]
    /\ loadable \in BOOLEAN
    /\ unused \subseteq Codes
    /\ req \in [Requests -> RequestState]
    /\ checks \in [Challenges -> Nat]
    /\ sessions \in [Challenges -> Nat]
    /\ accepted \in [Codes -> Nat]

\* Requests that hold a reserved attempt they have not used yet.
Reserving(c) ==
    {r \in Requests : req[r].chal = c /\ req[r].pc \in {"reserved", "comparing"}}

\* Requests on challenge c that may still issue a session without any further
\* test of the challenge.
Admitted(c) ==
    {r \in Requests :
        /\ req[r].chal = c
        /\ req[r].pc \in {"reserved", "comparing", "matched", "passed", "closed"}}

\* However many requests arrive at once, a challenge never gets more codes
\* compared than MAX_CHALLENGE_ATTEMPTS (the reason the reservation is one
\* atomic UPDATE), counting the comparisons that are still to come.
AttemptsBound ==
    \A c \in Challenges : checks[c] + Cardinality(Reserving(c)) <= MaxAttempts

\* Once a challenge is deleted, by a success or by a refusal, or has issued a
\* session, no further request is admitted on it: a late one finds no row to
\* reserve an attempt in, and only those that overlap get a session each.
LateComersRefused ==
    [][\A c \in Challenges :
          row[c] = "deleted" \/ sessions[c] > 0 =>
              Cardinality(Admitted(c)') + sessions'[c]
                  <= Cardinality(Admitted(c)) + sessions[c]]_vars

\* Requests that will accept recovery code k.
Accepting(k) ==
    {r \in Requests :
        /\ req[r].pc \in {"comparing", "matched"}
        /\ req[r].code = k /\ k \in req[r].candidates}

\* Once a recovery code has let somebody in, or is marked used, only a request
\* that had read the unused codes before can still accept it, so that it logs in
\* once unless requests overlap.
CodeDeadOnceUsed ==
    [][\A k \in Codes :
          accepted[k] > 0 \/ k \notin unused =>
              accepted'[k] + Cardinality(Accepting(k)')
                  <= accepted[k] + Cardinality(Accepting(k))]_vars

===============================================================================
