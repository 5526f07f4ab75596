------------------------------- MODULE Sessions -------------------------------
(***************************************************************************)
(* SessionService over auth.sessions, beside TwoFactorSetup, for one user: *)
(* the logins that issue a session, the sessions his requests need, and    *)
(* the revocation that ends a TOTP reset.                                  *)
(***************************************************************************)
EXTENDS TwoFactorSetup

CONSTANTS
    Rows,                 \* sessions of the user that are not over
    Logins                \* logins under way at the same time

VARIABLES
    session,              \* rows of auth.sessions: revoked_at IS NULL and
                          \* expires_at > now(), and what admitted them
    login,                \* logins past the row of auth.users they go by
    taken,                \* history: secrets that resets took out of the row
    retired               \* history: those of resets that have come to their end

sessionVars == <<vars, session, login, taken, retired>>

None == [live |-> FALSE, factor |-> NoSecret, late |-> FALSE]

\* What a login goes by: the secret that a code is compared with (or whose
\* recovery codes), NoSecret if a password is enough.  It is late when sessions
\* have been revoked since.
GoingBy(factor) == [live |-> TRUE, factor |-> factor, late |-> FALSE]

SessionsInit ==
    /\ Init
    /\ session = [s \in Rows |-> None]
    /\ login = [l \in Logins |-> None]
    /\ taken = {} /\ retired = {}

\* requireAuth(): the cookie of a session that is active.
Authenticated == \E s \in Rows : session[s].live

-------------------------------------------------------------------------------
(* Logins                                                                  *)

\* login(): the row says that no second step is needed.
LoginByPassword(l) ==
    /\ ~login[l].live
    /\ ~enabled
    /\ login' = [login EXCEPT ![l] = GoingBy(NoSecret)]
    /\ UNCHANGED <<vars, session, taken, retired>>

\* loadChallengeUser() of the second step: the secret that the code will be
\* compared with.
LoginByCode(l) ==
    /\ ~login[l].live
    /\ enabled /\ secret # NoSecret
    /\ login' = [login EXCEPT ![l] = GoingBy(secret)]
    /\ UNCHANGED <<vars, session, taken, retired>>

\* A wrong password or code, no attempt left, or a statement fails.
LoginFails(l) ==
    /\ login[l].live
    /\ login' = [login EXCEPT ![l] = None]
    /\ UNCHANGED <<vars, session, taken, retired>>

\* issueSession(), after any number of awaits.
IssueSession(l) ==
    /\ login[l].live
    /\ \E s \in Rows : /\ ~session[s].live
                       /\ session' = [session EXCEPT ![s] = login[l]]
    /\ login' = [login EXCEPT ![l] = None]
    /\ UNCHANGED <<vars, taken, retired>>

\* destroySession() of a logout, expires_at, or the user is deleted.
EndSession(s) ==
    /\ session[s].live
    /\ session' = [session EXCEPT ![s] = None]
    /\ UNCHANGED <<vars, login, taken, retired>>

-------------------------------------------------------------------------------
(* Requests                                                                *)

\* Setup and confirmation need a session when they begin; afterwards they go by
\* the row that was loaded with it.
Setup(r) ==
    /\ \/ Authenticated /\ (BeginSetup(r) \/ BeginConfirm(r))
       \/ SetPendingSecret(r)
       \/ VerifyToken(r) \/ ConfirmEnabled(r) \/ InsertCodes(r)
       \/ StatementFails(r)
    /\ UNCHANGED <<session, login, taken, retired>>

\* Which statement of a reset revokes the sessions.
RevokingFirst(r) == At(r, "idle")

Revoking(r) == At(r, "forgotten")

\* resetUserTotp(): revokeAllSessionsForUser() finds the rows that are there.
Reset(r) ==
    /\ BeginReset(r) \/ ResetTotp(r) \/ DeleteRecoveryCodes(r) \/ RevokeSessions(r)
    /\ IF Revoking(r)
       THEN /\ session' = [s \in Rows |-> None]
            /\ login' = [l \in Logins |-> [login[l] EXCEPT !.late = @ \/ login[l].live]]
       ELSE UNCHANGED <<session, login>>
    /\ taken' = IF At(r, "resetting") THEN taken \cup ({secret} \ {NoSecret})
                ELSE taken
    /\ retired' = IF At(r, "forgotten") THEN taken ELSE retired

SessionsNext ==
    \/ UseCode /\ UNCHANGED <<session, login, taken, retired>>
    \/ \E r \in Requests : Setup(r) \/ Reset(r)
    \/ \E l \in Logins :
         LoginByPassword(l) \/ LoginByCode(l) \/ LoginFails(l) \/ IssueSession(l)
    \/ \E s \in Rows : EndSession(s)

SessionsSpec == SessionsInit /\ [][SessionsNext]_sessionVars

-------------------------------------------------------------------------------
(* Properties                                                              *)

\* Once a reset is over, no session is left that the old second factor admitted:
\* the row forgets the factor first and the sessions are revoked last, so what
\* was issued in between is caught.  A login that was past the row it goes by when the
\* sessions were revoked is the exception: its session comes after.
ResetEndsSessions ==
    \A s \in Rows : session[s].factor \in retired => session[s].late

===============================================================================
