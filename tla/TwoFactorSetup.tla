---------------------------- MODULE TwoFactorSetup ----------------------------
(***************************************************************************)
(* Setting up and resetting two-factor authentication of one user:         *)
(* TwoFactorAuthService.beginTotpSetup and confirmTotpSetup, and           *)
(* AdminService.resetUserTotp, over the columns totp_secret_enc and        *)
(* totp_enabled of auth.users and the table auth.totp_recovery_codes.      *)
(***************************************************************************)
EXTENDS Naturals, FiniteSets

CONSTANTS
    Requests,             \* requests that are handled at the same time
    Secrets,              \* secrets that are generated, bounding the setups
    NoSecret,             \* totp_secret_enc IS NULL
    CodeCount,            \* RECOVERY_CODE_COUNT
    MaxCodes              \* bound on the codes of the user

ASSUME SetupAssumption ==
    /\ NoSecret \notin Secrets
    /\ CodeCount \in Nat /\ MaxCodes \in Nat

VARIABLES
    secret,               \* totp_secret_enc
    enabled,              \* totp_enabled
    codes,                \* how many recovery codes have used_at IS NULL
    req,                  \* the requests being handled
    generated,            \* history: secrets generated
    confirmed,            \* history: secrets for which a right code was given
    crossed,              \* history: a confirmation overlapped a setup or a reset
                          \* that changes the secret, since the last reset
    doubled               \* history: a confirmation overlapped another or a reset,
                          \* or a reset failed before it deleted the codes, since
                          \* they were last deleted

vars == <<secret, enabled, codes, req, generated, confirmed, crossed, doubled>>

Idle == [pc |-> "idle", secret |-> NoSecret]

Init ==
    /\ secret = NoSecret
    /\ enabled = FALSE
    /\ codes = 0
    /\ req = [r \in Requests |-> Idle]
    /\ generated = {} /\ confirmed = {}
    /\ crossed = FALSE /\ doubled = FALSE

At(r, pc) == req[r].pc = pc

GoTo(r, pc) == req' = [req EXCEPT ![r].pc = pc]

Holding(r, pc, s) == req' = [req EXCEPT ![r] = [pc |-> pc, secret |-> s]]

Return(r) == req' = [req EXCEPT ![r] = Idle]

\* Confirmations whose secret is not enabled yet, those that have not inserted
\* their codes, and resets that have not deleted the old ones.
Unconfirmed(r) == At(r, "confirming") \/ At(r, "verified")

Confirming(r) == Unconfirmed(r) \/ At(r, "enabled")

Resetting(r) == At(r, "resetting") \/ At(r, "reset")

-------------------------------------------------------------------------------
(* POST /auth/2fa/setup                                                    *)

\* requireAuth loads the user; "2fa_already_enabled" otherwise.
BeginSetupAlways(r) ==
    /\ At(r, "idle")
    /\ \E s \in Secrets \ generated :
         generated' = generated \cup {s} /\ Holding(r, "generated", s)
    /\ crossed' = (crossed \/ \E p \in Requests : Unconfirmed(p))
    /\ UNCHANGED <<secret, enabled, codes, confirmed, doubled>>

BeginSetup(r) ==
    /\ At(r, "idle")
    /\ ~enabled
    /\ \E s \in Secrets \ generated :
         generated' = generated \cup {s} /\ Holding(r, "generated", s)
    /\ crossed' = (crossed \/ \E p \in Requests : Unconfirmed(p))
    /\ UNCHANGED <<secret, enabled, codes, confirmed, doubled>>

\* setPendingTotpSecret(): an UPDATE that does not look at totp_enabled.
SetPendingSecret(r) ==
    /\ At(r, "generated")
    /\ secret' = req[r].secret
    /\ Return(r)
    /\ UNCHANGED <<enabled, codes, generated, confirmed, crossed, doubled>>

-------------------------------------------------------------------------------
(* POST /auth/2fa/confirm                                                  *)

\* The row requireAuth loaded; "already_enabled" or "no_pending_secret" otherwise.
BeginConfirmAgain(r) ==
    /\ At(r, "idle")
    /\ secret # NoSecret
    /\ Holding(r, "confirming", secret)
    /\ crossed' = (crossed \/ \E p \in Requests : At(p, "generated") \/ At(p, "resetting"))
    /\ doubled' = (doubled \/ \E p \in Requests : Confirming(p) \/ Resetting(p))
    /\ UNCHANGED <<secret, enabled, codes, generated, confirmed>>

BeginConfirm(r) ==
    /\ At(r, "idle")
    /\ ~enabled
    /\ secret # NoSecret
    /\ Holding(r, "confirming", secret)
    /\ crossed' = (crossed \/ \E p \in Requests : At(p, "generated") \/ At(p, "resetting"))
    /\ doubled' = (doubled \/ \E p \in Requests : Confirming(p) \/ Resetting(p))
    /\ UNCHANGED <<secret, enabled, codes, generated, confirmed>>

\* verifyTotpToken() with the secret of that row.
VerifyToken(r) ==
    /\ At(r, "confirming")
    /\ \/ Return(r) /\ UNCHANGED confirmed
       \/ GoTo(r, "verified") /\ confirmed' = confirmed \cup {req[r].secret}
    /\ UNCHANGED <<secret, enabled, codes, generated, crossed, doubled>>

\* confirmTotpEnabled().
ConfirmEnabled(r) ==
    /\ At(r, "verified")
    /\ enabled' = TRUE
    /\ GoTo(r, "enabled")
    /\ UNCHANGED <<secret, codes, generated, confirmed, crossed, doubled>>

\* insertRecoveryCodeHashes(): one transaction.
InsertCodes(r) ==
    /\ At(r, "enabled")
    /\ codes + CodeCount <= MaxCodes
    /\ codes' = codes + CodeCount
    /\ Return(r)
    /\ UNCHANGED <<secret, enabled, generated, confirmed, crossed, doubled>>

\* A login marks a recovery code used.
UseSpentCode ==
    /\ enabled
    /\ codes' = codes - 1
    /\ UNCHANGED <<secret, enabled, req, generated, confirmed, crossed, doubled>>

UseCode ==
    /\ enabled /\ codes > 0
    /\ codes' = codes - 1
    /\ UNCHANGED <<secret, enabled, req, generated, confirmed, crossed, doubled>>

-------------------------------------------------------------------------------
(* POST /admin/users/:id/2fa/reset                                         *)

\* findUserById().
BeginReset(r) ==
    /\ At(r, "idle")
    /\ GoTo(r, "resetting")
    /\ crossed' = (crossed \/ \E p \in Requests : Unconfirmed(p))
    /\ doubled' = (doubled \/ \E p \in Requests : Confirming(p))
    /\ UNCHANGED <<secret, enabled, codes, generated, confirmed>>

\* resetTotp().
ResetTotp(r) ==
    /\ At(r, "resetting")
    /\ secret' = NoSecret
    /\ enabled' = FALSE
    /\ GoTo(r, "reset")
    /\ crossed' = (crossed /\ \E p \in Requests : Unconfirmed(p))
    /\ UNCHANGED <<codes, generated, confirmed, doubled>>

\* deleteRecoveryCodesForUser().
DeleteRecoveryCodes(r) ==
    /\ At(r, "reset")
    /\ codes' = 0
    /\ GoTo(r, "forgotten")
    /\ doubled' = (doubled /\ \E p \in Requests : Confirming(p))
    /\ UNCHANGED <<secret, enabled, generated, confirmed, crossed>>

\* revokeAllSessionsForUser(): no column of this module; see Sessions.
RevokeSessions(r) ==
    /\ At(r, "forgotten")
    /\ Return(r)
    /\ UNCHANGED <<secret, enabled, codes, generated, confirmed, crossed, doubled>>

\* A statement fails: the request ends with an error, and what it did stays.
StatementFails(r) ==
    /\ ~At(r, "idle")
    /\ doubled' = (doubled \/ At(r, "reset"))
    /\ Return(r)
    /\ UNCHANGED <<secret, enabled, codes, generated, confirmed, crossed>>

Next ==
    \/ UseCode
    \/ \E r \in Requests :
         \/ BeginSetup(r) \/ SetPendingSecret(r)
         \/ BeginConfirm(r) \/ VerifyToken(r) \/ ConfirmEnabled(r) \/ InsertCodes(r)
         \/ BeginReset(r) \/ ResetTotp(r) \/ DeleteRecoveryCodes(r)
         \/ RevokeSessions(r) \/ StatementFails(r)

Spec == Init /\ [][Next]_vars

-------------------------------------------------------------------------------
(* Properties                                                              *)

TypeOK ==
    /\ secret \in Secrets \cup {NoSecret}
    /\ enabled \in BOOLEAN
    /\ codes \in 0 .. MaxCodes
    /\ req \in [Requests -> [pc : {"idle", "generated", "confirming", "verified",
                                   "enabled", "resetting", "reset", "forgotten"},
                             secret : Secrets \cup {NoSecret}]]
    /\ generated \subseteq Secrets
    /\ confirmed \subseteq generated
    /\ crossed \in BOOLEAN /\ doubled \in BOOLEAN

\* Whoever has two-factor authentication enabled has confirmed the very secret
\* that is stored (else no code of his application logs him in), however many
\* requests run at once and wherever they end.  Nothing keeps a confirmation apart
\* from a setup or a reset that changes the secret it goes by
\* (TwoFactorAuthService.ts:89-95); one that overlaps those is the exception, until
\* the next reset.
SecretConfirmed == crossed \/ (enabled => secret \in confirmed)

\* The same of the recovery codes: there are those of one confirmation at most.
\* Confirmations that overlap one another or a reset are the exception, and what a
\* reset leaves that fails before it deletes the codes, until a reset gets that far.
CodesOfOneSetup == doubled \/ codes <= CodeCount

===============================================================================
