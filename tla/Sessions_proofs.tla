---------------------------- MODULE Sessions_proofs ----------------------------
(***************************************************************************)
(* Proofs about TwoFactorSetup and Sessions, for any number of requests,   *)
(* secrets, sessions and logins at once.                                   *)
(***************************************************************************)
EXTENDS Sessions, TLAPS

\* Every secret in the row or in a request has been generated.
SecretsGenerated ==
    /\ secret \in generated \cup {NoSecret}
    /\ \A r \in Requests :
         /\ req[r].secret \in generated \cup {NoSecret}
         /\ At(r, "generated") \/ At(r, "confirming") => req[r].secret # NoSecret

SetupInv == TypeOK /\ SecretsGenerated

LEMMA SetupInit == Init => SetupInv
<1> SUFFICES ASSUME Init PROVE SetupInv
  OBVIOUS
<1>1. codes \in 0 .. MaxCodes
  BY SetupAssumption DEF Init
<1>2. TypeOK
  BY <1>1 DEF Init, TypeOK, Idle
<1> QED
  BY <1>2 DEF Init, SetupInv, SecretsGenerated, Idle, At

LEMMA SetupStep == SetupInv /\ [Next]_vars => SetupInv'
<1> SUFFICES ASSUME SetupInv, [Next]_vars PROVE SetupInv'
  OBVIOUS
<1> USE SetupAssumption
<1> USE DEF SetupInv, TypeOK, SecretsGenerated, At, GoTo, Holding, Return, Idle
<1>1. CASE UseCode
  BY <1>1 DEF UseCode
<1>2. ASSUME NEW r \in Requests, BeginSetup(r) PROVE SetupInv'
  <2>1. crossed' \in BOOLEAN
    BY <1>2 DEF BeginSetup
  <2> QED
    BY <1>2, <2>1 DEF BeginSetup
<1>3. ASSUME NEW r \in Requests, SetPendingSecret(r) PROVE SetupInv'
  BY <1>3 DEF SetPendingSecret
<1>4. ASSUME NEW r \in Requests, BeginConfirm(r) PROVE SetupInv'
  <2>1. crossed' \in BOOLEAN /\ doubled' \in BOOLEAN
    BY <1>4 DEF BeginConfirm
  <2> QED
    BY <1>4, <2>1 DEF BeginConfirm
<1>5. ASSUME NEW r \in Requests, VerifyToken(r) PROVE SetupInv'
  <2>1. CASE Return(r) /\ UNCHANGED confirmed
    BY <1>5, <2>1 DEF VerifyToken
  <2>2. CASE GoTo(r, "verified") /\ confirmed' = confirmed \cup {req[r].secret}
    BY <1>5, <2>2 DEF VerifyToken
  <2> QED
    BY <1>5, <2>1, <2>2 DEF VerifyToken
<1>6. ASSUME NEW r \in Requests, ConfirmEnabled(r) \/ InsertCodes(r) PROVE SetupInv'
  <2>1. CASE ConfirmEnabled(r)
    BY <2>1 DEF ConfirmEnabled
  <2>2. CASE InsertCodes(r)
    BY <2>2 DEF InsertCodes
  <2> QED
    BY <1>6, <2>1, <2>2
<1>7. ASSUME NEW r \in Requests,
             \/ BeginReset(r) \/ ResetTotp(r) \/ DeleteRecoveryCodes(r)
             \/ RevokeSessions(r)
      PROVE  SetupInv'
  <2>1. CASE BeginReset(r)
    <3>1. crossed' \in BOOLEAN /\ doubled' \in BOOLEAN
      BY <2>1 DEF BeginReset
    <3> QED
      BY <2>1, <3>1 DEF BeginReset
  <2>2. CASE ResetTotp(r)
    <3>1. crossed' \in BOOLEAN
      BY <2>2 DEF ResetTotp
    <3> QED
      BY <2>2, <3>1 DEF ResetTotp
  <2>3. CASE DeleteRecoveryCodes(r)
    <3>1. doubled' \in BOOLEAN
      BY <2>3 DEF DeleteRecoveryCodes
    <3> QED
      BY <2>3, <3>1 DEF DeleteRecoveryCodes
  <2>4. CASE RevokeSessions(r)
    BY <2>4 DEF RevokeSessions
  <2> QED
    BY <1>7, <2>1, <2>2, <2>3, <2>4
<1>8. ASSUME NEW r \in Requests, StatementFails(r) PROVE SetupInv'
  <2>1. doubled' \in BOOLEAN
    BY <1>8 DEF StatementFails
  <2> QED
    BY <1>8, <2>1 DEF StatementFails
<1>9. CASE UNCHANGED vars
  BY <1>9 DEF vars
<1> QED
  BY <1>1, <1>2, <1>3, <1>4, <1>5, <1>6, <1>7, <1>8, <1>9 DEF Next

LEMMA SetupInvariant == Spec => []SetupInv
<1> QED
  BY SetupInit, SetupStep, PTL DEF Spec

\* The columns, the recovery codes and the requests of a setup are well typed.
THEOREM SetupTypeCorrect == Spec => []TypeOK
<1>1. SetupInv => TypeOK
  BY DEF SetupInv
<1> QED
  BY <1>1, SetupInvariant, PTL

-------------------------------------------------------------------------------
(* Secrets                                                                 *)

\* What requests that are under way know of the row, unless a confirmation has
\* overlapped a setup or a reset.
RowAsRead ==
    ~crossed =>
        /\ enabled => secret \in confirmed
        /\ \A r \in Requests : At(r, "generated") => ~enabled
        /\ \A r \in Requests : Unconfirmed(r) =>
             /\ req[r].secret = secret
             /\ \A p \in Requests : ~At(p, "generated") /\ ~At(p, "resetting")

\* A right code was given for the secret that is about to be enabled.
VerifiedConfirmed == \A r \in Requests : At(r, "verified") => req[r].secret \in confirmed

SecretsInv == SetupInv /\ RowAsRead /\ VerifiedConfirmed

LEMMA SecretsInit == Init => SecretsInv
  BY SetupInit
  DEF SecretsInv, RowAsRead, VerifiedConfirmed, Unconfirmed, Init, At, Idle

LEMMA SecretsStep == SecretsInv /\ [Next]_vars => SecretsInv'
<1> SUFFICES ASSUME SecretsInv, [Next]_vars PROVE SecretsInv'
  OBVIOUS
<1> USE DEF SecretsInv, RowAsRead, VerifiedConfirmed, Unconfirmed, At, GoTo, Holding,
            Return, Idle, SetupInv, TypeOK
<1>0. SetupInv'
  BY SetupStep
<1>1. CASE UseCode
  BY <1>0, <1>1 DEF UseCode
<1>2. ASSUME NEW r \in Requests, BeginSetup(r) PROVE SecretsInv'
  <2>1. PICK s \in Secrets \ generated : Holding(r, "generated", s)
    BY <1>2 DEF BeginSetup
  <2>2. \A p \in Requests : p # r => req'[p] = req[p]
    BY <2>1
  <2>3. req'[r].pc = "generated"
    BY <2>1
  <2>4. UNCHANGED <<secret, enabled, confirmed>> /\ ~enabled
    BY <1>2 DEF BeginSetup
  <2>5. ~crossed' => ~crossed /\ \A p \in Requests : ~Unconfirmed(p)
    BY <1>2 DEF BeginSetup
  <2>6. RowAsRead'
    BY <2>2, <2>3, <2>4, <2>5
  <2>7. VerifiedConfirmed'
    BY <2>2, <2>3, <2>4
  <2> QED
    BY <1>0, <2>6, <2>7
<1>3. ASSUME NEW r \in Requests, SetPendingSecret(r) PROVE SecretsInv'
  BY <1>0, <1>3 DEF SetPendingSecret
<1>4. ASSUME NEW r \in Requests, BeginConfirm(r) PROVE SecretsInv'
  BY <1>0, <1>4 DEF BeginConfirm
<1>5. ASSUME NEW r \in Requests, VerifyToken(r) PROVE SecretsInv'
  <2>1. CASE Return(r) /\ UNCHANGED confirmed
    BY <1>0, <1>5, <2>1 DEF VerifyToken
  <2>2. CASE GoTo(r, "verified") /\ confirmed' = confirmed \cup {req[r].secret}
    BY <1>0, <1>5, <2>2 DEF VerifyToken
  <2> QED
    BY <1>5, <2>1, <2>2 DEF VerifyToken
<1>6. ASSUME NEW r \in Requests, ConfirmEnabled(r) PROVE SecretsInv'
  BY <1>0, <1>6 DEF ConfirmEnabled
<1>7. ASSUME NEW r \in Requests, BeginReset(r) PROVE SecretsInv'
  BY <1>0, <1>7 DEF BeginReset
<1>8. ASSUME NEW r \in Requests, ResetTotp(r) PROVE SecretsInv'
  BY <1>0, <1>8 DEF ResetTotp
<1>9. ASSUME NEW r \in Requests,
             \/ InsertCodes(r) \/ DeleteRecoveryCodes(r)
             \/ RevokeSessions(r) \/ StatementFails(r)
      PROVE  SecretsInv'
  BY <1>0, <1>9 DEF InsertCodes, DeleteRecoveryCodes, RevokeSessions, StatementFails
<1>10. CASE UNCHANGED vars
  BY <1>0, <1>10 DEF vars
<1> QED
  BY <1>1, <1>2, <1>3, <1>4, <1>5, <1>6, <1>7, <1>8, <1>9, <1>10 DEF Next

\* The secret that is enabled is one for which a right code was given, unless a
\* confirmation overlapped a setup or a reset since the last reset.
THEOREM OnlyConfirmedSecrets == Spec => []SecretConfirmed
<1>1. SecretsInv => SecretConfirmed
  BY DEF SecretsInv, RowAsRead, SecretConfirmed
<1> QED
  BY <1>1, SecretsInit, SecretsStep, PTL DEF Spec

-------------------------------------------------------------------------------
(* Recovery codes                                                          *)

\* One confirmation at a time, beside no reset, and it finds no codes.
AloneConfirming ==
    \A r \in Requests : Confirming(r) =>
        /\ codes = 0
        /\ At(r, "enabled") => enabled
        /\ \A p \in Requests : ~Resetting(p) /\ (Confirming(p) => p = r)

\* Codes are there while two-factor authentication is enabled, or until the
\* second statement of a reset.
CodesOwned ==
    codes = 0 \/ (codes <= CodeCount /\ (enabled \/ \E r \in Requests : At(r, "reset")))

CodesAccounted == doubled \/ (AloneConfirming /\ CodesOwned)

CodesInv == SetupInv /\ CodesAccounted

LEMMA CodesInit == Init => CodesInv
  BY SetupInit
  DEF CodesInv, CodesAccounted, AloneConfirming, CodesOwned, Confirming, Unconfirmed,
      Init, At, Idle

LEMMA CodesStep == CodesInv /\ [Next]_vars => CodesInv'
<1> SUFFICES ASSUME CodesInv, [Next]_vars PROVE CodesInv'
  OBVIOUS
<1> USE SetupAssumption
<1> USE DEF CodesInv, CodesAccounted, AloneConfirming, CodesOwned, Confirming,
            Unconfirmed, Resetting, At, GoTo, Holding, Return, Idle, SetupInv, TypeOK
<1>0. SetupInv'
  BY SetupStep
<1>1. CASE UseCode
  BY <1>0, <1>1 DEF UseCode
<1>2. ASSUME NEW r \in Requests, BeginSetup(r) PROVE CodesInv'
  BY <1>0, <1>2 DEF BeginSetup
<1>3. ASSUME NEW r \in Requests, SetPendingSecret(r) PROVE CodesInv'
  BY <1>0, <1>3 DEF SetPendingSecret
<1>4. ASSUME NEW r \in Requests, BeginConfirm(r) PROVE CodesInv'
  BY <1>0, <1>4 DEF BeginConfirm
<1>5. ASSUME NEW r \in Requests, VerifyToken(r) PROVE CodesInv'
  <2>1. CASE Return(r) /\ UNCHANGED confirmed
    BY <1>0, <1>5, <2>1 DEF VerifyToken
  <2>2. CASE GoTo(r, "verified") /\ confirmed' = confirmed \cup {req[r].secret}
    BY <1>0, <1>5, <2>2 DEF VerifyToken
  <2> QED
    BY <1>5, <2>1, <2>2 DEF VerifyToken
<1>6. ASSUME NEW r \in Requests, ConfirmEnabled(r) PROVE CodesInv'
  BY <1>0, <1>6 DEF ConfirmEnabled
<1>7. ASSUME NEW r \in Requests, InsertCodes(r) PROVE CodesInv'
  BY <1>0, <1>7 DEF InsertCodes
<1>8. ASSUME NEW r \in Requests, BeginReset(r) PROVE CodesInv'
  BY <1>0, <1>8 DEF BeginReset
<1>9. ASSUME NEW r \in Requests, ResetTotp(r) PROVE CodesInv'
  BY <1>0, <1>9 DEF ResetTotp
<1>10. ASSUME NEW r \in Requests, DeleteRecoveryCodes(r) PROVE CodesInv'
  BY <1>0, <1>10 DEF DeleteRecoveryCodes
<1>11. ASSUME NEW r \in Requests, RevokeSessions(r) PROVE CodesInv'
  BY <1>0, <1>11 DEF RevokeSessions
<1>12. ASSUME NEW r \in Requests, StatementFails(r) PROVE CodesInv'
  BY <1>0, <1>12 DEF StatementFails
<1>13. CASE UNCHANGED vars
  BY <1>0, <1>13 DEF vars
<1> QED
  BY <1>1, <1>2, <1>3, <1>4, <1>5, <1>6, <1>7, <1>8, <1>9, <1>10, <1>11, <1>12, <1>13
     DEF Next

\* A user never has the codes of two confirmations, unless since the codes were last
\* deleted a confirmation overlapped another one or a reset, or a reset failed
\* before it deleted them.
THEOREM OneSetOfCodes == Spec => []CodesOfOneSetup
<1>1. CodesInv => CodesOfOneSetup
  BY SetupAssumption
  DEF CodesInv, SetupInv, TypeOK, CodesAccounted, CodesOwned, CodesOfOneSetup
<1> QED
  BY <1>1, CodesInit, CodesStep, PTL DEF Spec

-------------------------------------------------------------------------------
(* Sessions                                                                *)

Admitted == [live : BOOLEAN, factor : Secrets \cup {NoSecret}, late : BOOLEAN]

SessionsTyped ==
    /\ session \in [Rows -> Admitted]
    /\ login \in [Logins -> Admitted]
    /\ \A l \in Logins : ~login[l].live => login[l].factor = NoSecret
    /\ taken \subseteq generated
    /\ retired \subseteq taken

\* A secret that was taken out of the row never gets into it again: each is
\* generated, held and stored once.
NeverBack ==
    /\ secret \notin taken
    /\ \A r \in Requests : At(r, "generated") =>
         /\ req[r].secret \notin taken \cup {secret}
         /\ \A q \in Requests : At(q, "generated") /\ q # r =>
              req[q].secret # req[r].secret

\* What goes by a secret of a reset that is over is late: logins, too.
LateOnes ==
    /\ \A l \in Logins : login[l].factor \in retired => login[l].late
    /\ \A s \in Rows : session[s].factor \in retired => session[s].late

SessionsInv == SetupInv /\ SessionsTyped /\ NeverBack /\ LateOnes

LEMMA SessionsStart == SessionsInit => SessionsInv
<1> SUFFICES ASSUME SessionsInit PROVE SessionsInv
  OBVIOUS
<1>1. SetupInv
  BY SetupInit DEF SessionsInit
<1>2. SessionsTyped
  BY DEF SessionsInit, SessionsTyped, Admitted, None
<1>3. NeverBack
  BY DEF SessionsInit, Init, NeverBack, At, Idle
<1>4. LateOnes
  BY DEF SessionsInit, LateOnes
<1> QED
  BY <1>1, <1>2, <1>3, <1>4 DEF SessionsInv

\* Every step is one of the setup, or leaves it alone.
LEMMA StepsOfSetup == [SessionsNext]_sessionVars => [Next]_vars
  BY DEF SessionsNext, Setup, Reset, LoginByPassword, LoginByCode, LoginFails,
         IssueSession, EndSession, sessionVars, Next

\* The setup's own steps.
LEMMA SetupKeepsSessions ==
  ASSUME SessionsInv, NEW r \in Requests, Setup(r)
  PROVE  SessionsTyped' /\ NeverBack' /\ LateOnes'
<1> USE SetupAssumption
<1> USE DEF SessionsInv, SetupInv, TypeOK, SecretsGenerated, At, GoTo, Holding, Return, Idle
<1>1. UNCHANGED <<session, login, taken, retired>>
  BY DEF Setup
<1>2. generated \subseteq generated'
  BY DEF Setup, BeginSetup, SetPendingSecret, BeginConfirm, VerifyToken,
         ConfirmEnabled, InsertCodes, StatementFails
<1>3. SessionsTyped' /\ LateOnes'
  BY <1>1, <1>2 DEF SessionsTyped, LateOnes
<1>4. CASE BeginSetup(r)
  <2>1. PICK s \in Secrets \ generated : Holding(r, "generated", s)
    BY <1>4 DEF BeginSetup
  <2>2. s \notin taken \cup {secret}
    BY <2>1 DEF SessionsTyped
  <2>3. NeverBack'
    BY <1>1, <1>4, <2>1, <2>2 DEF BeginSetup, NeverBack
  <2> QED
    BY <1>3, <2>3
<1>5. CASE SetPendingSecret(r)
  BY <1>1, <1>3, <1>5 DEF SetPendingSecret, NeverBack
<1>6. CASE BeginConfirm(r)
  BY <1>1, <1>3, <1>6 DEF BeginConfirm, NeverBack
<1>7. CASE VerifyToken(r)
  BY <1>1, <1>3, <1>7 DEF VerifyToken, NeverBack
<1>8. CASE ConfirmEnabled(r) \/ InsertCodes(r) \/ StatementFails(r)
  BY <1>1, <1>3, <1>8 DEF ConfirmEnabled, InsertCodes, StatementFails, NeverBack
<1> QED
  BY <1>4, <1>5, <1>6, <1>7, <1>8 DEF Setup

\* A reset: the secret leaves the row, and the last statement revokes.
LEMMA ResetKeepsSessions ==
  ASSUME SessionsInv, NEW r \in Requests, Reset(r)
  PROVE  SessionsTyped' /\ NeverBack' /\ LateOnes'
<1> USE SetupAssumption
<1> USE DEF SessionsInv, SetupInv, TypeOK, SecretsGenerated, At, GoTo, Return, Idle
<1>1. CASE BeginReset(r)
  <2>1. UNCHANGED <<session, login, taken, retired, secret, generated>>
    BY <1>1 DEF Reset, BeginReset, Revoking
  <2> QED
    BY <1>1, <2>1 DEF BeginReset, SessionsTyped, NeverBack, LateOnes
<1>2. CASE ResetTotp(r)
  <2>1. /\ UNCHANGED <<session, login, retired, generated>>
        /\ taken' = taken \cup ({secret} \ {NoSecret})
        /\ secret' = NoSecret
    BY <1>2 DEF Reset, ResetTotp, Revoking
  <2>2. SessionsTyped' /\ LateOnes'
    BY <2>1 DEF SessionsTyped, LateOnes
  <2>3. NeverBack'
    BY <1>2, <2>1 DEF ResetTotp, NeverBack, SessionsTyped
  <2> QED
    BY <2>2, <2>3
<1>3. CASE DeleteRecoveryCodes(r)
  <2>1. UNCHANGED <<session, login, taken, retired, secret, generated>>
    BY <1>3 DEF Reset, DeleteRecoveryCodes, Revoking
  <2> QED
    BY <1>3, <2>1 DEF DeleteRecoveryCodes, SessionsTyped, NeverBack, LateOnes
<1>4. CASE RevokeSessions(r)
  <2>1. /\ session' = [s \in Rows |-> None]
        /\ login' = [l \in Logins |-> [login[l] EXCEPT !.late = @ \/ login[l].live]]
        /\ taken' = taken /\ retired' = taken
        /\ UNCHANGED <<secret, generated>>
    BY <1>4 DEF Reset, RevokeSessions, Revoking
  <2>2. ASSUME NEW l \in Logins
        PROVE  /\ login'[l] \in Admitted
               /\ login'[l].live = login[l].live /\ login'[l].factor = login[l].factor
               /\ login[l].live => login'[l].late
    BY <2>1 DEF SessionsTyped, Admitted
  <2>3. SessionsTyped'
    BY <2>1, <2>2 DEF SessionsTyped, Admitted, None
  <2>4. NoSecret \notin taken
    BY DEF SessionsTyped
  <2>5. LateOnes'
    <3>1. ASSUME NEW l \in Logins, login'[l].factor \in retired' PROVE login'[l].late
      <4>1. login[l].factor \in taken /\ retired' = taken
        BY <2>1, <2>2, <3>1
      <4>2. ~login[l].live => login[l].factor = NoSecret
        BY DEF SessionsTyped
      <4>3. login[l].live
        BY <2>4, <4>1, <4>2, Zenon
      <4> QED
        BY <2>2, <4>3
    <3>2. ASSUME NEW s \in Rows PROVE session'[s].factor \notin retired'
      BY <2>1, <2>4 DEF None
    <3> QED
      BY <3>1, <3>2 DEF LateOnes
  <2>6. NeverBack'
    BY <1>4, <2>1 DEF RevokeSessions, NeverBack
  <2> QED
    BY <2>3, <2>5, <2>6
<1> QED
  BY <1>1, <1>2, <1>3, <1>4 DEF Reset

\* Logins go by the secret that is in the row, and sessions by that of the login.
LEMMA LoginKeepsSessions ==
  ASSUME SessionsInv, NEW l \in Logins,
         LoginByPassword(l) \/ LoginByCode(l) \/ LoginFails(l) \/ IssueSession(l)
  PROVE  SessionsTyped' /\ NeverBack' /\ LateOnes'
<1> USE SetupAssumption DEF SessionsInv, SetupInv, TypeOK
<1>1. UNCHANGED <<vars, taken, retired>>
  BY DEF LoginByPassword, LoginByCode, LoginFails, IssueSession
<1>2. NeverBack'
  BY <1>1 DEF NeverBack, At, vars
<1>3. NoSecret \notin retired /\ secret \notin retired
  BY DEF SessionsTyped, NeverBack
<1>4. CASE LoginByPassword(l)
  BY <1>1, <1>2, <1>3, <1>4
  DEF LoginByPassword, GoingBy, SessionsTyped, Admitted, LateOnes, vars
<1>5. CASE LoginByCode(l)
  BY <1>1, <1>2, <1>3, <1>5
  DEF LoginByCode, GoingBy, SessionsTyped, Admitted, LateOnes, vars
<1>6. CASE LoginFails(l)
  BY <1>1, <1>2, <1>3, <1>6
  DEF LoginFails, None, SessionsTyped, Admitted, LateOnes, vars
<1>7. CASE IssueSession(l)
  BY <1>1, <1>2, <1>3, <1>7
  DEF IssueSession, None, SessionsTyped, Admitted, LateOnes, vars
<1> QED
  BY <1>4, <1>5, <1>6, <1>7

LEMMA SessionsStep == SessionsInv /\ [SessionsNext]_sessionVars => SessionsInv'
<1> SUFFICES ASSUME SessionsInv, [SessionsNext]_sessionVars PROVE SessionsInv'
  OBVIOUS
<1>0. SetupInv'
  BY StepsOfSetup, SetupStep DEF SessionsInv
<1>1. CASE UseCode /\ UNCHANGED <<session, login, taken, retired>>
  BY <1>0, <1>1 DEF UseCode, SessionsInv, SessionsTyped, NeverBack, LateOnes, At
<1>2. ASSUME NEW r \in Requests, Setup(r) \/ Reset(r) PROVE SessionsInv'
  BY <1>0, <1>2, SetupKeepsSessions, ResetKeepsSessions DEF SessionsInv
<1>3. ASSUME NEW l \in Logins,
             LoginByPassword(l) \/ LoginByCode(l) \/ LoginFails(l) \/ IssueSession(l)
      PROVE  SessionsInv'
  BY <1>0, <1>3, LoginKeepsSessions DEF SessionsInv
<1>4. ASSUME NEW s \in Rows, EndSession(s) PROVE SessionsInv'
  <2>1. NoSecret \notin retired
    BY SetupAssumption DEF SessionsInv, SetupInv, TypeOK, SessionsTyped
  <2> QED
    BY <1>0, <1>4, <2>1
    DEF EndSession, None, SessionsInv, SessionsTyped, Admitted, NeverBack, LateOnes, At, vars
<1>5. CASE UNCHANGED sessionVars
  BY <1>0, <1>5
  DEF sessionVars, vars, SessionsInv, SessionsTyped, NeverBack, LateOnes, At
<1> QED
  BY <1>1, <1>2, <1>3, <1>4, <1>5 DEF SessionsNext

\* No session that an old second factor admitted outlives the reset, except those
\* of logins that were under way when the sessions were revoked.
THEOREM ResetEndsAll == SessionsSpec => []ResetEndsSessions
<1>1. SessionsInv => ResetEndsSessions
  BY DEF SessionsInv, LateOnes, ResetEndsSessions
<1> QED
  BY <1>1, SessionsStart, SessionsStep, PTL DEF SessionsSpec

\* What holds of the setup holds beside the sessions.
THEOREM SetupBesideSessions == SessionsSpec => Spec
<1>1. SessionsInit => Init
  BY DEF SessionsInit
<1> QED
  BY <1>1, StepsOfSetup, PTL DEF SessionsSpec, Spec

===============================================================================
