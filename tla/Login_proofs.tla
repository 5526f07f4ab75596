----------------------------- MODULE Login_proofs -----------------------------
(***************************************************************************)
(* The two steps of a login, for any number of concurrent requests, any    *)
(* limits, and any number of challenges and recovery codes.                *)
(***************************************************************************)
EXTENDS LoginLockout, LoginChallenge, FiniteSetTheorems, TLAPS

-------------------------------------------------------------------------------
(* The first step: the bound on the passwords compared in a window.        *)

\* Logins that have compared a wrong password and not recorded it yet.
Guessing == {r \in Logins : LoginAt(r, "wrong")}

\* While the user is not locked, every wrong password of the window is counted,
\* lost, or on its way to the count.  Beyond the limit nothing can have been
\* counted in this window: it would have locked the user.
WindowCounted ==
    ~locked =>
        guesses <= (IF failed < MaxFailed THEN failed ELSE 0)
                     + Cardinality(Guessing) + lost

LockoutInv == LockoutTypeOK /\ GuessesBound /\ WindowCounted

LEMMA LoginsCounted ==
    /\ Cardinality(Comparing) \in Nat /\ Cardinality(Guessing) \in Nat
    /\ Cardinality(Logins) \in Nat
    /\ Cardinality(Comparing) + Cardinality(Guessing) <= Cardinality(Logins)
    /\ IsFiniteSet(Comparing) /\ IsFiniteSet(Guessing)
<1>1. IsFiniteSet(Comparing) /\ IsFiniteSet(Guessing) /\ IsFiniteSet(Logins)
  BY LockoutAssumption, FS_Subset DEF Comparing, Guessing
<1>2. Comparing \cap Guessing = {} /\ Comparing \cup Guessing \in SUBSET Logins
  BY DEF Comparing, Guessing, LoginAt
<1>3. Cardinality(Comparing \cup Guessing) = Cardinality(Comparing) + Cardinality(Guessing)
  <2>1. Cardinality(Comparing \cup Guessing)
          = Cardinality(Comparing) + Cardinality(Guessing)
              - Cardinality(Comparing \cap Guessing)
    BY <1>1, FS_Union
  <2>2. Cardinality(Comparing \cap Guessing) = 0
    BY <1>2, FS_EmptySet
  <2> QED BY <1>1, <2>1, <2>2, FS_CardinalityType
<1>4. Cardinality(Comparing \cup Guessing) <= Cardinality(Logins)
  BY <1>1, <1>2, FS_Subset
<1> QED BY <1>1, <1>3, <1>4, FS_CardinalityType

\* In a window that counts its guesses, the bound holds with all logins loaded.
LEMMA BoundFromCount == LockoutTypeOK /\ WindowCounted /\ ~locked => GuessesBound
<1> SUFFICES ASSUME LockoutTypeOK, WindowCounted, ~locked PROVE GuessesBound
  OBVIOUS
<1>1. (IF failed < MaxFailed THEN failed ELSE 0) \in 0 .. MaxFailed - 1
  BY LockoutAssumption DEF LockoutTypeOK
<1> QED
  BY <1>1, LoginsCounted, LockoutAssumption DEF WindowCounted, GuessesBound, LockoutTypeOK

LEMMA LockoutTypeStep == LockoutTypeOK /\ [LockoutNext]_lockoutVars => LockoutTypeOK'
<1> SUFFICES ASSUME LockoutTypeOK, [LockoutNext]_lockoutVars PROVE LockoutTypeOK'
  OBVIOUS
<1> USE LockoutAssumption DEF LockoutTypeOK
<1>1. \A r \in Logins : EndLogin(r) =>
        login' \in [Logins -> [pc : {"idle", "loaded", "wrong", "right"},
                               failed : 0 .. SmallintMax]]
  BY DEF EndLogin, NoLogin
<1>2. CASE LockEnds
  <2>1. locked' \in BOOLEAN
    BY <1>2 DEF LockEnds
  <2> QED BY <1>2, <2>1 DEF LockEnds, NewWindow
<1>3. ASSUME NEW r \in Logins, FindUser(r) PROVE LockoutTypeOK'
  BY <1>3 DEF FindUser
<1>4. ASSUME NEW r \in Logins, VerifyPassword(r) PROVE LockoutTypeOK'
  BY <1>4 DEF VerifyPassword
<1>5. ASSUME NEW r \in Logins, RegisterFailedLogin(r) PROVE LockoutTypeOK'
  BY <1>1, <1>5 DEF RegisterFailedLogin
<1>6. ASSUME NEW r \in Logins, LoginFails(r) PROVE LockoutTypeOK'
  BY <1>1, <1>6 DEF LoginFails
<1>7. ASSUME NEW r \in Logins, ResetFailedLogins(r) PROVE LockoutTypeOK'
  <2>1. locked' \in BOOLEAN
    BY <1>7 DEF ResetFailedLogins
  <2> QED BY <1>1, <1>7, <2>1 DEF ResetFailedLogins, NewWindow
<1>8. CASE UNCHANGED lockoutVars
  BY <1>8 DEF lockoutVars
<1> QED
  BY <1>2, <1>3, <1>4, <1>5, <1>6, <1>7, <1>8 DEF LockoutNext

LEMMA LockoutInitInv == LockoutInit => LockoutInv
<1> SUFFICES ASSUME LockoutInit PROVE LockoutInv
  OBVIOUS
<1>1. LockoutTypeOK
  <2>1. locked \in BOOLEAN
    BY DEF LockoutInit
  <2> QED BY <2>1, LockoutAssumption DEF LockoutInit, LockoutTypeOK, NoLogin
<1>2. WindowCounted /\ ~locked
  BY LoginsCounted, LockoutAssumption DEF LockoutInit, WindowCounted
<1> QED BY <1>1, <1>2, BoundFromCount DEF LockoutInv

\* After a lock, or a login, a new window begins.
LEMMA WindowEnds ==
    ASSUME LockoutTypeOK', NewWindow, ~locked' PROVE LockoutInv'
<1>1. (LockoutTypeOK /\ WindowCounted /\ ~locked => GuessesBound)'
  BY BoundFromCount, PTL
<1>2. Cardinality(Guessing') \in Nat
  BY LockoutAssumption, FS_Subset, FS_CardinalityType DEF Guessing
<1>3. WindowCounted'
  BY <1>2, LockoutAssumption DEF WindowCounted, NewWindow, LockoutTypeOK
<1> QED BY <1>1, <1>3 DEF LockoutInv

LEMMA LockoutStep == LockoutInv /\ [LockoutNext]_lockoutVars => LockoutInv'
<1> SUFFICES ASSUME LockoutInv, [LockoutNext]_lockoutVars PROVE LockoutInv'
  OBVIOUS
<1>1. LockoutTypeOK /\ LockoutTypeOK' /\ GuessesBound /\ WindowCounted
  BY LockoutTypeStep DEF LockoutInv
<1>2. (LockoutTypeOK /\ WindowCounted /\ ~locked => GuessesBound)'
  BY BoundFromCount, PTL
<1> USE LockoutAssumption DEF LockoutTypeOK, LoginAt
<1>3. ASSUME WindowCounted', locked' => GuessesBound' PROVE LockoutInv'
  BY <1>1, <1>2, <1>3 DEF LockoutInv
<1>4. CASE LockEnds
  BY <1>1, <1>4, WindowEnds DEF LockEnds
<1>5. ASSUME NEW r \in Logins, FindUser(r) PROVE LockoutInv'
  <2>1. Guessing' = Guessing
    BY <1>1, <1>5 DEF FindUser, Guessing
  <2> QED BY <1>1, <1>3, <1>5, <2>1 DEF FindUser, WindowCounted
<1>6. ASSUME NEW r \in Logins, VerifyPassword(r) PROVE LockoutInv'
  <2>1. Comparing' = Comparing \ {r} /\ r \in Comparing
    BY <1>1, <1>6 DEF VerifyPassword, Comparing
  <2>2. Cardinality(Comparing') = Cardinality(Comparing) - 1
    BY <2>1, LoginsCounted, FS_RemoveElement
  <2>3. \/ guesses' = guesses /\ Guessing' = Guessing
        \/ guesses' = guesses + 1 /\ Guessing' = Guessing \cup {r} /\ r \notin Guessing
    BY <1>1, <1>6 DEF VerifyPassword, Guessing
  <2>4. guesses' - guesses = Cardinality(Guessing') - Cardinality(Guessing)
        /\ guesses' <= guesses + 1
    BY <1>1, <2>3, LoginsCounted, FS_AddElement
  <2>5. Cardinality(Guessing') \in Nat /\ Cardinality(Comparing') \in Nat
    BY FS_Subset, FS_CardinalityType DEF Guessing, Comparing
  <2> QED BY <1>1, <1>3, <1>6, <2>2, <2>4, <2>5, LoginsCounted
             DEF VerifyPassword, WindowCounted, GuessesBound
<1>7. ASSUME NEW r \in Logins, RegisterFailedLogin(r) PROVE LockoutInv'
  <2>1. Guessing' = Guessing \ {r} /\ r \in Guessing /\ Comparing' = Comparing
    BY <1>1, <1>7 DEF RegisterFailedLogin, EndLogin, NoLogin, Guessing, Comparing
  <2>2. Cardinality(Guessing') = Cardinality(Guessing) - 1
    BY <2>1, LoginsCounted, FS_RemoveElement
  <2>3. GuessesBound'
    BY <1>1, <1>7, <2>1 DEF RegisterFailedLogin, GuessesBound
  <2>4. WindowCounted'
    <3> SUFFICES ASSUME ~locked'
                 PROVE  guesses' <= (IF failed' < MaxFailed THEN failed' ELSE 0)
                                      + Cardinality(Guessing') + lost'
      BY DEF WindowCounted
    <3>1. ~locked /\ ~(failed + 1 >= MaxFailed)
      BY <1>7 DEF RegisterFailedLogin
    <3> QED BY <1>1, <1>7, <2>2, <3>1, LoginsCounted DEF RegisterFailedLogin, WindowCounted
  <2> QED BY <1>3, <2>3, <2>4
<1>8. ASSUME NEW r \in Logins, LoginFails(r) PROVE LockoutInv'
  <2>1. Comparing' = Comparing
    BY <1>1, <1>8 DEF LoginFails, EndLogin, NoLogin, Comparing
  <2>2. \/ lost' = lost /\ Guessing' = Guessing
        \/ lost' = lost + 1 /\ Guessing' = Guessing \ {r} /\ r \in Guessing
    BY <1>1, <1>8 DEF LoginFails, EndLogin, NoLogin, Guessing
  <2>3. lost' - lost = Cardinality(Guessing) - Cardinality(Guessing') /\ lost <= lost'
    <3>1. CASE lost' = lost /\ Guessing' = Guessing
      BY <1>1, <3>1, LoginsCounted
    <3>2. CASE lost' = lost + 1 /\ Guessing' = Guessing \ {r} /\ r \in Guessing
      <4>1. Cardinality(Guessing') = Cardinality(Guessing) - 1
        BY <3>2, LoginsCounted, FS_RemoveElement
      <4> QED BY <1>1, <3>2, <4>1, LoginsCounted
    <3> QED BY <2>2, <3>1, <3>2
  <2>4. Cardinality(Guessing') \in Nat
    BY FS_Subset, FS_CardinalityType DEF Guessing
  <2> QED BY <1>1, <1>3, <1>8, <2>1, <2>3, <2>4, LoginsCounted
             DEF LoginFails, WindowCounted, GuessesBound
<1>9. ASSUME NEW r \in Logins, ResetFailedLogins(r) PROVE LockoutInv'
  BY <1>1, <1>9, WindowEnds DEF ResetFailedLogins
<1>10. CASE UNCHANGED lockoutVars
  BY <1>1, <1>10 DEF lockoutVars, LockoutInv, GuessesBound, WindowCounted, Comparing, Guessing
<1> QED
  BY <1>4, <1>5, <1>6, <1>7, <1>8, <1>9, <1>10 DEF LockoutNext

LEMMA LockoutInvariant == LockoutSpec => []LockoutInv
BY LockoutInitInv, LockoutStep, PTL DEF LockoutSpec

\* The count stays within its column, whatever requests fail at its limit.
THEOREM LockoutTypeCorrect == LockoutSpec => []LockoutTypeOK
<1>1. LockoutInv => LockoutTypeOK
  BY DEF LockoutInv
<1> QED BY <1>1, LockoutInvariant, PTL

\* However many logins overlap, they stretch the limit by one guess each.
THEOREM GuessesBounded == LockoutSpec => []GuessesBound
<1>1. LockoutInv => GuessesBound
  BY DEF LockoutInv
<1> QED BY <1>1, LockoutInvariant, PTL

-------------------------------------------------------------------------------
(* The second step: the bound on attempts, and that neither a closed        *)
(* challenge nor a used recovery code admits a late request.                *)

\* A request stays well formed when it moves on, returns or reads the codes.
LEMMA RequestsTyped ==
    ASSUME TypeOK, NEW r \in Requests,
           \/ \E pc \in Pcs : GoTo(r, pc)
           \/ Return(r)
           \/ \E s \in RequestState : req' = [req EXCEPT ![r] = s]
           \/ req' = [req EXCEPT ![r].pc = "comparing", ![r].candidates = unused]
    PROVE  req' \in [Requests -> RequestState]
<1>1. req[r] \in RequestState /\ req \in [Requests -> RequestState]
  BY DEF TypeOK
<1>2. ASSUME NEW pc \in Pcs, GoTo(r, pc)
      PROVE  req' \in [Requests -> RequestState]
  BY <1>1, <1>2 DEF GoTo, RequestState
<1>3. Idle \in RequestState
  BY DEF Idle, RequestState, Pcs
<1>4. ASSUME req' = [req EXCEPT ![r].pc = "comparing", ![r].candidates = unused]
      PROVE  req' \in [Requests -> RequestState]
  <2>1. unused \in SUBSET Codes /\ "comparing" \in Pcs
    BY DEF TypeOK, Pcs
  <2>2. [[req[r] EXCEPT !.pc = "comparing"] EXCEPT !.candidates = unused]
           \in RequestState
    BY <1>1, <2>1 DEF RequestState
  <2> QED BY <1>1, <1>4, <2>2
<1> QED BY <1>1, <1>2, <1>3, <1>4 DEF Return

\* Counting an element up, which changes nothing for one outside the domain.
LEMMA CountUp ==
    ASSUME NEW S, NEW f \in [S -> Nat], NEW e
    PROVE  /\ [f EXCEPT ![e] = @ + 1] \in [S -> Nat]
           /\ \A n \in Nat :
                 f \in [S -> 0 .. n] /\ (e \in S => f[e] < n)
                    => [f EXCEPT ![e] = @ + 1] \in [S -> 0 .. n]
<1>1. CASE e \in S
  BY <1>1
<1>2. CASE e \notin S
  <2>1. [f EXCEPT ![e] = @ + 1] = f
    BY <1>2
  <2> QED BY <2>1
<1> QED BY <1>1, <1>2

LEMMA TypeInit == Init => TypeOK
<1>1. Idle \in RequestState
  BY DEF Idle, RequestState, Pcs
<1> QED BY <1>1, ChallengeAssumption DEF Init, TypeOK

LEMMA TypeStep == TypeOK /\ [Next]_vars => TypeOK'
<1> SUFFICES ASSUME TypeOK, [Next]_vars PROVE TypeOK'
  OBVIOUS
<1> USE DEF At, Deleted, Checked
<1>1. ASSUME NEW c \in Challenges, CreateLoginChallenge(c) \/ Expire(c)
      PROVE  TypeOK'
  BY <1>1 DEF CreateLoginChallenge, Expire, TypeOK
<1>2. CASE UserChanges \/ DeleteRecoveryCodes
  BY <1>2 DEF UserChanges, DeleteRecoveryCodes, TypeOK
<1>3. ASSUME NEW r \in Requests, NEW c \in Challenges,
             NEW via \in {"totp", "recovery"}, NEW code \in Codes \cup {NoCode},
             FindChallenge(r, c, via, code)
      PROVE  TypeOK'
  <2>1. [pc |-> "found", via |-> via, code |-> code, chal |-> c, candidates |-> {}]
           \in RequestState
    BY DEF RequestState, Pcs
  <2>2. req' \in [Requests -> RequestState]
    BY <1>3, <2>1, RequestsTyped DEF FindChallenge
  <2> QED BY <1>3, <2>2 DEF FindChallenge, TypeOK
<1>4. ASSUME NEW r \in Requests, Handle(r) PROVE TypeOK'
  <2>1. req' \in [Requests -> RequestState]
    <3>1. \/ \E pc \in Pcs : GoTo(r, pc)
          \/ Return(r)
          \/ req' = [req EXCEPT ![r].pc = "comparing", ![r].candidates = unused]
      BY <1>4
         DEF Handle, LoadUser, ReserveAttempt, RefuseAttempt, VerifyTotp,
             FindUnusedCodes, MatchCode, MarkCodeUsed, DeleteChallenge,
             IssueSession, StatementFails, Pcs
    <3> QED BY <3>1, RequestsTyped
  <2>2. attempts' \in [Challenges -> 0 .. MaxAttempts]
    <3>1. CASE UNCHANGED attempts
      BY <3>1 DEF TypeOK
    <3>2. CASE /\ MayReserve(req[r].chal)
               /\ attempts' = [attempts EXCEPT ![req[r].chal] = @ + 1]
      <4>1. attempts \in [Challenges -> 0 .. MaxAttempts]
        BY DEF TypeOK
      <4>2. attempts \in [Challenges -> Nat]
        BY <4>1, ChallengeAssumption
      <4>3. attempts[req[r].chal] < MaxAttempts
        BY <3>2 DEF MayReserve
      <4> QED BY <3>2, <4>1, <4>2, <4>3, CountUp, ChallengeAssumption
    <3> QED BY <1>4, <3>1, <3>2
            DEF Handle, LoadUser, ReserveAttempt, RefuseAttempt, VerifyTotp,
                FindUnusedCodes, MatchCode, MarkCodeUsed, DeleteChallenge,
                IssueSession, StatementFails
  <2>3. row' \in [Challenges -> {"none", "active", "expired", "deleted"}]
    BY <1>4
       DEF Handle, LoadUser, ReserveAttempt, RefuseAttempt, VerifyTotp,
           FindUnusedCodes, MatchCode, MarkCodeUsed, DeleteChallenge,
           IssueSession, StatementFails, TypeOK
  <2>4. unused' \subseteq Codes /\ loadable' \in BOOLEAN
    BY <1>4
       DEF Handle, LoadUser, ReserveAttempt, RefuseAttempt, VerifyTotp,
           FindUnusedCodes, MatchCode, MarkCodeUsed, DeleteChallenge,
           IssueSession, StatementFails, TypeOK
  <2>5. /\ checks' \in [Challenges -> Nat]
        /\ sessions' \in [Challenges -> Nat]
        /\ accepted' \in [Codes -> Nat]
    <3>1. CASE VerifyTotp(r)
      BY <3>1, CountUp DEF VerifyTotp, TypeOK
    <3>2. CASE MatchCode(r)
      BY <3>2, CountUp DEF MatchCode, TypeOK
    <3>5. CASE MarkCodeUsed(r)
      <4>1. accepted' \in [Codes -> Nat]
        BY <3>5, CountUp DEF MarkCodeUsed, Accepted, TypeOK
      <4> QED BY <3>5, <4>1 DEF MarkCodeUsed, TypeOK
    <3>3. CASE IssueSession(r)
      <4>1. sessions' \in [Challenges -> Nat]
        BY <3>3, CountUp DEF IssueSession, TypeOK
      <4> QED BY <3>3, <4>1 DEF IssueSession, TypeOK
    <3>4. CASE UNCHANGED <<checks, sessions, accepted>>
      BY <3>4 DEF TypeOK
    <3> QED BY <1>4, <3>1, <3>2, <3>3, <3>4, <3>5
            DEF Handle, LoadUser, ReserveAttempt, RefuseAttempt,
                FindUnusedCodes, DeleteChallenge, StatementFails
  <2> QED BY <2>1, <2>2, <2>3, <2>4, <2>5 DEF TypeOK
<1>5. CASE UNCHANGED vars
  BY <1>5 DEF vars, TypeOK
<1> QED BY <1>1, <1>2, <1>3, <1>4, <1>5 DEF Next

-------------------------------------------------------------------------------
\* Every comparison that was made, and every one a request will still make, has
\* an attempt of its own (a request that fails loses the one it reserved).
AttemptsAccounted ==
    \A c \in Challenges : checks[c] + Cardinality(Reserving(c)) <= attempts[c]

LEMMA ReservingFinite ==
    \A c \in Challenges : /\ IsFiniteSet(Reserving(c))
                          /\ Cardinality(Reserving(c)) \in Nat
BY ChallengeAssumption, FS_Subset, FS_CardinalityType DEF Reserving

LEMMA AccountedInit == Init => AttemptsAccounted
<1> SUFFICES ASSUME Init, NEW c \in Challenges
             PROVE  checks[c] + Cardinality(Reserving(c)) <= attempts[c]
  BY DEF AttemptsAccounted
<1>1. Reserving(c) = {}
  BY DEF Init, Reserving, Idle
<1> QED BY <1>1, FS_EmptySet DEF Init

\* A step in which no request starts or stops holding an attempt.
LEMMA AccountedSame ==
    ASSUME AttemptsAccounted, UNCHANGED <<checks, attempts>>,
           \A c \in Challenges : Reserving(c)' = Reserving(c)
    PROVE  AttemptsAccounted'
BY DEF AttemptsAccounted

\* A step in which requests only stop holding an attempt.
LEMMA AccountedDropped ==
    ASSUME TypeOK, AttemptsAccounted, UNCHANGED <<checks, attempts>>,
           \A c \in Challenges : Reserving(c)' \subseteq Reserving(c)
    PROVE  AttemptsAccounted'
<1> SUFFICES ASSUME NEW c \in Challenges
             PROVE  checks[c] + Cardinality(Reserving(c)') <= attempts[c]
  BY DEF AttemptsAccounted
<1>1. /\ Cardinality(Reserving(c)') <= Cardinality(Reserving(c))
      /\ Cardinality(Reserving(c)') \in Nat /\ Cardinality(Reserving(c)) \in Nat
  BY ReservingFinite, FS_Subset, FS_CardinalityType
<1>2. checks[c] \in Nat /\ attempts[c] \in Nat
  BY ChallengeAssumption DEF TypeOK
<1> QED BY <1>1, <1>2 DEF AttemptsAccounted

\* A step in which request r uses the attempt it holds.
LEMMA AccountedUsed ==
    ASSUME TypeOK, AttemptsAccounted, NEW r \in Requests, NEW d \in Challenges,
           r \in Reserving(d), checks' = [checks EXCEPT ![d] = @ + 1],
           UNCHANGED attempts, Reserving(d)' = Reserving(d) \ {r},
           \A c \in Challenges \ {d} : Reserving(c)' = Reserving(c)
    PROVE  AttemptsAccounted'
<1>1. /\ Cardinality(Reserving(d)') = Cardinality(Reserving(d)) - 1
      /\ Cardinality(Reserving(d)) \in Nat
  BY ReservingFinite, FS_RemoveElement
<1>2. checks'[d] + Cardinality(Reserving(d)') <= attempts'[d]
  BY <1>1 DEF TypeOK, AttemptsAccounted
<1>3. \A c \in Challenges \ {d} :
         checks'[c] + Cardinality(Reserving(c)') <= attempts'[c]
  BY DEF TypeOK, AttemptsAccounted
<1> QED BY <1>2, <1>3 DEF AttemptsAccounted

LEMMA AccountedStep == TypeOK /\ AttemptsAccounted /\ [Next]_vars => AttemptsAccounted'
<1> SUFFICES ASSUME TypeOK, AttemptsAccounted, [Next]_vars
             PROVE  AttemptsAccounted'
  OBVIOUS
<1> USE ChallengeAssumption DEF Pcs, At, GoTo, Return, Idle
<1>1. CASE UserChanges \/ DeleteRecoveryCodes
           \/ \E c \in Challenges : CreateLoginChallenge(c) \/ Expire(c)
  BY <1>1, AccountedSame
     DEF UserChanges, DeleteRecoveryCodes, CreateLoginChallenge, Expire, Reserving
<1>2. ASSUME NEW r \in Requests, NEW c \in Challenges, NEW via, NEW code,
             FindChallenge(r, c, via, code)
      PROVE  AttemptsAccounted'
  BY <1>2, AccountedSame DEF FindChallenge, Reserving, TypeOK, RequestState
<1>3. ASSUME NEW r \in Requests,
             \/ LoadUser(r) \/ RefuseAttempt(r) \/ FindUnusedCodes(r)
             \/ MarkCodeUsed(r) \/ DeleteChallenge(r) \/ IssueSession(r)
      PROVE  AttemptsAccounted'
  <2>1. \A c \in Challenges : Reserving(c)' = Reserving(c)
    BY <1>3 DEF LoadUser, RefuseAttempt, FindUnusedCodes, MarkCodeUsed,
                DeleteChallenge, IssueSession, Reserving, TypeOK, RequestState
  <2>2. UNCHANGED <<checks, attempts>>
    BY <1>3 DEF LoadUser, RefuseAttempt, FindUnusedCodes, MarkCodeUsed,
                DeleteChallenge, IssueSession
  <2> QED BY <2>1, <2>2, AccountedSame
<1>4. ASSUME NEW r \in Requests, ReserveAttempt(r) PROVE AttemptsAccounted'
  <2>1. CASE ~MayReserve(req[r].chal) \/ req[r].chal \notin Challenges
    BY <1>4, <2>1, AccountedSame DEF ReserveAttempt, Reserving, TypeOK, RequestState
  <2>2. ASSUME NEW d \in Challenges, d = req[r].chal, MayReserve(d)
        PROVE  AttemptsAccounted'
    <3>1. Reserving(d)' = Reserving(d) \cup {r} /\ r \notin Reserving(d)
      BY <1>4, <2>2 DEF ReserveAttempt, Reserving, TypeOK, RequestState
    <3>2. \A c \in Challenges \ {d} : Reserving(c)' = Reserving(c)
      BY <1>4, <2>2 DEF ReserveAttempt, Reserving, TypeOK, RequestState
    <3>3. /\ Cardinality(Reserving(d)') = Cardinality(Reserving(d)) + 1
          /\ Cardinality(Reserving(d)) \in Nat
      BY <3>1, ReservingFinite, FS_AddElement
    <3>4. checks' = checks /\ attempts' = [attempts EXCEPT ![d] = @ + 1]
      BY <1>4, <2>2 DEF ReserveAttempt
    <3>5. checks'[d] + Cardinality(Reserving(d)') <= attempts'[d]
      BY <3>3, <3>4 DEF TypeOK, AttemptsAccounted
    <3>6. \A c \in Challenges \ {d} :
             checks'[c] + Cardinality(Reserving(c)') <= attempts'[c]
      BY <3>2, <3>4 DEF TypeOK, AttemptsAccounted
    <3> QED BY <3>5, <3>6 DEF AttemptsAccounted
  <2> QED BY <2>1, <2>2
<1>5. ASSUME NEW r \in Requests, VerifyTotp(r) \/ MatchCode(r)
      PROVE  AttemptsAccounted'
  <2>1. checks' = [checks EXCEPT ![req[r].chal] = @ + 1] /\ UNCHANGED attempts
    BY <1>5 DEF VerifyTotp, MatchCode, Checked
  <2>2. ASSUME NEW d \in Challenges, d = req[r].chal
        PROVE  AttemptsAccounted'
    <3>1. req'[r].pc \notin {"reserved", "comparing"}
      BY <1>5 DEF VerifyTotp, MatchCode, TypeOK, RequestState
    <3>2. \A q \in Requests \ {r} : req'[q] = req[q]
      BY <1>5 DEF VerifyTotp, MatchCode, TypeOK, RequestState
    <3>3. r \in Reserving(d)
      BY <1>5, <2>2 DEF VerifyTotp, MatchCode, Reserving
    <3>4. Reserving(d)' = Reserving(d) \ {r}
      BY <3>1, <3>2 DEF Reserving
    <3>5. \A c \in Challenges \ {d} : Reserving(c)' = Reserving(c)
      BY <2>2, <3>1, <3>2 DEF Reserving
    <3> QED BY <2>1, <2>2, <3>3, <3>4, <3>5, AccountedUsed
  <2>3. CASE req[r].chal \notin Challenges
    <3>1. UNCHANGED checks
      BY <2>1, <2>3 DEF TypeOK, RequestState
    <3>2. \A c \in Challenges : Reserving(c)' = Reserving(c)
      BY <1>5, <2>3 DEF VerifyTotp, MatchCode, Reserving, TypeOK, RequestState
    <3> QED BY <2>1, <3>1, <3>2, AccountedSame
  <2> QED BY <2>2, <2>3
<1>6. ASSUME NEW r \in Requests, StatementFails(r) PROVE AttemptsAccounted'
  <2>1. \A c \in Challenges : Reserving(c)' \subseteq Reserving(c)
    BY <1>6 DEF StatementFails, Reserving, TypeOK, RequestState
  <2> QED BY <1>6, <2>1, AccountedDropped DEF StatementFails
<1>7. CASE UNCHANGED vars
  BY <1>7, AccountedSame DEF vars, Reserving
<1> QED BY <1>1, <1>2, <1>3, <1>4, <1>5, <1>6, <1>7 DEF Next, Handle

LEMMA AccountedAlways == Spec => [](TypeOK /\ AttemptsAccounted)
BY TypeInit, TypeStep, AccountedInit, AccountedStep, PTL DEF Spec

\* Every variable keeps its type; in particular the column attempts never
\* passes MAX_CHALLENGE_ATTEMPTS.
THEOREM ChallengeTypeCorrect == Spec => []TypeOK
BY AccountedAlways, PTL

\* No number of simultaneous requests gets more codes compared on a challenge
\* than MAX_CHALLENGE_ATTEMPTS.
THEOREM AttemptsBounded == Spec => []AttemptsBound
<1>1. TypeOK /\ AttemptsAccounted => AttemptsBound
  <2> SUFFICES ASSUME TypeOK, AttemptsAccounted, NEW c \in Challenges
               PROVE  checks[c] + Cardinality(Reserving(c)) <= MaxAttempts
    BY DEF AttemptsBound
  <2>1. checks[c] + Cardinality(Reserving(c)) \in Nat
    BY ReservingFinite DEF TypeOK
  <2>2. attempts[c] \in 0 .. MaxAttempts
    BY DEF TypeOK
  <2> QED BY <2>1, <2>2, ChallengeAssumption DEF AttemptsAccounted
<1> QED BY <1>1, AccountedAlways, PTL

-------------------------------------------------------------------------------
(* Late comers                                                             *)

\* A counter and a set of requests, of which at least one leaves for each that
\* is counted.
LEMMA SumKept ==
    ASSUME NEW S \in SUBSET Requests, NEW T \in SUBSET S, NEW m \in Nat, NEW n \in Nat,
           \/ n = m
           \/ n = m + 1 /\ \E r \in S : T = S \ {r}
    PROVE  Cardinality(T) + n <= Cardinality(S) + m
<1>1. IsFiniteSet(S)
  BY ChallengeAssumption, FS_Subset
<1>2. /\ Cardinality(S) \in Nat /\ Cardinality(T) \in Nat
      /\ Cardinality(T) <= Cardinality(S)
  BY <1>1, FS_Subset, FS_CardinalityType
<1>3. ASSUME NEW r \in S, T = S \ {r} PROVE Cardinality(T) = Cardinality(S) - 1
  BY <1>1, <1>3, FS_RemoveElement
<1> QED BY <1>2, <1>3

\* What a step does to the requests: one of them moves, or none.
OnlyOneMoves(r) == \A q \in Requests \ {r} : req'[q] = req[q]

LEMMA OneMoves ==
    ASSUME TypeOK, NEW r \in Requests,
           Handle(r) \/ \E c \in Challenges, via \in {"totp", "recovery"},
                           code \in Codes \cup {NoCode} : FindChallenge(r, c, via, code)
    PROVE  OnlyOneMoves(r)
BY DEF OnlyOneMoves, Handle, LoadUser, ReserveAttempt, RefuseAttempt, VerifyTotp,
       FindUnusedCodes, MatchCode, MarkCodeUsed, DeleteChallenge, IssueSession,
       StatementFails, FindChallenge, GoTo, Return, TypeOK

\* A request beyond the first step holds a challenge, and one that will issue a
\* session has deleted it, as others that did before have.
ClosedIsDeleted ==
    /\ \A r \in Requests : ~At(r, "idle") => req[r].chal \in Challenges
    /\ \A r \in Requests : At(r, "closed") => row[req[r].chal] = "deleted"
    /\ \A c \in Challenges : sessions[c] > 0 => row[c] = "deleted"

LEMMA ClosedInit == Init => ClosedIsDeleted
BY DEF Init, ClosedIsDeleted, At, Idle

\* The row of a challenge that is deleted stays so.
LEMMA DeletedForEver ==
    ASSUME TypeOK, [Next]_vars, NEW c \in Challenges, row[c] = "deleted"
    PROVE  row'[c] = "deleted"
BY DEF Next, vars, UserChanges, DeleteRecoveryCodes, CreateLoginChallenge, Expire,
       FindChallenge, Handle, LoadUser, ReserveAttempt, RefuseAttempt, VerifyTotp,
       FindUnusedCodes, MatchCode, MarkCodeUsed, DeleteChallenge, IssueSession,
       StatementFails, Deleted, TypeOK

LEMMA ClosedStep == TypeOK /\ ClosedIsDeleted /\ [Next]_vars => ClosedIsDeleted'
<1> SUFFICES ASSUME TypeOK, ClosedIsDeleted, [Next]_vars PROVE ClosedIsDeleted'
  OBVIOUS
<1> USE DEF At
<1>1. CASE UNCHANGED <<req, sessions>>
  BY <1>1, DeletedForEver DEF ClosedIsDeleted
<1>2. ASSUME NEW r \in Requests, NEW c \in Challenges,
             NEW via \in {"totp", "recovery"}, NEW code \in Codes \cup {NoCode},
             FindChallenge(r, c, via, code)
      PROVE  ClosedIsDeleted'
  BY <1>2 DEF FindChallenge, ClosedIsDeleted, TypeOK
<1>3. ASSUME NEW r \in Requests, Handle(r), ~DeleteChallenge(r), ~IssueSession(r)
      PROVE  ClosedIsDeleted'
  <2>1. sessions' = sessions
    BY <1>3 DEF Handle, LoadUser, ReserveAttempt, RefuseAttempt, VerifyTotp,
                FindUnusedCodes, MatchCode, MarkCodeUsed, StatementFails
  <2>2. /\ req'[r].pc \notin {"idle", "closed"}
             => req'[r].chal = req[r].chal /\ req[r].pc # "idle"
        /\ req'[r].pc # "closed"
    BY <1>3 DEF Handle, LoadUser, ReserveAttempt, RefuseAttempt, VerifyTotp,
                FindUnusedCodes, MatchCode, MarkCodeUsed, StatementFails,
                GoTo, Return, Idle, TypeOK, RequestState
  <2>3. OnlyOneMoves(r)
    BY <1>3, OneMoves
  <2> QED BY <2>1, <2>2, <2>3, DeletedForEver DEF ClosedIsDeleted, OnlyOneMoves
<1>4. ASSUME NEW r \in Requests, DeleteChallenge(r) PROVE ClosedIsDeleted'
  <2>1. /\ req'[r].chal = req[r].chal /\ req[r].chal \in Challenges
        /\ row'[req[r].chal] = "deleted" /\ sessions' = sessions
    BY <1>4 DEF DeleteChallenge, GoTo, Deleted, ClosedIsDeleted, TypeOK, RequestState
  <2>2. OnlyOneMoves(r)
    BY <1>4, OneMoves DEF Handle
  <2> QED BY <2>1, <2>2, DeletedForEver DEF ClosedIsDeleted, OnlyOneMoves
<1>5. ASSUME NEW r \in Requests, IssueSession(r) PROVE ClosedIsDeleted'
  <2>1. /\ row[req[r].chal] = "deleted" /\ req[r].chal \in Challenges
        /\ req'[r].pc = "idle" /\ row' = row
        /\ \A c \in Challenges : sessions'[c] > 0 => sessions[c] > 0 \/ c = req[r].chal
    BY <1>5 DEF IssueSession, Return, Idle, ClosedIsDeleted, TypeOK
  <2>2. OnlyOneMoves(r)
    BY <1>5, OneMoves DEF Handle
  <2> QED BY <2>1, <2>2 DEF ClosedIsDeleted, OnlyOneMoves
<1> QED
  BY <1>1, <1>2, <1>3, <1>4, <1>5
  DEF Next, vars, UserChanges, DeleteRecoveryCodes, CreateLoginChallenge, Expire

\* Nobody is admitted on a challenge that is deleted, and who issues a session on
\* it was.
LEMMA NoneAdmitted ==
    ASSUME TypeOK, ClosedIsDeleted, [Next]_vars,
           NEW c \in Challenges, row[c] = "deleted"
    PROVE  Cardinality(Admitted(c)') + sessions'[c] <= Cardinality(Admitted(c)) + sessions[c]
<1> USE DEF At
<1>0. /\ Admitted(c) \in SUBSET Requests
      /\ sessions[c] \in Nat /\ sessions'[c] \in Nat
  BY TypeStep DEF Admitted, TypeOK
<1>1. CASE UNCHANGED <<req, sessions>>
  <2>1. Admitted(c)' = Admitted(c) /\ sessions'[c] = sessions[c]
    BY <1>1 DEF Admitted
  <2> QED BY <1>0, <2>1, SumKept
<1>2. ASSUME NEW r \in Requests, OnlyOneMoves(r), sessions'[c] = sessions[c],
             r \in Admitted(c)' => r \in Admitted(c)
      PROVE  Cardinality(Admitted(c)') + sessions'[c] <= Cardinality(Admitted(c)) + sessions[c]
  <2>1. Admitted(c)' \in SUBSET Admitted(c)
    BY <1>2 DEF OnlyOneMoves, Admitted
  <2> QED BY <1>0, <1>2, <2>1, SumKept
<1>3. ASSUME NEW r \in Requests, NEW d \in Challenges,
             NEW via \in {"totp", "recovery"}, NEW code \in Codes \cup {NoCode},
             FindChallenge(r, d, via, code)
      PROVE  Cardinality(Admitted(c)') + sessions'[c] <= Cardinality(Admitted(c)) + sessions[c]
  <2>1. OnlyOneMoves(r)
    BY <1>3, OneMoves
  <2>2. sessions' = sessions /\ r \notin Admitted(c)'
    BY <1>3 DEF FindChallenge, Admitted, TypeOK
  <2> QED BY <1>2, <2>1, <2>2
<1>4. ASSUME NEW r \in Requests, Handle(r), ~IssueSession(r)
      PROVE  Cardinality(Admitted(c)') + sessions'[c] <= Cardinality(Admitted(c)) + sessions[c]
  <2>1. OnlyOneMoves(r)
    BY <1>4, OneMoves
  <2>2. sessions' = sessions
    BY <1>4 DEF Handle, LoadUser, ReserveAttempt, RefuseAttempt, VerifyTotp,
                FindUnusedCodes, MatchCode, MarkCodeUsed, DeleteChallenge, StatementFails
  <2>3. r \in Admitted(c)' => r \in Admitted(c)
    BY <1>4 DEF Handle, LoadUser, ReserveAttempt, RefuseAttempt, VerifyTotp,
                FindUnusedCodes, MatchCode, MarkCodeUsed, DeleteChallenge,
                StatementFails, MayReserve, GoTo, Return, Idle, Admitted,
                TypeOK, RequestState
  <2> QED BY <1>2, <2>1, <2>2, <2>3
<1>5. ASSUME NEW r \in Requests, IssueSession(r)
      PROVE  Cardinality(Admitted(c)') + sessions'[c] <= Cardinality(Admitted(c)) + sessions[c]
  <2>1. OnlyOneMoves(r)
    BY <1>5, OneMoves DEF Handle
  <2>2. r \notin Admitted(c)'
    BY <1>5 DEF IssueSession, Return, Idle, Admitted, TypeOK
  <2>3. CASE req[r].chal # c
    BY <1>2, <1>5, <2>1, <2>2, <2>3 DEF IssueSession, TypeOK
  <2>4. CASE req[r].chal = c
    <3>1. sessions'[c] = sessions[c] + 1
      BY <1>5, <2>4 DEF IssueSession, TypeOK
    <3>2. r \in Admitted(c) /\ Admitted(c)' = Admitted(c) \ {r}
      BY <1>5, <2>1, <2>2, <2>4 DEF IssueSession, OnlyOneMoves, Admitted
    <3> QED BY <1>0, <3>1, <3>2, SumKept
  <2> QED BY <2>3, <2>4
<1> QED
  BY <1>1, <1>3, <1>4, <1>5
  DEF Next, vars, UserChanges, DeleteRecoveryCodes, CreateLoginChallenge, Expire

\* Whatever overlaps, a challenge that is deleted or has issued a session admits
\* nobody else: each session comes of a request that was admitted before.
THEOREM NoLateComers == Spec => LateComersRefused
<1>1. TypeOK /\ ClosedIsDeleted /\ [Next]_vars =>
        [\A c \in Challenges :
          row[c] = "deleted" \/ sessions[c] > 0 =>
              Cardinality(Admitted(c)') + sessions'[c]
                  <= Cardinality(Admitted(c)) + sessions[c]]_vars
  BY NoneAdmitted DEF ClosedIsDeleted
<1>2. Spec => []ClosedIsDeleted
  BY AccountedAlways, ClosedInit, ClosedStep, PTL DEF Spec
<1> QED BY <1>1, <1>2, AccountedAlways, PTL DEF Spec, LateComersRefused

-------------------------------------------------------------------------------
(* Recovery codes                                                          *)

\* A code that let somebody in is marked, and was matched with a code read before.
AcceptedIsMarked ==
    /\ \A k \in Codes : accepted[k] > 0 => k \notin unused
    /\ \A r \in Requests : At(r, "matched") => req[r].code \in req[r].candidates

LEMMA MarkedInit == Init => AcceptedIsMarked
BY DEF Init, AcceptedIsMarked, At, Idle

LEMMA MarkedStep == TypeOK /\ AcceptedIsMarked /\ [Next]_vars => AcceptedIsMarked'
<1> SUFFICES ASSUME TypeOK, AcceptedIsMarked, [Next]_vars PROVE AcceptedIsMarked'
  OBVIOUS
<1> USE DEF At
<1>1. CASE UNCHANGED <<req, accepted>>
  <2>1. unused' \subseteq unused
    BY <1>1 DEF Next, vars, UserChanges, DeleteRecoveryCodes, CreateLoginChallenge,
                Expire, FindChallenge, Handle, LoadUser, ReserveAttempt,
                RefuseAttempt, VerifyTotp, FindUnusedCodes, MatchCode,
                MarkCodeUsed, DeleteChallenge, IssueSession, StatementFails, TypeOK
  <2> QED BY <1>1, <2>1 DEF AcceptedIsMarked
<1>2. ASSUME NEW r \in Requests, NEW c \in Challenges,
             NEW via \in {"totp", "recovery"}, NEW code \in Codes \cup {NoCode},
             FindChallenge(r, c, via, code)
      PROVE  AcceptedIsMarked'
  BY <1>2 DEF FindChallenge, AcceptedIsMarked, TypeOK
<1>3. ASSUME NEW r \in Requests, Handle(r), ~MarkCodeUsed(r)
      PROVE  AcceptedIsMarked'
  <2>1. accepted' = accepted /\ unused' = unused
    BY <1>3 DEF Handle, LoadUser, ReserveAttempt, RefuseAttempt, VerifyTotp,
                FindUnusedCodes, MatchCode, DeleteChallenge, IssueSession, StatementFails
  <2>2. req'[r].pc = "matched" => req'[r].code \in req'[r].candidates
    BY <1>3 DEF Handle, LoadUser, ReserveAttempt, RefuseAttempt, VerifyTotp,
                FindUnusedCodes, MatchCode, DeleteChallenge, IssueSession,
                StatementFails, GoTo, Return, Idle, TypeOK, RequestState
  <2>3. OnlyOneMoves(r)
    BY <1>3, OneMoves
  <2> QED BY <2>1, <2>2, <2>3 DEF AcceptedIsMarked, OnlyOneMoves
<1>4. ASSUME NEW r \in Requests, MarkCodeUsed(r) PROVE AcceptedIsMarked'
  <2>1. /\ unused' = unused \ {req[r].code}
        /\ \A k \in Codes : k # req[r].code => accepted'[k] = accepted[k]
        /\ req'[r].pc # "matched"
    BY <1>4 DEF MarkCodeUsed, Accepted, GoTo, TypeOK, RequestState
  <2>2. OnlyOneMoves(r)
    BY <1>4, OneMoves DEF Handle
  <2> QED BY <2>1, <2>2 DEF AcceptedIsMarked, OnlyOneMoves
<1> QED
  BY <1>1, <1>2, <1>3, <1>4
  DEF Next, vars, UserChanges, DeleteRecoveryCodes, CreateLoginChallenge, Expire

\* A code that is marked is accepted by requests that had read it only.
LEMMA NoneAccepting ==
    ASSUME TypeOK, AcceptedIsMarked, [Next]_vars, NEW k \in Codes, k \notin unused
    PROVE  accepted'[k] + Cardinality(Accepting(k)')
              <= accepted[k] + Cardinality(Accepting(k))
<1> USE DEF At
<1>0. /\ Accepting(k) \in SUBSET Requests
      /\ accepted[k] \in Nat /\ accepted'[k] \in Nat
      /\ IsFiniteSet(Accepting(k)) /\ Cardinality(Accepting(k)) \in Nat
  BY TypeStep, ChallengeAssumption, FS_Subset, FS_CardinalityType DEF Accepting, TypeOK
<1>1. ASSUME Accepting(k)' \in SUBSET Accepting(k),
             \/ accepted'[k] = accepted[k]
             \/ /\ accepted'[k] = accepted[k] + 1
                /\ \E r \in Accepting(k) : Accepting(k)' = Accepting(k) \ {r}
      PROVE  accepted'[k] + Cardinality(Accepting(k)')
                <= accepted[k] + Cardinality(Accepting(k))
  <2>1. Cardinality(Accepting(k)') + accepted'[k]
           <= Cardinality(Accepting(k)) + accepted[k]
    BY <1>0, <1>1, SumKept
  <2>2. Cardinality(Accepting(k)') \in Nat
    BY <1>0, <1>1, FS_Subset, FS_CardinalityType
  <2> QED BY <1>0, <2>1, <2>2
<1>2. CASE UNCHANGED <<req, accepted>>
  BY <1>1, <1>2 DEF Accepting
<1>3. ASSUME NEW r \in Requests, NEW d \in Challenges,
             NEW via \in {"totp", "recovery"}, NEW code \in Codes \cup {NoCode},
             FindChallenge(r, d, via, code)
      PROVE  Accepting(k)' \in SUBSET Accepting(k) /\ accepted' = accepted
  <2>1. OnlyOneMoves(r)
    BY <1>3, OneMoves
  <2>2. accepted' = accepted /\ r \notin Accepting(k)'
    BY <1>3 DEF FindChallenge, Accepting, TypeOK
  <2> QED BY <2>1, <2>2 DEF OnlyOneMoves, Accepting
<1>4. ASSUME NEW r \in Requests, Handle(r), ~MarkCodeUsed(r)
      PROVE  Accepting(k)' \in SUBSET Accepting(k) /\ accepted' = accepted
  <2>1. OnlyOneMoves(r)
    BY <1>4, OneMoves
  <2>2. accepted' = accepted
    BY <1>4 DEF Handle, LoadUser, ReserveAttempt, RefuseAttempt, VerifyTotp,
                FindUnusedCodes, MatchCode, DeleteChallenge, IssueSession, StatementFails
  <2>3. r \in Accepting(k)' => r \in Accepting(k)
    BY <1>4 DEF Handle, LoadUser, ReserveAttempt, RefuseAttempt, VerifyTotp,
                FindUnusedCodes, MatchCode, DeleteChallenge, IssueSession,
                StatementFails, GoTo, Return, Idle, Accepting, TypeOK, RequestState
  <2> QED BY <2>1, <2>2, <2>3 DEF OnlyOneMoves, Accepting
<1>5. ASSUME NEW r \in Requests, MarkCodeUsed(r)
      PROVE  accepted'[k] + Cardinality(Accepting(k)')
                <= accepted[k] + Cardinality(Accepting(k))
  <2>1. OnlyOneMoves(r)
    BY <1>5, OneMoves DEF Handle
  <2>2. r \notin Accepting(k)'
    BY <1>5 DEF MarkCodeUsed, GoTo, Accepting, TypeOK, RequestState
  <2>3. Accepting(k)' = Accepting(k) \ {r}
    BY <2>1, <2>2 DEF OnlyOneMoves, Accepting
  <2>4. CASE req[r].code # k
    BY <1>1, <1>5, <2>3, <2>4 DEF MarkCodeUsed, Accepted, TypeOK
  <2>5. CASE req[r].code = k
    <3>1. accepted'[k] = accepted[k] + 1
      BY <1>5, <2>5 DEF MarkCodeUsed, Accepted, TypeOK
    <3>2. r \in Accepting(k)
      BY <1>5, <2>5 DEF MarkCodeUsed, Accepting, AcceptedIsMarked
    <3> QED BY <1>1, <2>3, <3>1, <3>2
  <2> QED BY <2>4, <2>5
<1> QED
  BY <1>1, <1>2, <1>3, <1>4, <1>5
  DEF Next, vars, UserChanges, DeleteRecoveryCodes, CreateLoginChallenge, Expire

\* However many requests bring the same recovery code, once it is used only those
\* that had read it unused before still get in with it.
THEOREM UsedCodesDie == Spec => CodeDeadOnceUsed
<1>1. TypeOK /\ AcceptedIsMarked /\ [Next]_vars =>
        [\A k \in Codes :
          accepted[k] > 0 \/ k \notin unused =>
              accepted'[k] + Cardinality(Accepting(k)')
                  <= accepted[k] + Cardinality(Accepting(k))]_vars
  BY NoneAccepting DEF AcceptedIsMarked
<1>2. Spec => []AcceptedIsMarked
  BY AccountedAlways, MarkedInit, MarkedStep, PTL DEF Spec
<1> QED BY <1>1, <1>2, AccountedAlways, PTL DEF Spec, CodeDeadOnceUsed

===============================================================================
