----------------------------- MODULE LoginLockout -----------------------------
(***************************************************************************)
(* The first login step of one user: LoginService.login over the columns   *)
(* failed_login_attempts and locked_until of auth.users.  Passwords are    *)
(* compared between two statements, so requests that arrive together all   *)
(* see the user unlocked.  What follows the right password is              *)
(* LoginChallenge, or a session at once.                                   *)
(***************************************************************************)
EXTENDS Naturals, FiniteSets

CONSTANTS
    Logins,               \* login requests that are handled at the same time
    MaxFailed,            \* MAX_FAILED_ATTEMPTS
    SmallintMax,          \* the largest value of the column
    MaxLost               \* bound: failures that are not recorded, per window

ASSUME LockoutAssumption ==
    /\ IsFiniteSet(Logins)
    /\ MaxFailed \in Nat \ {0}
    /\ SmallintMax \in Nat /\ MaxFailed < SmallintMax
    /\ MaxLost \in Nat

VARIABLES
    failed,               \* failed_login_attempts
    locked,               \* locked_until is in the future
    login,                \* the requests, with the row they loaded
    guesses,              \* history: wrong passwords compared in this window
    lost                  \* history: those of them that were never recorded

lockoutVars == <<failed, locked, login, guesses, lost>>

NoLogin == [pc |-> "idle", failed |-> 0]

LockoutInit ==
    /\ failed = 0
    /\ locked = FALSE
    /\ login = [r \in Logins |-> NoLogin]
    /\ guesses = 0
    /\ lost = 0

LoginAt(r, pc) == login[r].pc = pc

EndLogin(r) == login' = [login EXCEPT ![r] = NoLogin]

\* A window of guesses ends with the lock, or with a login.
NewWindow == guesses' = 0 /\ lost' = 0

\* findUserByUsername(); a locked or inactive user is refused at once.
FindUser(r) ==
    /\ LoginAt(r, "idle")
    /\ ~locked
    /\ login' = [login EXCEPT ![r] = [pc |-> "loaded", failed |-> failed]]
    /\ UNCHANGED <<failed, locked, guesses, lost>>

\* verifyPassword().
VerifyPassword(r) ==
    /\ LoginAt(r, "loaded")
    /\ \/ /\ login' = [login EXCEPT ![r].pc = "right"]
          /\ UNCHANGED guesses
       \/ /\ login' = [login EXCEPT ![r].pc = "wrong"]
          /\ guesses' = guesses + 1
    /\ UNCHANGED <<failed, locked, lost>>

\* registerFailedLogin(): one UPDATE that counts from the column itself.
RegisterFromRow(r) ==
    /\ LoginAt(r, "wrong")
    /\ failed < SmallintMax
    /\ failed' = login[r].failed + 1
    /\ locked' = (locked \/ login[r].failed + 1 >= MaxFailed)
    /\ EndLogin(r)
    /\ UNCHANGED <<guesses, lost>>

RegisterUnbounded(r) ==
    /\ LoginAt(r, "wrong")
    /\ failed' = failed + 1
    /\ locked' = (locked \/ failed + 1 >= MaxFailed)
    /\ EndLogin(r)
    /\ UNCHANGED <<guesses, lost>>

RegisterFailedLogin(r) ==
    /\ LoginAt(r, "wrong")
    /\ failed < SmallintMax
    /\ failed' = failed + 1
    /\ locked' = (locked \/ failed + 1 >= MaxFailed)
    /\ EndLogin(r)
    /\ UNCHANGED <<guesses, lost>>

\* A statement fails, as the UPDATE always does when the column is at its limit.
LoginFails(r) ==
    /\ login[r].pc \in {"wrong", "right"}
    /\ IF LoginAt(r, "wrong") THEN lost < MaxLost /\ lost' = lost + 1 ELSE UNCHANGED lost
    /\ EndLogin(r)
    /\ UNCHANGED <<failed, locked, guesses>>

\* resetFailedLogins(): it also lifts a lock set since the user was loaded.
ResetFailedLogins(r) ==
    /\ LoginAt(r, "right")
    /\ failed' = 0
    /\ locked' = FALSE
    /\ NewWindow
    /\ EndLogin(r)

\* now() passes locked_until; the count stays, so the next failure locks again.
LockEnds ==
    /\ locked
    /\ locked' = FALSE
    /\ NewWindow
    /\ UNCHANGED <<failed, login>>

LockoutNext ==
    \/ LockEnds
    \/ \E r \in Logins :
         \/ FindUser(r) \/ VerifyPassword(r) \/ RegisterFailedLogin(r)
         \/ LoginFails(r) \/ ResetFailedLogins(r)

LockoutSpec == LockoutInit /\ [][LockoutNext]_lockoutVars

-------------------------------------------------------------------------------
(* Properties                                                              *)

LockoutTypeOK ==
    /\ failed \in 0 .. SmallintMax
    /\ locked \in BOOLEAN
    /\ login \in [Logins -> [pc : {"idle", "loaded", "wrong", "right"},
                             failed : 0 .. SmallintMax]]
    /\ guesses \in Nat
    /\ lost \in 0 .. MaxLost

Comparing == {r \in Logins : LoginAt(r, "loaded")}

\* Between two locks, or two logins, at most MAX_FAILED_ATTEMPTS wrong passwords
\* are compared, and one more for every other request that was already past the
\* lock: those that arrive together cannot stretch the limit any further.
GuessesBound ==
    guesses + Cardinality(Comparing) <= MaxFailed + (Cardinality(Logins) - 1) + lost

===============================================================================
