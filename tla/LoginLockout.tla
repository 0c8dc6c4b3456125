---------------------------- MODULE LoginLockout ----------------------------
(***************************************************************************)
(* The guard in front of a password login (LoginService._authenticate_user)*)
(* for one e-mail address and one client address: a counter of failed      *)
(* logins, the lock it leads to, and a counter of the address's attempts.  *)
(* All three are Redis keys that expire; none of the requests that share   *)
(* them holds anything while it awaits Redis, the database or bcrypt.      *)
(***************************************************************************)
EXTENDS Naturals, FiniteSets

CONSTANTS
    Attackers,      \* requests that may be in progress at the same time
    MaxAttempts,    \* MAX_LOGIN_ATTEMPTS
    IpAttempts,     \* the max_attempts a login passes to check_rate_limit
    LoginFaults     \* bound on failed Redis calls

ASSUME LockoutAssumption ==
    /\ IsFiniteSet(Attackers) /\ Attackers # {}
    /\ MaxAttempts \in Nat \ {0, 1} /\ IpAttempts \in Nat \ {0}
    /\ LoginFaults \in Nat

VARIABLES
    failed,   \* login:failed:<email>; counted up to MaxAttempts, above which nothing depends on it
    locked,   \* login:lockout:<email> exists
    fromIp,   \* rate_limit:login:ip:<address>; counted up to IpAttempts + 1
    mortal,   \* which of the two counters has an expiry
    attempt,  \* where each request is
    guesses,  \* ghost: wrong passwords compared since the counter or the lock last went
    failures  \* Redis calls that failed so far

lockoutVars == <<failed, locked, fromIp, mortal, attempt, guesses, failures>>

Places == {"idle", "ip", "ipExpiry", "verify", "count", "expiry", "lock",
           "clear", "unlock", "clearIp", "logout", "logoutUnlock"}

LockoutTypeOK ==
    /\ failed \in 0..MaxAttempts
    /\ locked \in BOOLEAN
    /\ fromIp \in 0..IpAttempts + 1
    /\ mortal \subseteq {"failed", "fromIp"}
    /\ attempt \in [Attackers -> Places]
    /\ guesses \in Nat
    /\ failures \in 0..LoginFaults

LockoutInit ==
    /\ failed = 0 /\ locked = FALSE /\ fromIp = 0 /\ mortal = {}
    /\ attempt = [a \in Attackers |-> "idle"]
    /\ guesses = 0 /\ failures = 0

Move(a, from, to) == attempt[a] = from /\ attempt' = [attempt EXCEPT ![a] = to]
RedisFails == failures < LoginFaults /\ failures' = failures + 1
UpTo(n, max) == IF n < max THEN n + 1 ELSE max

-----------------------------------------------------------------------------
(* One login, an await at a time.                                          *)

\* _check_account_lockout: a locked account is refused.
CheckLockout(a) ==
    /\ Move(a, "idle", "ip")
    /\ ~locked
    /\ UNCHANGED <<failed, locked, fromIp, mortal, guesses, failures>>

\* An error counts as not locked.
LockoutUnknown(a) ==
    /\ RedisFails
    /\ Move(a, "idle", "ip")
    /\ UNCHANGED <<failed, locked, fromIp, mortal, guesses>>

\* check_rate_limit: INCR, and the expiry of a new counter in a call of its own.
CheckRateLimit(a) ==
    /\ fromIp' = UpTo(fromIp, IpAttempts + 1)
    /\ Move(a, "ip", IF fromIp = 0 THEN "ipExpiry"
                     ELSE IF fromIp < IpAttempts THEN "verify" ELSE "idle")
    /\ UNCHANGED <<failed, locked, mortal, guesses, failures>>

ExpireRateLimit(a) ==
    /\ Move(a, "ipExpiry", "verify")
    /\ mortal' = IF fromIp > 0 THEN mortal \cup {"fromIp"} ELSE mortal
    /\ UNCHANGED <<failed, locked, fromIp, guesses, failures>>

\* Either call fails: the request is allowed.
RateLimitUnknown(a) ==
    /\ RedisFails
    /\ Move(a, "ip", "verify") \/ Move(a, "ipExpiry", "verify")
    /\ UNCHANGED <<failed, locked, fromIp, mortal, guesses>>

\* The user is read and the password compared.
WrongPassword(a) ==
    /\ Move(a, "verify", "count")
    /\ guesses' = guesses + 1
    /\ UNCHANGED <<failed, locked, fromIp, mortal, failures>>

RightPassword(a) ==
    /\ Move(a, "verify", "clear")
    /\ UNCHANGED <<failed, locked, fromIp, mortal, guesses, failures>>

\* Mutant of Increment: the lock comes one failure late.
IncrementLate(a) ==
    /\ failed' = UpTo(failed, MaxAttempts)
    /\ Move(a, "count", IF failed = 0 THEN "expiry"
                        ELSE IF failed >= MaxAttempts THEN "lock" ELSE "idle")
    /\ UNCHANGED <<locked, fromIp, mortal, guesses, failures>>

\* _increment_failed_attempts: INCR, the expiry of a new counter, and from
\* MaxAttempts on the lock.
Increment(a) ==
    /\ failed' = UpTo(failed, MaxAttempts)
    /\ Move(a, "count", IF failed = 0 THEN "expiry"
                        ELSE IF failed + 1 >= MaxAttempts THEN "lock" ELSE "idle")
    /\ UNCHANGED <<locked, fromIp, mortal, guesses, failures>>

ExpireCounter(a) ==
    /\ Move(a, "expiry", "idle")
    /\ mortal' = IF failed > 0 THEN mortal \cup {"failed"} ELSE mortal
    /\ UNCHANGED <<failed, locked, fromIp, guesses, failures>>

SetLock(a) ==
    /\ Move(a, "lock", "idle")
    /\ locked' = TRUE
    /\ UNCHANGED <<failed, fromIp, mortal, guesses, failures>>

\* Any of the three fails: the failure is swallowed, and the login refused all the same.
IncrementFails(a) ==
    /\ RedisFails
    /\ \E p \in {"count", "expiry", "lock"} : Move(a, p, "idle")
    /\ UNCHANGED <<failed, locked, fromIp, mortal, guesses>>

-----------------------------------------------------------------------------
(* A successful login, and every logout, resets the counters.              *)

StartLogout(a) ==
    /\ Move(a, "idle", "logout")
    /\ UNCHANGED <<failed, locked, fromIp, mortal, guesses, failures>>

ClearFailed(a) ==
    /\ Move(a, "clear", "unlock") \/ Move(a, "logout", "logoutUnlock")
    /\ failed' = 0 /\ mortal' = mortal \ {"failed"}
    /\ guesses' = 0
    /\ UNCHANGED <<locked, fromIp, failures>>

Unlock(a) ==
    /\ Move(a, "unlock", "clearIp") \/ Move(a, "logoutUnlock", "idle")
    /\ locked' = FALSE
    /\ guesses' = 0
    /\ UNCHANGED <<failed, fromIp, mortal, failures>>

ResetRateLimit(a) ==
    /\ Move(a, "clearIp", "idle")
    /\ fromIp' = 0 /\ mortal' = mortal \ {"fromIp"}
    /\ UNCHANGED <<failed, locked, guesses, failures>>

\* A failed call ends the reset of the keys of the address, or of the e-mail.
ResetFails(a) ==
    /\ RedisFails
    /\ \/ Move(a, "clear", "clearIp") \/ Move(a, "unlock", "clearIp")
       \/ Move(a, "logout", "idle") \/ Move(a, "logoutUnlock", "idle")
       \/ Move(a, "clearIp", "idle")
    /\ UNCHANGED <<failed, locked, fromIp, mortal, guesses>>

-----------------------------------------------------------------------------
(* The keys' expiries.                                                     *)

\* The counter's window began before the lock it led to: it ends first.
FailedLapses ==
    /\ "failed" \in mortal
    /\ failed' = 0 /\ mortal' = mortal \ {"failed"}
    /\ guesses' = IF locked THEN guesses ELSE 0
    /\ UNCHANGED <<locked, fromIp, attempt, failures>>

LockLapses ==
    /\ locked /\ ~("failed" \in mortal /\ failed = MaxAttempts)
    /\ locked' = FALSE
    /\ guesses' = 0
    /\ UNCHANGED <<failed, fromIp, mortal, attempt, failures>>

RateLimitLapses ==
    /\ "fromIp" \in mortal
    /\ fromIp' = 0 /\ mortal' = mortal \ {"fromIp"}
    /\ UNCHANGED <<failed, locked, attempt, guesses, failures>>

-----------------------------------------------------------------------------
LockoutStep(a) ==
    \/ CheckLockout(a) \/ LockoutUnknown(a)
    \/ CheckRateLimit(a) \/ ExpireRateLimit(a) \/ RateLimitUnknown(a)
    \/ WrongPassword(a) \/ RightPassword(a)
    \/ Increment(a) \/ ExpireCounter(a) \/ SetLock(a) \/ IncrementFails(a)
    \/ StartLogout(a) \/ ClearFailed(a) \/ Unlock(a) \/ ResetRateLimit(a) \/ ResetFails(a)

LockoutNext ==
    \/ \E a \in Attackers : LockoutStep(a)
    \/ FailedLapses \/ LockLapses \/ RateLimitLapses

LockoutSpec == LockoutInit /\ [][LockoutNext]_lockoutVars

\* At most MaxAttempts passwords are compared before the account locks, counting from the last
\* time its counter or its lock went; a request already past the check adds one more, and so
\* does a Redis call that fails.
GuessesBounded == guesses <= MaxAttempts - 1 + Cardinality(Attackers) + failures
=============================================================================
