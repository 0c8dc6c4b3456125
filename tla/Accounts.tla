------------------------------ MODULE Accounts ------------------------------
(***************************************************************************)
(* The account of one e-mail address: registration with a mailed code,     *)
(* sign-in, rotation of refresh tokens, logout and password reset          *)
(* (auth/service and auth/routes; OAuthSignIn has the sign-in with another *)
(* provider).  The users row is in the database; all the rest is keys of   *)
(* Redis that expire, and each call to Redis is a step of its own.         *)
(*                                                                         *)
(* Every code, token or token pair handed out is an entry of `issued'; its *)
(* index stands for the random value.                                      *)
(***************************************************************************)
EXTENDS Naturals, Sequences

CONSTANTS
    Workers,     \* requests the API serves at the same time
    Passwords,
    None,        \* NULL
    MaxIssued,   \* bound on the secrets handed out
    MaxFaults    \* bound on failures

ASSUME AccountsAssumption ==
    /\ None \notin Passwords
    /\ MaxIssued \in Nat /\ MaxFaults \in Nat

VARIABLES
    user,       \* the users row of the address, or NoUser
    pending,    \* pending_registration:{email}: the code and the password with it
    resetCode,  \* password_reset_code:{email}, or 0
    resetTokens,\* the password_reset_token keys
    refresh,    \* the refresh_token:{user} keys: pairs whose refresh token is valid
    deny,       \* the jwt:denylist keys
    issued,     \* every secret handed out
    job,        \* what each worker is doing
    used,       \* ghost: secrets that have had their effect
    root,       \* ghost: of a pair, the pair of the sign-in it was refreshed from
    unrevoked,  \* ghost: refresh tokens used although their key could not be deleted
    lost,       \* ghost: secrets lost to a failure: never stored, or taken and not used
    swept,      \* ghost: <<c, d>>: the request with secret d deleted the key of c, a newer code
    lapsed,     \* ghost: secrets whose key has expired
    closed,     \* ghost: sign-ins there were when a logout began that has been answered
    spared,     \* ghost: those it left alive, Redis having failed it
    faults      \* failures that have happened

codes == <<pending, resetCode, resetTokens, lapsed>>
sessions == <<refresh, deny, closed, spared>>
secrets == <<issued, root>>
ghosts == <<used, unrevoked, lost, swept>>
vars == <<user, codes, sessions, secrets, ghosts, job, faults>>

\* is_active and is_verified are never FALSE: nothing that runs clears them.
NoUser == [exists |-> FALSE, pw |-> None]
NoPending == [code |-> 0, pw |-> None]
\* code: the secret the request presents.  pw: a password it carries or has read.  seen,
\* upto: of a logout, the keys its scan found and the secrets there were when it began.
Idle == [pc |-> "idle", code |-> 0, pw |-> None, seen |-> {}, upto |-> 0]
Kinds == {"otp", "reset", "token", "pair", "rotated"}   \* rotated: a pair handed out by a refresh
Pairs == {"pair", "rotated"}
Steps == {"idle", "store", "resend", "insert", "cleanup", "commit",
          "open", "revoke", "reissue", "deny", "scan", "delete", "spendCode",
          "storeToken", "spendToken", "setPassword", "forgetCode"}
Taken == {"commit", "storeToken", "setPassword"}   \* the key is deleted, the effect to come
Issuing == {"store", "resend", "open", "reissue", "storeToken"}
Ids == 1..Len(issued)

TypeOK ==
    /\ user \in [exists : BOOLEAN, pw : Passwords \cup {None}]
    /\ pending \in [code : 0..Len(issued), pw : Passwords \cup {None}]
    /\ issued \in Seq(Kinds) /\ Len(issued) <= MaxIssued
    /\ resetCode \in 0..Len(issued) /\ (resetCode # 0 => issued[resetCode] = "reset")
    /\ resetTokens \subseteq {i \in Ids : issued[i] = "token"}
    /\ refresh \subseteq {i \in Ids : issued[i] \in Pairs}
    /\ deny \subseteq [part : {"access", "refresh"}, id : Ids]
    /\ job \in [Workers -> [pc : Steps, code : 0..Len(issued),
                            pw : Passwords \cup {None}, seen : SUBSET Ids,
                            upto : 0..Len(issued)]]
    /\ root \in [Ids -> Ids]
    /\ used \subseteq Ids /\ unrevoked \subseteq Ids /\ lost \subseteq Ids
    /\ swept \subseteq Ids \X Ids
    /\ lapsed \subseteq Ids /\ closed \subseteq Ids /\ spared \subseteq Ids
    /\ faults \in 0..MaxFaults

Init ==
    /\ user = NoUser
    /\ pending = NoPending
    /\ resetCode = 0 /\ resetTokens = {}
    /\ refresh = {} /\ deny = {}
    /\ issued = <<>> /\ root = <<>>
    /\ job = [w \in Workers |-> Idle]
    /\ used = {} /\ unrevoked = {} /\ lost = {} /\ swept = {}
    /\ lapsed = {} /\ closed = {} /\ spared = {}
    /\ faults = 0

New == Len(issued) + 1
HandOut(kind, origin) ==
    /\ Len(issued) < MaxIssued
    /\ issued' = Append(issued, kind)
    /\ root' = Append(root, origin)
Issue(kind) == HandOut(kind, New)
\* A secret has its effect; the DEL of key c by the request with secret d finds a newer one.
Use(c) == used' = used \cup {c} /\ UNCHANGED <<unrevoked, lost, swept>>
Sweep(c, d) ==
    /\ swept' = IF c \in {0, d} THEN swept ELSE swept \cup {<<c, d>>}
    /\ UNCHANGED <<used, unrevoked, lost>>
\* create_access_token and its refresh counterpart: a pair with ids of its own.
IssuePair == Issue("pair")

At(w, pc) == job[w].pc = pc
Goto(w, pc) == job' = [job EXCEPT ![w].pc = pc]
Answer(w) == job' = [job EXCEPT ![w] = Idle]
Begin(w, pc, pw) == At(w, "idle") /\ job' = [job EXCEPT ![w] = [Idle EXCEPT !.pc = pc, !.pw = pw]]
Fault == faults < MaxFaults /\ faults' = faults + 1
\* A request takes up secret c, which another one may hold.
Present(w, c, pc, pw) ==
    /\ At(w, "idle")
    /\ job' = [job EXCEPT ![w] = [Idle EXCEPT !.pc = pc, !.code = c, !.pw = pw]]

-----------------------------------------------------------------------------
\* Registration

\* register_user looks for a user and a pending registration, then stores and mails.
Register(w, p) ==
    /\ user = NoUser /\ pending = NoPending
    /\ Begin(w, "store", p)
    /\ UNCHANGED <<user, codes, sessions, secrets, ghosts, faults>>
StoreUserCredentials(w) ==
    /\ At(w, "store") \/ At(w, "resend")
    /\ Issue("otp")
    /\ pending' = [code |-> New, pw |-> job[w].pw]
    /\ Answer(w)
    /\ UNCHANGED <<user, resetCode, resetTokens, lapsed, sessions, ghosts, faults>>
\* resend_otp stores the credentials it has read again, with a new code.
ResendOtp(w) ==
    /\ user = NoUser /\ pending # NoPending
    /\ Begin(w, "resend", pending.pw)
    /\ UNCHANGED <<user, codes, sessions, secrets, ghosts, faults>>

\* verify_and_get_credentials
VerifyOtp(w) ==
    /\ pending # NoPending
    /\ Present(w, pending.code, "insert", pending.pw)
    /\ UNCHANGED <<user, codes, sessions, secrets, ghosts, faults>>
\* create_user: an insert waits for another uncommitted one of the same address, ...
InsertFree == \A v \in Workers : job[v].pc \notin {"cleanup", "commit"}
InsertUser(w) ==
    /\ At(w, "insert")
    /\ InsertFree /\ user = NoUser
    /\ Goto(w, "cleanup")
    /\ UNCHANGED <<user, codes, sessions, secrets, ghosts, faults>>
\* ... and fails on one that is committed: the registration stays pending.
InsertConflicts(w) ==
    /\ At(w, "insert")
    /\ user # NoUser
    /\ Answer(w)
    /\ UNCHANGED <<user, codes, sessions, secrets, ghosts, faults>>
\* delete_user_credentials, whatever is stored by now, ...
DeleteUserCredentials(w) ==
    /\ At(w, "cleanup")
    /\ Sweep(pending.code, job[w].code)
    /\ pending' = NoPending
    /\ Goto(w, "commit")
    /\ UNCHANGED <<user, resetCode, resetTokens, lapsed, sessions, secrets, faults>>
\* ... and only then the commit.
CommitUser(w) ==
    /\ At(w, "commit")
    /\ user' = [exists |-> TRUE, pw |-> job[w].pw]
    /\ Use(job[w].code)
    /\ Answer(w)
    /\ UNCHANGED <<codes, sessions, secrets, faults>>

-----------------------------------------------------------------------------
\* Login

\* The first sign-in with Google of an address nobody registered: a user without a password.
SignInWithGoogle ==
    /\ user = NoUser /\ InsertFree
    /\ user' = [NoUser EXCEPT !.exists = TRUE]
    /\ UNCHANGED <<codes, sessions, secrets, job, ghosts, faults>>
\* _authenticate_user with the right password (the wrong one is refused, and counted:
\* LoginLockout), or Google's word.
Login(w) ==
    /\ user.exists
    /\ Begin(w, "open", None)
    /\ UNCHANGED <<user, codes, sessions, secrets, ghosts, faults>>
\* _store_refresh_token and the answer.
OpenSession(w) ==
    /\ At(w, "open")
    /\ IssuePair
    /\ refresh' = refresh \cup {New}
    /\ Answer(w)
    /\ UNCHANGED <<user, codes, deny, closed, spared, ghosts, faults>>

-----------------------------------------------------------------------------
\* Refresh and logout

\* _verify_refresh_token
Refresh(w, i) ==
    /\ i \in refresh
    /\ Present(w, i, "revoke", None)
    /\ UNCHANGED <<user, codes, sessions, secrets, ghosts, faults>>
\* _revoke_refresh_token, add_token_to_denylist
RevokeRefreshToken(w) ==
    /\ At(w, "revoke")
    /\ refresh' = refresh \ {job[w].code}
    /\ deny' = deny \cup {[part |-> "refresh", id |-> job[w].code]}
    /\ Goto(w, "reissue")
    /\ UNCHANGED <<user, codes, closed, spared, secrets, ghosts, faults>>

\* Mutant of Reissue: the key is the new token's own, and nobody looks for a logout in between.
ReissueStored(w) ==
    /\ At(w, "reissue")
    /\ HandOut("rotated", root[job[w].code])
    /\ Use(job[w].code)
    /\ refresh' = refresh \cup {New}
    /\ Answer(w)
    /\ UNCHANGED <<user, codes, deny, closed, spared, faults>>

\* The new pair; the key stored with it carries another random id, which no token has.
Reissue(w) ==
    /\ At(w, "reissue")
    /\ HandOut("rotated", root[job[w].code])
    /\ Use(job[w].code)
    /\ Answer(w)
    /\ UNCHANGED <<user, codes, sessions, faults>>

\* logout, by a request that get_current_user lets in: deny its token, scan, delete.
Logout(w, i) ==
    /\ At(w, "idle")
    /\ issued[i] \in Pairs /\ [part |-> "access", id |-> i] \notin deny
    /\ job' = [job EXCEPT ![w] = [Idle EXCEPT !.pc = "deny", !.seen = {i}, !.upto = Len(issued)]]
    /\ UNCHANGED <<user, codes, sessions, secrets, ghosts, faults>>
DenyToken(w) ==
    /\ At(w, "deny")
    /\ deny' = deny \cup {[part |-> "access", id |-> i] : i \in job[w].seen}
    /\ Goto(w, "scan")
    /\ UNCHANGED <<user, codes, refresh, closed, spared, secrets, ghosts, faults>>

\* _invalidate_user_refresh_tokens: SCAN, then DEL of what it found.
ScanSessions(w) ==
    /\ At(w, "scan")
    /\ job' = [job EXCEPT ![w].pc = "delete", ![w].seen = refresh]
    /\ UNCHANGED <<user, codes, sessions, secrets, ghosts, faults>>
Before(w) == {root[i] : i \in {j \in 1..job[w].upto : issued[j] \in Pairs}}
DeleteSessions(w) ==
    /\ At(w, "delete")
    /\ refresh' = refresh \ job[w].seen
    /\ closed' = closed \cup Before(w)
    /\ spared' = spared \ Before(w)
    /\ Answer(w)
    /\ UNCHANGED <<user, codes, deny, secrets, ghosts, faults>>

-----------------------------------------------------------------------------
\* Password reset: code, token, new password

\* store_reset_code: a newer code replaces the one before.
StoreResetCode == Issue("reset") /\ resetCode' = New
\* request_password_reset; its hourly limit lies beyond MaxIssued.
RequestPasswordReset ==
    /\ user # NoUser
    /\ StoreResetCode
    /\ UNCHANGED <<user, pending, resetTokens, lapsed, sessions, job, ghosts, faults>>

\* verify_reset_code_redis: GET, then DEL of the key, even if it holds a newer code by now.
VerifyResetCode(w) ==
    /\ resetCode # 0
    /\ Present(w, resetCode, "spendCode", None)
    /\ UNCHANGED <<user, codes, sessions, secrets, ghosts, faults>>
SpendCode(w) ==
    /\ At(w, "spendCode")
    /\ Sweep(resetCode, job[w].code)
    /\ resetCode' = 0
    /\ Goto(w, "storeToken")
    /\ UNCHANGED <<user, pending, resetTokens, lapsed, sessions, secrets, faults>>
StoreResetToken(w) ==
    /\ At(w, "storeToken")
    /\ Issue("token")
    /\ Use(job[w].code)
    /\ resetTokens' = resetTokens \cup {New}
    /\ Answer(w)
    /\ UNCHANGED <<user, pending, resetCode, lapsed, sessions, faults>>

\* Mutant of ResetPassword: the token is spent before the password is looked at.
ResetPasswordSpending(w, t, p) ==
    /\ t \in resetTokens
    /\ IF p = user.pw
       THEN /\ resetTokens' = resetTokens \ {t}
            /\ UNCHANGED job
       ELSE Present(w, t, "spendToken", p) /\ UNCHANGED resetTokens
    /\ UNCHANGED <<user, pending, resetCode, lapsed, sessions, secrets, ghosts, faults>>

\* reset_password: the old password is refused before the token is spent, ...
ResetPassword(w, t, p) ==
    /\ t \in resetTokens /\ p # user.pw
    /\ Present(w, t, "spendToken", p)
    /\ UNCHANGED <<user, codes, sessions, secrets, ghosts, faults>>

\* Mutant of SpendToken: the token stays.
SpendNothing(w) ==
    /\ At(w, "spendToken")
    /\ Goto(w, "setPassword")
    /\ UNCHANGED <<user, codes, sessions, secrets, ghosts, faults>>

\* ... the token is spent before the commit ...
SpendToken(w) ==
    /\ At(w, "spendToken")
    /\ resetTokens' = resetTokens \ {job[w].code}
    /\ Goto(w, "setPassword")
    /\ UNCHANGED <<user, pending, resetCode, lapsed, sessions, secrets, ghosts, faults>>
SetPassword(w) ==
    /\ At(w, "setPassword")
    /\ user' = [user EXCEPT !.pw = job[w].pw]
    /\ Use(job[w].code)
    /\ Goto(w, "forgetCode")
    /\ UNCHANGED <<codes, sessions, secrets, faults>>
\* ... and a code requested meanwhile is deleted after it.
DeleteResetCode(w) ==
    /\ At(w, "forgetCode")
    /\ Sweep(resetCode, job[w].code)
    /\ resetCode' = 0
    /\ Answer(w)
    /\ UNCHANGED <<user, pending, resetTokens, lapsed, sessions, secrets, faults>>

-----------------------------------------------------------------------------
\* Keys expire

RegistrationLapses ==
    /\ pending # NoPending
    /\ lapsed' = lapsed \cup {pending.code}
    /\ pending' = NoPending
    /\ UNCHANGED <<user, resetCode, resetTokens, sessions, secrets, job, ghosts, faults>>
CodeLapses ==
    /\ resetCode # 0
    /\ lapsed' = lapsed \cup {resetCode}
    /\ resetCode' = 0
    /\ UNCHANGED <<user, pending, resetTokens, sessions, secrets, job, ghosts, faults>>
TokenLapses(t) ==
    /\ lapsed' = lapsed \cup {t}
    /\ resetTokens' = resetTokens \ {t}
    /\ UNCHANGED <<user, pending, resetCode, sessions, secrets, job, ghosts, faults>>
SessionLapses(i) ==
    /\ refresh' = refresh \ {i}
    /\ UNCHANGED <<user, codes, deny, closed, spared, secrets, job, ghosts, faults>>

-----------------------------------------------------------------------------
\* Failures: most errors of Redis are logged, and the request goes on.

SessionUnstored(w) ==
    /\ At(w, "open") /\ Fault
    /\ IssuePair
    /\ Answer(w)
    /\ UNCHANGED <<user, codes, sessions, ghosts>>
\* Of a refresh, the DEL of the old key fails, or only the entry in the denylist ...
RevokeLost(w) ==
    /\ At(w, "revoke") /\ Fault
    /\ \/ unrevoked' = unrevoked \cup {job[w].code} /\ UNCHANGED refresh
       \/ refresh' = refresh \ {job[w].code} /\ UNCHANGED unrevoked
    /\ Goto(w, "reissue")
    /\ UNCHANGED <<user, codes, deny, closed, spared, secrets, used, lost, swept>>
\* ... and of a logout the entry, or the SCAN or the DEL: it is answered with success.
DenyLost(w) ==
    /\ At(w, "deny") /\ Fault
    /\ Goto(w, "scan")
    /\ UNCHANGED <<user, codes, sessions, secrets, ghosts>>
InvalidateLost(w) ==
    /\ At(w, "scan") \/ At(w, "delete")
    /\ Fault
    /\ closed' = closed \cup Before(w)
    /\ spared' = spared \cup {root[i] : i \in refresh \cap (1..job[w].upto)}
    /\ Answer(w)
    /\ UNCHANGED <<user, codes, refresh, deny, secrets, ghosts>>
\* The code is mailed all the same, and the token handed out.
CodeUnstored ==
    /\ user # NoUser /\ Fault
    /\ Issue("reset")
    /\ lost' = lost \cup {New}
    /\ UNCHANGED <<user, codes, sessions, job, used, unrevoked, swept>>
TokenUnstored(w) ==
    /\ At(w, "storeToken") /\ Fault
    /\ Issue("token")
    /\ used' = used \cup {job[w].code}
    /\ lost' = lost \cup {New}
    /\ Answer(w)
    /\ UNCHANGED <<user, codes, sessions, unrevoked, swept>>
\* An exception, or the process dies: also at a request that would hand out more secrets than
\* the bound.
Fails(w) ==
    /\ ~At(w, "idle")
    /\ \/ Fault
       \/ job[w].pc \in Issuing /\ Len(issued) = MaxIssued /\ faults' = faults
    /\ lost' = IF job[w].pc \in Taken THEN lost \cup {job[w].code} ELSE lost
    /\ Answer(w)
    /\ UNCHANGED <<user, codes, sessions, secrets, used, unrevoked, swept>>

-----------------------------------------------------------------------------
\* One definition per endpoint.  StoreUserCredentials serves the first and the third.
CompanySignup(w) == \E p \in Passwords : Register(w, p)
RequestNewOtp(w) == ResendOtp(w) \/ StoreUserCredentials(w)
VerifyOtpRoute(w) ==
    \/ VerifyOtp(w) \/ InsertUser(w) \/ InsertConflicts(w)
    \/ DeleteUserCredentials(w) \/ CommitUser(w)
LoginRoute(w) == Login(w) \/ OpenSession(w)
RefreshRoute(w) ==
    \/ \E i \in Ids : Refresh(w, i)
    \/ RevokeRefreshToken(w) \/ Reissue(w)
LogoutRoute(w) ==
    \/ \E i \in Ids : Logout(w, i)
    \/ DenyToken(w) \/ ScanSessions(w) \/ DeleteSessions(w)
VerifyCodeRoute(w) == VerifyResetCode(w) \/ SpendCode(w) \/ StoreResetToken(w)
ConfirmReset(w) ==
    \/ \E t \in Ids, p \in Passwords : ResetPassword(w, t, p)
    \/ SpendToken(w) \/ SetPassword(w) \/ DeleteResetCode(w)
Lapses ==
    \/ RegistrationLapses \/ CodeLapses
    \/ \E t \in resetTokens : TokenLapses(t)
    \/ \E i \in refresh : SessionLapses(i)
Failures(w) ==
    \/ SessionUnstored(w) \/ RevokeLost(w) \/ DenyLost(w) \/ InvalidateLost(w)
    \/ TokenUnstored(w) \/ Fails(w)

Next ==
    \/ \E w \in Workers :
           \/ CompanySignup(w) \/ RequestNewOtp(w) \/ VerifyOtpRoute(w)
           \/ LoginRoute(w) \/ RefreshRoute(w) \/ LogoutRoute(w)
           \/ VerifyCodeRoute(w) \/ ConfirmReset(w)
           \/ Failures(w)
    \/ SignInWithGoogle \/ RequestPasswordReset \/ CodeUnstored \/ Lapses

Spec == Init /\ [][Next]_vars

-----------------------------------------------------------------------------
\* Properties

Stored(c) == c \in {pending.code, resetCode} \cup resetTokens
\* A mailed code, a reset token and a refresh token each work once, though all are read and
\* deleted in two calls: when one has had its effect no request can take it up any more, only
\* one that took it up before can still use it.  Left out are refreshes that went on when
\* Redis had failed to delete the key.
OneTimeUse == \A c \in used \ unrevoked : ~Stored(c) /\ c \notin refresh

Replaced(c) == issued[c] \in {"otp", "reset"} /\ \E d \in Ids : d > c /\ issued[d] = issued[c]
\* c has had its effect, or a request that has deleted its key is about to give it, or a
\* failure came between.
Spent(c) == c \in used \cup lost \/ \E w \in Workers : job[w].pc \in Taken /\ job[w].code = c
\* No mailed code and no reset token goes for nothing: it is there until it expires or a newer
\* one replaces it, or it is spent.  The key of the code has one name for every code, so that
\* a request may delete a newer one than its own; then its own is spent.
NothingSpentInVain ==
    \A c \in {d \in Ids : issued[d] \notin Pairs} :
        \/ Stored(c) \/ Replaced(c) \/ c \in lapsed
        \/ Spent(c) \/ \E d \in Ids : <<c, d>> \in swept /\ Spent(d)

\* After a logout none of the sign-ins there were when it began can be refreshed: not with
\* the refresh token of then and not with one that an overlapping refresh has handed out.
\* Sign-ins that a logout left because Redis failed it are named.
LogoutEndsSessions == \A i \in refresh : root[i] \in closed => root[i] \in spared

\* Token rotation: a refresh hands out a refresh token that can be used in its turn.
RefreshedTokenIsStored ==
    \A i \in Ids : issued[i] = "rotated" =>
        i \in refresh \cup used \/ root[i] \in closed \/ faults > 0

=============================================================================
