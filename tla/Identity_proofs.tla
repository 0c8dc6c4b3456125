-------------------------- MODULE Identity_proofs ---------------------------
(***************************************************************************)
(* Proofs about the parts of Identity: LoginLockout, OAuthSignIn and       *)
(* Accounts, each for its own specification; at the end, that a behaviour  *)
(* of Identity is one of each part.                                        *)
(***************************************************************************)
EXTENDS Identity, SequenceTheorems, FiniteSetTheorems, TLAPS

-----------------------------------------------------------------------------
(***************************************************************************)
(* LoginLockout. The guesses made are weighed against the failures counted *)
(* and the requests that may still guess; the weighing needs how many      *)
(* requests are at which place.                                            *)
(***************************************************************************)

\* How many requests are at one of these places.
RequestsAt(S) == Cardinality({a \in Attackers : attempt[a] \in S})
\* Past the check of the lock, the password not compared yet; wrong, and not yet what it leads to.
BeforeGuess == RequestsAt({"ip", "ipExpiry", "verify"})
AfterGuess == RequestsAt({"count", "lock"})

\* While no lock is up, each guess has been counted, is about to be counted or to lock, or was
\* lost to a failure; once one is, the requests past its check are all that can still guess.
LockoutInv ==
    /\ LockoutTypeOK
    /\ ~locked => guesses <= (IF failed < MaxAttempts THEN failed ELSE MaxAttempts - 1)
                                + AfterGuess + failures
    /\ locked => guesses + BeforeGuess <= MaxAttempts - 1 + Cardinality(Attackers) + failures

\* A request that moves leaves one place and arrives at another.
LEMMA OneMoves ==
    ASSUME LockoutTypeOK, NEW a \in Attackers, NEW from \in Places, NEW to \in Places,
           Move(a, from, to), NEW S
    PROVE  RequestsAt(S)' = RequestsAt(S) + (IF to \in S THEN 1 ELSE 0) - (IF from \in S THEN 1 ELSE 0)
<1> DEFINE in == {b \in Attackers : attempt[b] \in S}
<1> DEFINE next == {b \in Attackers : attempt'[b] \in S}
<1>1. /\ attempt \in [Attackers -> Places] /\ attempt[a] = from
      /\ attempt' = [attempt EXCEPT ![a] = to]
  BY DEF LockoutTypeOK, Move
<1>2. /\ attempt'[a] = to
      /\ \A b \in Attackers : b # a => attempt'[b] = attempt[b]
  BY <1>1
<1>3. IsFiniteSet(in) /\ Cardinality(in) \in Nat
  BY FS_Subset, FS_CardinalityType, LockoutAssumption
<1>4. RequestsAt(S) = Cardinality(in) /\ RequestsAt(S)' = Cardinality(next)
  BY DEF RequestsAt
<1>5. from \in S /\ to \in S => next = in
  BY <1>1, <1>2
<1>6. from \notin S /\ to \notin S => next = in
  BY <1>1, <1>2
<1>7. from \notin S /\ to \in S => next = in \cup {a} /\ a \notin in
  BY <1>1, <1>2
<1>8. from \in S /\ to \notin S => next = in \ {a} /\ a \in in
  BY <1>1, <1>2
<1> HIDE DEF in, next
<1>9. from \notin S /\ to \in S => Cardinality(next) = Cardinality(in) + 1
  BY <1>3, <1>7, FS_AddElement
<1>10. from \in S /\ to \notin S => Cardinality(next) = Cardinality(in) - 1
  BY <1>3, <1>8, FS_RemoveElement
<1> QED
  BY <1>3, <1>4, <1>5, <1>6, <1>9, <1>10

\* No request is in two places, so the two counts are of different requests.
LEMMA CountsBounded ==
    ASSUME NEW f \in [Attackers -> Places]
    PROVE  LET before == Cardinality({b \in Attackers : f[b] \in {"ip", "ipExpiry", "verify"}})
               after == Cardinality({b \in Attackers : f[b] \in {"count", "lock"}})
           IN  /\ Cardinality(Attackers) \in Nat /\ before \in Nat /\ after \in Nat
               /\ before + after <= Cardinality(Attackers)
<1> DEFINE after == {b \in Attackers : f[b] \in {"count", "lock"}}
<1> DEFINE before == {b \in Attackers : f[b] \in {"ip", "ipExpiry", "verify"}}
<1>1. /\ after \in SUBSET Attackers /\ before \in SUBSET Attackers
      /\ after \cap before = {} /\ after \cup before \in SUBSET Attackers
  OBVIOUS
<1> HIDE DEF after, before
<1>2. \A T \in SUBSET Attackers : /\ IsFiniteSet(T) /\ Cardinality(T) \in Nat
                                  /\ Cardinality(T) <= Cardinality(Attackers)
  BY FS_Subset, FS_CardinalityType, LockoutAssumption
<1>3. Cardinality(after \cup before)
        = Cardinality(after) + Cardinality(before) - Cardinality(after \cap before)
  BY <1>1, <1>2, FS_Union
<1>4. Cardinality(after \cap before) = 0
  BY <1>1, FS_EmptySet
<1>5. Cardinality(before) + Cardinality(after) <= Cardinality(Attackers)
  BY <1>1, <1>2, <1>3, <1>4
<1>6. Cardinality(Attackers) \in Nat
  BY <1>2
<1>7. Cardinality(before) \in Nat /\ Cardinality(after) \in Nat
  BY <1>1, <1>2
<1> QED
  BY <1>5, <1>6, <1>7 DEF after, before

LEMMA AtMostAll ==
    ASSUME LockoutTypeOK
    PROVE  /\ Cardinality(Attackers) \in Nat /\ BeforeGuess \in Nat /\ AfterGuess \in Nat
           /\ BeforeGuess + AfterGuess <= Cardinality(Attackers)
<1>1. attempt \in [Attackers -> Places]
  BY DEF LockoutTypeOK
<1> QED
  BY <1>1, CountsBounded DEF RequestsAt, BeforeGuess, AfterGuess

\* How a move changes the two counts.
LEMMA CountsMove ==
    ASSUME LockoutTypeOK, LockoutTypeOK', NEW a \in Attackers, NEW from \in Places,
           NEW to \in Places, Move(a, from, to)
    PROVE  /\ BeforeGuess' = BeforeGuess + (IF to \in {"ip", "ipExpiry", "verify"} THEN 1 ELSE 0)
                                         - (IF from \in {"ip", "ipExpiry", "verify"} THEN 1 ELSE 0)
           /\ AfterGuess' = AfterGuess + (IF to \in {"count", "lock"} THEN 1 ELSE 0)
                                       - (IF from \in {"count", "lock"} THEN 1 ELSE 0)
           /\ BeforeGuess \in Nat /\ AfterGuess \in Nat /\ BeforeGuess' \in Nat /\ AfterGuess' \in Nat
           /\ BeforeGuess + AfterGuess <= Cardinality(Attackers)
           /\ BeforeGuess' + AfterGuess' <= Cardinality(Attackers)
           /\ Cardinality(Attackers) \in Nat
<1>1. attempt' \in [Attackers -> Places]
  BY DEF LockoutTypeOK
<1>2. /\ BeforeGuess' \in Nat /\ AfterGuess' \in Nat
      /\ BeforeGuess' + AfterGuess' <= Cardinality(Attackers)
  BY <1>1, CountsBounded DEF RequestsAt, BeforeGuess, AfterGuess
<1>3. \A S : RequestsAt(S)' = RequestsAt(S) + (IF to \in S THEN 1 ELSE 0) - (IF from \in S THEN 1 ELSE 0)
  BY OneMoves
<1> QED
  BY <1>2, <1>3, AtMostAll DEF BeforeGuess, AfterGuess

LEMMA LockoutTypesStep == LockoutTypeOK /\ [LockoutNext]_lockoutVars => LockoutTypeOK'
<1> SUFFICES ASSUME LockoutTypeOK, [LockoutNext]_lockoutVars PROVE LockoutTypeOK'
  OBVIOUS
<1> USE LockoutAssumption DEF LockoutTypeOK, Places, Move, RedisFails, UpTo
<1>1. ASSUME NEW a \in Attackers, LockoutStep(a) PROVE LockoutTypeOK'
  <2>1. CASE CheckLockout(a)
    BY <2>1 DEF CheckLockout
  <2>2. CASE LockoutUnknown(a)
    BY <2>2 DEF LockoutUnknown
  <2>3. CASE CheckRateLimit(a)
    BY <2>3 DEF CheckRateLimit
  <2>4. CASE ExpireRateLimit(a)
    BY <2>4 DEF ExpireRateLimit
  <2>5. CASE RateLimitUnknown(a)
    BY <2>5 DEF RateLimitUnknown
  <2>6. CASE WrongPassword(a)
    BY <2>6 DEF WrongPassword
  <2>7. CASE RightPassword(a)
    BY <2>7 DEF RightPassword
  <2>8. CASE Increment(a)
    BY <2>8 DEF Increment
  <2>9. CASE ExpireCounter(a)
    BY <2>9 DEF ExpireCounter
  <2>10. CASE SetLock(a)
    BY <2>10 DEF SetLock
  <2>11. CASE IncrementFails(a)
    BY <2>11 DEF IncrementFails
  <2>12. CASE StartLogout(a)
    BY <2>12 DEF StartLogout
  <2>13. CASE ClearFailed(a)
    BY <2>13 DEF ClearFailed
  <2>14. CASE Unlock(a)
    BY <2>14 DEF Unlock
  <2>15. CASE ResetRateLimit(a)
    BY <2>15 DEF ResetRateLimit
  <2>16. CASE ResetFails(a)
    BY <2>16 DEF ResetFails
  <2> QED
    BY <1>1, <2>1, <2>2, <2>3, <2>4, <2>5, <2>6, <2>7, <2>8, <2>9, <2>10, <2>11, <2>12, <2>13, <2>14, <2>15, <2>16 DEF LockoutStep
<1>2. CASE FailedLapses
  BY <1>2 DEF FailedLapses
<1>3. CASE LockLapses
  BY <1>3 DEF LockLapses
<1>4. CASE RateLimitLapses
  BY <1>4 DEF RateLimitLapses
<1>5. CASE UNCHANGED lockoutVars
  BY <1>5 DEF lockoutVars
<1> QED
  BY <1>1, <1>2, <1>3, <1>4, <1>5 DEF LockoutNext

LEMMA LockoutInvStep == LockoutInv /\ [LockoutNext]_lockoutVars => LockoutInv'
<1> SUFFICES ASSUME LockoutInv, [LockoutNext]_lockoutVars PROVE LockoutInv'
  OBVIOUS
<1>0. LockoutTypeOK /\ LockoutTypeOK'
  BY LockoutTypesStep DEF LockoutInv
<1>t. /\ failed \in 0..MaxAttempts /\ failed' \in 0..MaxAttempts /\ MaxAttempts \in Nat /\ MaxAttempts > 1
      /\ guesses \in Nat /\ guesses' \in Nat /\ failures \in Nat /\ failures' \in Nat
      /\ locked \in BOOLEAN /\ locked' \in BOOLEAN
  BY <1>0, LockoutAssumption DEF LockoutTypeOK
<1>1. ASSUME NEW a \in Attackers, LockoutStep(a) PROVE LockoutInv'
  <2> USE <1>0, <1>t, CountsMove DEF LockoutInv
  <2>1. CASE CheckLockout(a)
    BY <2>1 DEF CheckLockout, Places
  <2>2. CASE LockoutUnknown(a)
    BY <2>2 DEF LockoutUnknown, RedisFails, Places
  <2>3. CASE CheckRateLimit(a)
    <3>1. PICK to \in {"ipExpiry", "verify", "idle"} : Move(a, "ip", to)
      BY <2>3 DEF CheckRateLimit
    <3> QED
      BY <2>3, <3>1 DEF CheckRateLimit, Places
  <2>4. CASE ExpireRateLimit(a)
    BY <2>4 DEF ExpireRateLimit, Places
  <2>5. CASE RateLimitUnknown(a)
    <3>1. PICK from \in {"ip", "ipExpiry"} : Move(a, from, "verify")
      BY <2>5 DEF RateLimitUnknown
    <3> QED
      BY <2>5, <3>1 DEF RateLimitUnknown, RedisFails, Places
  <2>6. CASE WrongPassword(a)
    BY <2>6 DEF WrongPassword, Places
  <2>7. CASE RightPassword(a)
    BY <2>7 DEF RightPassword, Places
  <2>8. CASE Increment(a)
    <3>1. PICK to \in {"expiry", "lock", "idle"} :
             /\ Move(a, "count", to)
             /\ to # "lock" => failed + 1 < MaxAttempts
      BY <2>8 DEF Increment
    <3>2. failed' = IF failed < MaxAttempts THEN failed + 1 ELSE MaxAttempts
      BY <2>8 DEF Increment, UpTo
    <3>3. UNCHANGED <<locked, guesses, failures>>
      BY <2>8 DEF Increment
    <3> QED
      BY <3>1, <3>2, <3>3 DEF Places
  <2>9. CASE ExpireCounter(a)
    BY <2>9 DEF ExpireCounter, Places
  <2>10. CASE SetLock(a)
    BY <2>10 DEF SetLock, Places
  <2>11. CASE IncrementFails(a)
    <3>1. PICK from \in {"count", "expiry", "lock"} : Move(a, from, "idle")
      BY <2>11 DEF IncrementFails
    <3> QED
      BY <2>11, <3>1 DEF IncrementFails, RedisFails, Places
  <2>12. CASE StartLogout(a)
    BY <2>12 DEF StartLogout, Places
  <2>13. CASE ClearFailed(a)
    <3>1. PICK from \in {"clear", "logout"}, to \in {"unlock", "logoutUnlock"} : Move(a, from, to)
      BY <2>13 DEF ClearFailed
    <3> QED
      BY <2>13, <3>1 DEF ClearFailed, Places
  <2>14. CASE Unlock(a)
    <3>1. PICK from \in {"unlock", "logoutUnlock"}, to \in {"clearIp", "idle"} : Move(a, from, to)
      BY <2>14 DEF Unlock
    <3> QED
      BY <2>14, <3>1 DEF Unlock, Places
  <2>15. CASE ResetRateLimit(a)
    BY <2>15 DEF ResetRateLimit, Places
  <2>16. CASE ResetFails(a)
    <3>1. PICK from \in {"clear", "unlock", "logout", "logoutUnlock", "clearIp"},
               to \in {"clearIp", "idle"} : Move(a, from, to)
      BY <2>16 DEF ResetFails
    <3> QED
      BY <2>16, <3>1 DEF ResetFails, RedisFails, Places
  <2> QED
    BY <1>1, <2>1, <2>2, <2>3, <2>4, <2>5, <2>6, <2>7, <2>8, <2>9, <2>10, <2>11, <2>12, <2>13,
       <2>14, <2>15, <2>16 DEF LockoutStep
<1>2. ASSUME UNCHANGED attempt PROVE BeforeGuess' = BeforeGuess /\ AfterGuess' = AfterGuess
  BY <1>2 DEF BeforeGuess, AfterGuess, RequestsAt
<1>3. CASE FailedLapses \/ LockLapses \/ RateLimitLapses
  BY <1>0, <1>t, <1>2, <1>3, AtMostAll DEF FailedLapses, LockLapses, RateLimitLapses, LockoutInv
<1>4. CASE UNCHANGED lockoutVars
  BY <1>0, <1>2, <1>4 DEF LockoutInv, lockoutVars
<1> QED
  BY <1>1, <1>3, <1>4 DEF LockoutNext

LEMMA LockoutInvInit == LockoutInit => LockoutInv
<1> SUFFICES ASSUME LockoutInit PROVE LockoutInv
  OBVIOUS
<1>1. LockoutTypeOK
  <2>1. attempt \in [Attackers -> Places] /\ mortal \subseteq {"failed", "fromIp"}
    BY DEF LockoutInit, Places
  <2>2. failed \in 0..MaxAttempts /\ fromIp \in 0..IpAttempts + 1
    BY LockoutAssumption DEF LockoutInit
  <2>3. guesses \in Nat /\ failures \in 0..LoginFaults
    BY LockoutAssumption DEF LockoutInit
  <2>4. locked \in BOOLEAN
    BY DEF LockoutInit
  <2> QED
    BY <2>1, <2>2, <2>3, <2>4 DEF LockoutTypeOK
<1>2. AfterGuess \in Nat
  BY <1>1, AtMostAll
<1>3. failed = 0 /\ locked = FALSE /\ guesses = 0 /\ failures = 0
  BY DEF LockoutInit
<1> QED
  BY <1>1, <1>2, <1>3, LockoutAssumption, SMTT(30) DEF LockoutInv

\* For every number of requests and every limit: between two resets of an address's counter or
\* lock at most MaxAttempts - 1 guesses are made, one more for each request and each failure.
THEOREM GuessesAreBounded == LockoutSpec => []GuessesBounded
<1>1. LockoutInv => GuessesBounded
  <2> SUFFICES ASSUME LockoutInv PROVE GuessesBounded
    OBVIOUS
  <2>1. LockoutTypeOK
    BY DEF LockoutInv
  <2> QED
    BY <2>1, AtMostAll, LockoutAssumption DEF LockoutInv, LockoutTypeOK, GuessesBounded
<1> QED
  BY <1>1, LockoutInvInit, LockoutInvStep, PTL DEF LockoutSpec

-----------------------------------------------------------------------------
(***************************************************************************)
(* OAuthSignIn. The accounts of a person at Apple: rows with Apple's id,   *)
(* of which there is one unless a race or a Google sign-in is to be        *)
(* excused.                                                                *)
(***************************************************************************)

\* A callback has a state until its code is exchanged, and a row once one is found or made.
CallbacksOK ==
    \A b \in Browsers :
        /\ callback[b].pc \in {"validated", "exchange", "forget"} => callback[b].state \in States
        /\ callback[b].pc = "profile" => callback[b].user \in RowIds

\* Apple's rows have Apple's id, and there is one.
AppleRows ==
    excuses = {} =>
        \A i, j \in RowIds : account[i].provider = "apple" /\ account[j].provider = "apple"
                                => account[i].sub = "apple" /\ i = j

OAuthInv == OAuthTypeOK /\ CallbacksOK /\ AppleRows

Callbacks == [pc : Awaits, by : {"none", "google", "microsoft", "apple"}, state : States \cup {NoId},
              address : AppleAddresses, user : RowIds \cup {NoId}]

\* A callback that goes on as c, with a state and a row where it needs them.
LEMMA CallbackGoesOn ==
    ASSUME OAuthInv, NEW b \in Browsers, NEW c \in Callbacks, callback' = [callback EXCEPT ![b] = c],
           c.pc \in {"validated", "exchange", "forget"} => c.state \in States,
           c.pc = "profile" => c.user \in RowIds
    PROVE  callback' \in [Browsers -> Callbacks] /\ CallbacksOK'
BY DEF OAuthInv, OAuthTypeOK, CallbacksOK, Callbacks

\* Going on to an await that needs no more than what the callback has, or ending.
LEMMA CallbackProceeds ==
    ASSUME OAuthInv, NEW b \in Browsers,
           \/ Done(b)
           \/ \E pc \in {"look", "create", "tokens"} : Proceed(b, pc)
           \/ \E pc \in {"exchange", "forget"} :
                 Proceed(b, pc) /\ callback[b].pc \in {"validated", "exchange", "forget"}
    PROVE  callback' \in [Browsers -> Callbacks] /\ CallbacksOK'
<1>1. callback \in [Browsers -> Callbacks]
  BY DEF OAuthInv, OAuthTypeOK, Callbacks
<1>2. CASE Done(b)
  <2>1. NoCallback \in Callbacks /\ NoCallback.pc = "idle"
    BY DEF NoCallback, Callbacks, Awaits, AppleAddresses
  <2> QED
    BY <1>2, <2>1, CallbackGoesOn DEF Done
<1>3. ASSUME NEW pc \in {"look", "create", "tokens", "exchange", "forget"}, Proceed(b, pc),
             pc \in {"exchange", "forget"} => callback[b].pc \in {"validated", "exchange", "forget"}
      PROVE  callback' \in [Browsers -> Callbacks] /\ CallbacksOK'
  <2> DEFINE c == [callback[b] EXCEPT !.pc = pc]
  <2>1. /\ c \in Callbacks /\ c.pc = pc /\ c.state = callback[b].state
        /\ callback' = [callback EXCEPT ![b] = c]
    BY <1>1, <1>3 DEF Callbacks, Awaits, Proceed
  <2>2. c.pc \in {"validated", "exchange", "forget"} => c.state \in States
    BY <1>3, <2>1 DEF OAuthInv, CallbacksOK
  <2>3. c.pc # "profile"
    BY <1>3, <2>1
  <2> HIDE DEF c
  <2> QED
    BY <2>1, <2>2, <2>3, CallbackGoesOn
<1> QED
  BY <1>2, <1>3

\* The rows stay, or one becomes a row that is Apple's only if it was.
LEMMA OtherRows ==
    ASSUME OAuthInv, NEW i \in RowIds, NEW row \in Accounts, account' = [account EXCEPT ![i] = row],
           row.provider = "apple" => account[i].provider = "apple" /\ row.sub = account[i].sub,
           excuses' = excuses
    PROVE  account' \in [RowIds -> Accounts] /\ AppleRows'
<1>1. account \in [RowIds -> Accounts] /\ account' \in [RowIds -> Accounts]
  BY DEF OAuthInv, OAuthTypeOK
<1>2. \A j \in RowIds : account'[j].provider = "apple"
                           => account[j].provider = "apple" /\ account'[j].sub = account[j].sub
  BY <1>1
<1> QED
  BY <1>1, <1>2 DEF OAuthInv, AppleRows

LEMMA SameRows ==
    ASSUME OAuthInv, UNCHANGED <<account, excuses>>
    PROVE  account' \in [RowIds -> Accounts] /\ AppleRows' /\ excuses' \subseteq {"renamed", "raced"}
BY DEF OAuthInv, OAuthTypeOK, AppleRows

LEMMA SameCallbacks ==
    ASSUME OAuthInv, UNCHANGED callback
    PROVE  callback' \in [Browsers -> Callbacks] /\ CallbacksOK'
BY DEF OAuthInv, OAuthTypeOK, CallbacksOK, Callbacks

\* Only the keys of the states, the codes and the callback move.
LEMMA BeforeTheRows ==
    ASSUME OAuthInv, NEW b \in Browsers,
           \/ \E s \in States : CalledBack(b, s)
           \/ ForgetState(b) \/ ExchangeCode(b) \/ CodeRefused(b) \/ RecordSignIn(b)
           \/ \E address \in AppleAddresses : AppleCallsBack(b, address)
           \/ FindUser(b) \/ MissUser(b) \/ AddressTaken(b) \/ SignInFails(b)
    PROVE  OAuthInv'
<1> USE DEF OAuthInv
<1>0. /\ callback \in [Browsers -> Callbacks] /\ broken \in 0..SignInFaults /\ spent \subseteq States
      /\ state \in [States -> [by : {"none", "google", "microsoft"}, live : BOOLEAN]]
  BY DEF OAuthTypeOK, Callbacks
<1>1. UNCHANGED <<account, excuses>>
  BY DEF CalledBack, ForgetState, ExchangeCode, CodeRefused, RecordSignIn, AppleCallsBack, FindUser,
         MissUser, AddressTaken, SignInFails
<1>2. /\ callback' \in [Browsers -> Callbacks] /\ CallbacksOK'
  <2>1. ASSUME NEW s \in States, CalledBack(b, s)
        PROVE  callback' \in [Browsers -> Callbacks] /\ CallbacksOK'
    <3> DEFINE c == [pc |-> IF state[s].by = "google" THEN "validated" ELSE "exchange",
                     by |-> state[s].by, state |-> s, address |-> "given", user |-> NoId]
    <3>1. c \in Callbacks /\ c.pc # "profile" /\ c.state \in States
      BY <1>0 DEF Callbacks, Awaits, AppleAddresses
    <3>2. callback' = [callback EXCEPT ![b] = c]
      BY <2>1 DEF CalledBack
    <3> HIDE DEF c
    <3> QED
      BY <3>1, <3>2, CallbackGoesOn
  <2>2. CASE ForgetState(b)
    BY <2>2, CallbackProceeds DEF ForgetState, Awaiting
  <2>3. CASE ExchangeCode(b)
    BY <2>3, CallbackProceeds DEF ExchangeCode, Awaiting
  <2>4. CASE CodeRefused(b) \/ RecordSignIn(b) \/ AddressTaken(b) \/ SignInFails(b)
    BY <2>4, CallbackProceeds DEF CodeRefused, RecordSignIn, AddressTaken, SignInFails
  <2>5. ASSUME NEW address \in AppleAddresses, AppleCallsBack(b, address)
        PROVE  callback' \in [Browsers -> Callbacks] /\ CallbacksOK'
    <3> DEFINE c == [pc |-> "look", by |-> "apple", state |-> NoId, address |-> address, user |-> NoId]
    <3>1. c \in Callbacks /\ c.pc = "look"
      BY DEF Callbacks, Awaits
    <3>2. callback' = [callback EXCEPT ![b] = c]
      BY <2>5 DEF AppleCallsBack
    <3> HIDE DEF c
    <3> QED
      BY <3>1, <3>2, CallbackGoesOn
  <2>6. CASE FindUser(b)
    <3>1. CASE Done(b)
      BY <3>1, CallbackProceeds
    <3>2. ASSUME NEW i \in Known(b), callback' = [callback EXCEPT ![b].pc = "profile", ![b].user = i]
          PROVE  callback' \in [Browsers -> Callbacks] /\ CallbacksOK'
      <4> DEFINE c == [callback[b] EXCEPT !.pc = "profile", !.user = i]
      <4>1. i \in RowIds
        BY DEF Known, AppleUsers, UsersAt
      <4>2. c \in Callbacks /\ c.pc = "profile" /\ c.user \in RowIds
        BY <1>0, <4>1 DEF Callbacks, Awaits
      <4>3. callback' = [callback EXCEPT ![b] = c]
        BY <1>0, <3>2 DEF Callbacks
      <4> HIDE DEF c
      <4> QED
        BY <4>2, <4>3, CallbackGoesOn
    <3> QED
      BY <2>6, <3>1, <3>2 DEF FindUser
  <2>7. CASE MissUser(b)
    BY <2>7, CallbackProceeds DEF MissUser
  <2> QED
    BY <2>1, <2>2, <2>3, <2>4, <2>5, <2>6, <2>7
<1>3. /\ broken' \in 0..SignInFaults /\ spent' \subseteq States
      /\ state' \in [States -> [by : {"none", "google", "microsoft"}, live : BOOLEAN]]
  <2>1. CASE ForgetState(b)
    <3>1. state' = [state EXCEPT ![callback[b].state].live = FALSE] /\ UNCHANGED <<spent, broken>>
      BY <2>1 DEF ForgetState
    <3>2. callback[b].state \in States
      BY <2>1 DEF ForgetState, CallbacksOK, Awaiting
    <3> QED
      BY <1>0, <3>1, <3>2
  <2>2. CASE ExchangeCode(b)
    <3>1. callback[b].state \in States
      BY <2>2 DEF ExchangeCode, CallbacksOK, Awaiting
    <3> QED
      BY <1>0, <2>2, <3>1 DEF ExchangeCode
  <2>3. CASE CodeRefused(b)
    <3>1. state' = [state EXCEPT ![callback[b].state].live = FALSE] /\ UNCHANGED spent
      BY <2>3 DEF CodeRefused
    <3>2. callback[b].state \in States
      BY <2>3 DEF CodeRefused, CallbacksOK, Awaiting
    <3>3. broken' \in 0..SignInFaults
      BY <1>0, <2>3, OAuthAssumption DEF CodeRefused, Breaks
    <3> QED
      BY <1>0, <3>1, <3>2, <3>3
  <2>4. CASE SignInFails(b)
    BY <1>0, <2>4, OAuthAssumption DEF SignInFails, Breaks
  <2>5. CASE UNCHANGED <<state, spent, broken>>
    BY <1>0, <2>5
  <2> QED
    BY <2>1, <2>2, <2>3, <2>4, <2>5
       DEF CalledBack, AppleCallsBack, FindUser, MissUser, AddressTaken, RecordSignIn
<1> QED
  BY <1>1, <1>2, <1>3, SameRows DEF OAuthTypeOK, Callbacks

\* What every step that writes a row leaves alone.
LEMMA RowsOnly ==
    ASSUME OAuthInv, UNCHANGED <<state, spent, broken>>, excuses' \subseteq {"renamed", "raced"},
           callback' \in [Browsers -> Callbacks] /\ CallbacksOK',
           account' \in [RowIds -> Accounts] /\ AppleRows'
    PROVE  OAuthInv'
BY DEF OAuthInv, OAuthTypeOK, Callbacks

\* A row made at Apple's request is the first, or the step is one of two that raced.
LEMMA CreateStep ==
    ASSUME OAuthInv, NEW b \in Browsers, CreateUser(b)
    PROVE  OAuthInv'
<1> DEFINE by == callback[b].by
<1> DEFINE address == callback[b].address
<1> DEFINE row == [address |-> address, provider |-> by, sub |-> IF by = "microsoft" THEN "none" ELSE by]
<1>0. /\ callback \in [Browsers -> Callbacks] /\ account \in [RowIds -> Accounts]
      /\ excuses \subseteq {"renamed", "raced"}
  BY DEF OAuthInv, OAuthTypeOK, Callbacks
<1>1. row \in Accounts
  BY <1>0 DEF Callbacks, Accounts, Addresses, AppleAddresses
<1>2. PICK i \in RowIds :
         /\ account[i] = NoAccount /\ account' = [account EXCEPT ![i] = row]
         /\ \/ callback' = [callback EXCEPT ![b].pc = "profile", ![b].user = i]
            \/ Done(b)
  BY DEF CreateUser, Insert
<1>3. /\ excuses' = IF by = "apple" /\ AppleUsers(address) # {} THEN excuses \cup {"raced"} ELSE excuses
      /\ UNCHANGED <<state, spent, broken>>
  BY DEF CreateUser
<1>4. callback' \in [Browsers -> Callbacks] /\ CallbacksOK'
  <2>1. CASE Done(b)
    BY <2>1, CallbackProceeds
  <2>2. CASE callback' = [callback EXCEPT ![b].pc = "profile", ![b].user = i]
    <3> DEFINE c == [callback[b] EXCEPT !.pc = "profile", !.user = i]
    <3>1. /\ c \in Callbacks /\ c.pc = "profile" /\ c.user \in RowIds
          /\ callback' = [callback EXCEPT ![b] = c]
      BY <1>0, <2>2 DEF Callbacks, Awaits
    <3> HIDE DEF c
    <3> QED
      BY <3>1, CallbackGoesOn
  <2> QED
    BY <1>2, <2>1, <2>2
<1>5. account' \in [RowIds -> Accounts] /\ AppleRows'
  <2>1. CASE by # "apple"
    BY <1>1, <1>2, <1>3, <2>1, OtherRows
  <2>2. CASE by = "apple" /\ AppleUsers(address) # {}
    <3>1. excuses' # {}
      BY <1>3, <2>2
    <3> QED
      BY <1>0, <1>1, <1>2, <3>1 DEF AppleRows
  <2>3. CASE by = "apple" /\ AppleUsers(address) = {}
    <3>1. excuses' = excuses
      BY <1>3, <2>3
    <3>2. \A j \in RowIds : account[j].provider = "apple" => account[j].sub # "apple"
      BY <2>3 DEF AppleUsers
    <3>3. excuses = {} => \A j \in RowIds : account[j].provider # "apple"
      BY <3>2 DEF OAuthInv, AppleRows
    <3>4. row.sub = "apple" /\ row.provider = "apple"
      BY <2>3
    <3> HIDE DEF row
    <3> QED
      BY <1>0, <1>1, <1>2, <3>1, <3>3, <3>4 DEF AppleRows
  <2> QED
    BY <2>1, <2>2, <2>3
<1>6. excuses' \subseteq {"renamed", "raced"}
  BY <1>0, <1>3
<1> QED
  BY <1>3, <1>4, <1>5, <1>6, RowsOnly

\* Google's profile goes over the id of the row it found, and over Apple's only with an excuse.
LEMMA ProfileStep ==
    ASSUME OAuthInv, NEW b \in Browsers, UpdateProfile(b)
    PROVE  OAuthInv'
<1>0. account \in [RowIds -> Accounts] /\ excuses \subseteq {"renamed", "raced"}
  BY DEF OAuthInv, OAuthTypeOK
<1>1. PICK i \in RowIds : i = callback[b].user
  BY DEF OAuthInv, CallbacksOK, UpdateProfile, Awaiting
<1>2. /\ account' = [account EXCEPT ![i].sub = "google"]
      /\ excuses' = IF account[i].sub = "apple" THEN excuses \cup {"renamed"} ELSE excuses
      /\ Proceed(b, "tokens") /\ UNCHANGED <<state, spent, broken>>
  BY <1>1 DEF UpdateProfile
<1> DEFINE row == [account[i] EXCEPT !.sub = "google"]
<1>3. /\ row \in Accounts /\ account' = [account EXCEPT ![i] = row]
      /\ row.provider = account[i].provider
  BY <1>0, <1>2 DEF Accounts
<1>4. account' \in [RowIds -> Accounts] /\ AppleRows'
  <2>1. CASE account[i].sub = "apple"
    <3>1. excuses' # {}
      BY <1>2, <2>1
    <3> QED
      BY <1>0, <1>3, <3>1 DEF AppleRows
  <2>2. CASE account[i].sub # "apple"
    <3>1. excuses' = excuses
      BY <1>2, <2>2
    <3>2. CASE excuses # {}
      BY <1>0, <1>3, <3>1, <3>2 DEF AppleRows
    <3>3. CASE excuses = {}
      <4>1. account[i].provider # "apple"
        BY <2>2, <3>3 DEF OAuthInv, AppleRows
      <4> HIDE DEF row
      <4> QED
        BY <1>3, <3>1, <4>1, OtherRows
    <3> QED
      BY <3>2, <3>3
  <2> QED
    BY <2>1, <2>2
<1>5. excuses' \subseteq {"renamed", "raced"}
  BY <1>0, <1>2
<1> QED
  BY <1>2, <1>4, <1>5, CallbackProceeds, RowsOnly

\* Microsoft takes over a local row; who registers makes one; an administrator renames one.
LEMMA OtherRowStep ==
    ASSUME OAuthInv,
           \/ \E b \in Browsers : FindMicrosoftUser(b)
           \/ RegisterLocally
           \/ \E i \in RowIds : UpdateMemberDetails(i)
    PROVE  OAuthInv'
<1>0. account \in [RowIds -> Accounts] /\ excuses \subseteq {"renamed", "raced"}
  BY DEF OAuthInv, OAuthTypeOK
<1>1. ASSUME NEW b \in Browsers, FindMicrosoftUser(b) PROVE OAuthInv'
  <2>1. callback' \in [Browsers -> Callbacks] /\ CallbacksOK'
    BY <1>1, CallbackProceeds DEF FindMicrosoftUser
  <2>2. PICK i \in RowIds : account' = IF account[i].provider = "local"
                                THEN [account EXCEPT ![i].provider = "microsoft"] ELSE account
    BY <1>1 DEF FindMicrosoftUser, Known, AppleUsers, UsersAt
  <2>3. UNCHANGED <<state, spent, excuses, broken>>
    BY <1>1 DEF FindMicrosoftUser
  <2>4. account' \in [RowIds -> Accounts] /\ AppleRows'
    <3>1. CASE account[i].provider = "local"
      <4> DEFINE row == [account[i] EXCEPT !.provider = "microsoft"]
      <4>1. /\ row \in Accounts /\ account' = [account EXCEPT ![i] = row]
            /\ row.provider = "microsoft"
        BY <1>0, <2>2, <3>1 DEF Accounts
      <4> HIDE DEF row
      <4> QED
        BY <2>3, <4>1, OtherRows
    <3>2. CASE account[i].provider # "local"
      BY <2>2, <2>3, <3>2, SameRows
    <3> QED
      BY <3>1, <3>2
  <2> QED
    BY <1>0, <2>1, <2>3, <2>4, RowsOnly
<1>2. CASE RegisterLocally
  <2> DEFINE row == [address |-> "given", provider |-> "local", sub |-> "none"]
  <2>1. PICK i \in RowIds : account' = [account EXCEPT ![i] = row]
    BY <1>2 DEF RegisterLocally, Insert
  <2>2. row \in Accounts /\ row.provider = "local"
    BY DEF Accounts, Addresses
  <2>3. UNCHANGED <<state, spent, callback, excuses, broken>>
    BY <1>2 DEF RegisterLocally
  <2> HIDE DEF row
  <2> QED
    BY <1>0, <2>1, <2>2, <2>3, OtherRows, SameCallbacks, RowsOnly
<1>3. ASSUME NEW i \in RowIds, UpdateMemberDetails(i) PROVE OAuthInv'
  <2> DEFINE row == [account[i] EXCEPT !.address = "changed"]
  <2>1. /\ account' = [account EXCEPT ![i] = row] /\ row \in Accounts
        /\ row.provider = account[i].provider /\ row.sub = account[i].sub
    <3>1. account' = [account EXCEPT ![i].address = "changed"]
      BY <1>3 DEF UpdateMemberDetails, SetAddress
    <3>2. account[i] \in Accounts
      BY <1>0
    <3> QED
      BY <1>0, <3>1, <3>2 DEF Accounts, Addresses
  <2>2. UNCHANGED <<state, spent, callback, excuses, broken>>
    BY <1>3 DEF UpdateMemberDetails
  <2> HIDE DEF row
  <2> QED
    BY <1>0, <2>1, <2>2, OtherRows, SameCallbacks, RowsOnly
<1> QED
  BY <1>1, <1>2, <1>3

\* A login begins, or its state expires.
LEMMA StateStep ==
    ASSUME OAuthInv, NEW s \in States, GoogleLogin(s) \/ MicrosoftLogin(s) \/ StateLapses(s)
    PROVE  OAuthInv'
<1>1. UNCHANGED <<account, spent, callback, excuses, broken>>
  BY DEF GoogleLogin, MicrosoftLogin, StateLapses, SendOut
<1>2. state' \in [States -> [by : {"none", "google", "microsoft"}, live : BOOLEAN]]
  <2>1. state \in [States -> [by : {"none", "google", "microsoft"}, live : BOOLEAN]]
    BY DEF OAuthInv, OAuthTypeOK
  <2>2. CASE GoogleLogin(s)
    BY <2>1, <2>2 DEF GoogleLogin, SendOut
  <2>3. CASE MicrosoftLogin(s)
    BY <2>1, <2>3 DEF MicrosoftLogin, SendOut
  <2>4. CASE StateLapses(s)
    BY <2>1, <2>4 DEF StateLapses
  <2> QED
    BY <2>2, <2>3, <2>4
<1> QED
  BY <1>1, <1>2, SameRows, SameCallbacks DEF OAuthInv, OAuthTypeOK

LEMMA OAuthInvStep == OAuthInv /\ [OAuthNext]_oauthVars => OAuthInv'
<1> SUFFICES ASSUME OAuthInv, [OAuthNext]_oauthVars PROVE OAuthInv'
  OBVIOUS
<1>1. ASSUME NEW b \in Browsers, GoogleOrMicrosoft(b) PROVE OAuthInv'
  BY <1>1, BeforeTheRows, OtherRowStep, ProfileStep DEF GoogleOrMicrosoft
<1>2. ASSUME NEW b \in Browsers, Apple(b) PROVE OAuthInv'
  BY <1>2, BeforeTheRows, CreateStep DEF Apple
<1>3. ASSUME NEW b \in Browsers, SignInFails(b) PROVE OAuthInv'
  BY <1>3, BeforeTheRows
<1>4. CASE UNCHANGED oauthVars
  BY <1>4, SameRows, SameCallbacks DEF oauthVars, OAuthInv, OAuthTypeOK
<1> QED
  BY <1>1, <1>2, <1>3, <1>4, OtherRowStep, StateStep DEF OAuthNext

LEMMA OAuthInvInit == OAuthInit => OAuthInv
<1> SUFFICES ASSUME OAuthInit PROVE OAuthInv
  OBVIOUS
<1>1. NoCallback \in Callbacks /\ NoCallback.pc = "idle"
  BY DEF NoCallback, Callbacks, Awaits, AppleAddresses
<1>2. callback \in [Browsers -> Callbacks] /\ CallbacksOK
  BY <1>1 DEF OAuthInit, CallbacksOK
<1>3. NoAccount \in Accounts /\ NoAccount.provider = "none"
  BY DEF NoAccount, Accounts
<1>4. account \in [RowIds -> Accounts] /\ AppleRows
  BY <1>3 DEF OAuthInit, AppleRows
<1>5. state \in [States -> [by : {"none", "google", "microsoft"}, live : BOOLEAN]]
  BY DEF OAuthInit
<1>6. spent \subseteq States /\ excuses \subseteq {"renamed", "raced"} /\ broken \in 0..SignInFaults
  BY OAuthAssumption DEF OAuthInit
<1> QED
  BY <1>2, <1>4, <1>5, <1>6 DEF OAuthInv, OAuthTypeOK, Callbacks

\* For every number of callbacks, states and failures: a second Apple row needs one of the excuses.
THEOREM AppleAccountsAreOne == OAuthSpec => []OneAppleAccount
<1>1. OAuthInv => OneAppleAccount
  <2> SUFFICES ASSUME OAuthInv, excuses = {}
               PROVE  Cardinality({i \in RowIds : account[i].provider = "apple"}) <= 1
    BY DEF OneAppleAccount
  <2> DEFINE apples == {i \in RowIds : account[i].provider = "apple"}
  <2>1. \A i, j \in apples : i = j
    BY DEF OAuthInv, AppleRows
  <2>2. CASE apples = {}
    BY <2>2, FS_EmptySet
  <2>3. CASE apples # {}
    <3>1. PICK i : apples = {i}
      BY <2>1, <2>3
    <3>2. Cardinality(apples) = 1
      BY <3>1, FS_Singleton
    <3> QED
      BY <3>2
  <2> QED
    BY <2>2, <2>3
<1> QED
  BY <1>1, OAuthInvInit, OAuthInvStep, PTL DEF OAuthSpec

-----------------------------------------------------------------------------
(***************************************************************************)
(* Accounts. A secret that is spent is not available any more; a logout    *)
(* outruns the requests that began before it; what is deleted has an       *)
(* effect, or was deleted by a request whose own secret has one.           *)
(***************************************************************************)

Jobs(n) == [pc : Steps, code : 0..n, pw : Passwords \cup {None}, seen : SUBSET (1..n), upto : 0..n]

\* The kind of secret each step presents.
OtpSteps == {"insert", "cleanup", "commit"}
PairSteps == {"revoke", "reissue"}
CodeSteps == {"spendCode", "storeToken"}
TokenSteps == {"spendToken", "setPassword", "forgetCode"}
Presenting == OtpSteps \cup PairSteps \cup CodeSteps \cup TokenSteps
CodeFits(j) ==
    /\ j.pc \in Presenting => j.code \in Ids
    /\ j.pc \notin Presenting => j.code = 0
    /\ j.pc \in OtpSteps => issued[j.code] = "otp"
    /\ j.pc \in PairSteps => issued[j.code] \in Pairs
    /\ j.pc \in CodeSteps => issued[j.code] = "reset"
    /\ j.pc \in TokenSteps => issued[j.code] = "token"

\* The types, part by part; codes to reset a password are only for a user there is.
UserTypes ==
    /\ user \in [exists : BOOLEAN, pw : Passwords \cup {None}]
    /\ user = NoUser \/ user.exists
    /\ \A i \in Ids : issued[i] \in {"reset", "token"} => user.exists
CodeTypes ==
    /\ pending \in [code : 0..Len(issued), pw : Passwords \cup {None}]
    /\ pending # NoPending => pending.code \in Ids /\ issued[pending.code] = "otp"
    /\ resetCode \in 0..Len(issued) /\ (resetCode # 0 => issued[resetCode] = "reset")
    /\ resetTokens \subseteq {i \in Ids : issued[i] = "token"}
    /\ lapsed \subseteq Ids
SessionTypes ==
    /\ refresh \subseteq {i \in Ids : issued[i] \in Pairs}
    /\ deny \subseteq [part : {"access", "refresh"}, id : Ids]
    /\ closed \subseteq Ids /\ spared \subseteq Ids
SecretTypes ==
    /\ issued \in Seq(Kinds) /\ Len(issued) <= MaxIssued
    /\ root \in [Ids -> Ids]
    /\ faults \in 0..MaxFaults
GhostTypes ==
    /\ used \subseteq Ids /\ unrevoked \subseteq Ids /\ lost \subseteq Ids
    /\ swept \subseteq Ids \X Ids
JobTypes ==
    /\ job \in [Workers -> Jobs(Len(issued))]
    /\ \A w \in Workers : CodeFits(job[w])
AccountsTypes ==
    UserTypes /\ CodeTypes /\ SessionTypes /\ SecretTypes /\ GhostTypes /\ JobTypes

LEMMA AccountsBounds ==
    ASSUME AccountsTypes
    PROVE  /\ issued \in Seq(Kinds) /\ Len(issued) \in Nat /\ Len(issued) <= MaxIssued
           /\ \A i \in Ids : issued[i] \in Kinds
           /\ MaxIssued \in Nat /\ MaxFaults \in Nat /\ faults \in Nat
           /\ job \in [Workers -> Jobs(Len(issued))]
<1>1. issued \in Seq(Kinds) /\ Len(issued) <= MaxIssued  BY DEF AccountsTypes, SecretTypes
<1>2. Len(issued) \in Nat  BY <1>1, LenProperties
<1>3. \A i \in Ids : issued[i] \in Kinds  BY <1>1, ElementOfSeq DEF Ids
<1>4. job \in [Workers -> Jobs(Len(issued))]  BY DEF AccountsTypes, JobTypes
<1>5. faults \in Nat /\ MaxIssued \in Nat /\ MaxFaults \in Nat
    BY AccountsAssumption DEF AccountsTypes, SecretTypes
<1> QED  BY <1>1, <1>2, <1>3, <1>4, <1>5

LEMMA NoPendingCode ==
    ASSUME AccountsTypes
    PROVE  /\ NoPending.code = 0
           /\ pending # NoPending => pending.code \in Ids /\ pending.code # 0
                                     /\ issued[pending.code] = "otp"
           /\ pending.code = 0 => pending = NoPending
<1>1. NoPending.code = 0  BY DEF NoPending
<1>2. 0 \notin Ids  BY AccountsBounds DEF Ids
<1> QED  BY <1>1, <1>2 DEF AccountsTypes, CodeTypes

LEMMA JobFields ==
    ASSUME NEW n \in Nat, NEW j \in Jobs(n)
    PROVE  /\ j.pc \in Steps /\ j.code \in 0..n /\ j.pw \in Passwords \cup {None}
           /\ j.seen \subseteq 1..n /\ j.upto \in 0..n
           /\ \A m \in Nat : n <= m => j \in Jobs(m)
           /\ \A pc \in Steps : [j EXCEPT !.pc = pc] \in Jobs(n)
<1>1. ASSUME NEW m \in Nat, n <= m PROVE j \in Jobs(m)
  <2>1. \A i \in 0..n : i \in 0..m  BY <1>1
  <2>2. \A S \in SUBSET (1..n) : S \in SUBSET (1..m)  BY <1>1
  <2>3. j.code \in 0..m /\ j.upto \in 0..m /\ j.seen \in SUBSET (1..m)  BY <2>1, <2>2 DEF Jobs
  <2> QED  BY <2>3 DEF Jobs
<1> QED  BY <1>1 DEF Jobs

LEMMA IdleTyped ==
    ASSUME NEW n \in Nat
    PROVE  Idle \in Jobs(n) /\ Idle.pc = "idle" /\ Idle.code = 0 /\ CodeFits(Idle)
<1>1. Idle.pc = "idle" /\ Idle.code = 0  BY DEF Idle
<1>2. 0 \in 0..n /\ {} \in SUBSET (1..n)  OBVIOUS
<1>3. \A i \in 0..n, s \in SUBSET (1..n) :
         [pc |-> "idle", code |-> i, pw |-> None, seen |-> s, upto |-> i] \in Jobs(n)
    BY DEF Jobs, Steps
<1>4. Idle \in Jobs(n)  BY <1>2, <1>3 DEF Idle
<1>5. CodeFits(Idle)
    BY <1>1 DEF CodeFits, Presenting, OtpSteps, PairSteps, CodeSteps, TokenSteps
<1> QED  BY <1>1, <1>4, <1>5

-----------------------------------------------------------------------------
\* Secrets are only added.
IssuedGrows ==
    /\ Len(issued) \in Nat /\ Len(issued') \in Nat /\ Len(issued) <= Len(issued')
    /\ \A i \in 1..Len(issued) : issued'[i] = issued[i]

LEMMA Grown ==
    ASSUME AccountsTypes, IssuedGrows
    PROVE  Ids \subseteq Ids' /\ \A i \in Ids : issued'[i] = issued[i]
BY DEF Ids, IssuedGrows

LEMMA CodesMove ==
    ASSUME AccountsTypes, IssuedGrows,
           pending' \in {pending, NoPending} \/
              (/\ pending' \in [code : Ids', pw : Passwords \cup {None}]
               /\ issued'[pending'.code] = "otp"),
           resetCode' \in {resetCode, 0} \/
              (resetCode' \in Ids' /\ issued'[resetCode'] = "reset"),
           \A t \in resetTokens' : t \in resetTokens \/ (t \in Ids' /\ issued'[t] = "token"),
           \A t \in lapsed' : t \in lapsed \/ t \in Ids'
    PROVE  CodeTypes'
<1>1. Ids \subseteq Ids' /\ \A i \in Ids : issued'[i] = issued[i]  BY Grown
<1>2. CodeTypes  BY DEF AccountsTypes
<1>3. \A i \in 0..Len(issued) : i \in 0..Len(issued')  BY DEF IssuedGrows
<1>4. Ids' \subseteq 0..Len(issued')  BY DEF IssuedGrows, Ids
<1>5. NoPending \in [code : 0..Len(issued'), pw : Passwords \cup {None}]
  <2>1. \A n \in Nat : [code |-> 0, pw |-> None] \in [code : 0..n, pw : Passwords \cup {None}]
      OBVIOUS
  <2> QED  BY <2>1 DEF NoPending, IssuedGrows
<1>6. pending' \in [code : 0..Len(issued'), pw : Passwords \cup {None}]
    BY <1>2, <1>3, <1>4, <1>5 DEF CodeTypes
<1>7. pending' # NoPending => pending'.code \in Ids' /\ issued'[pending'.code] = "otp"
    BY <1>1, <1>2 DEF CodeTypes
<1>8. resetCode # 0 => resetCode \in Ids  BY <1>2, AccountsBounds DEF CodeTypes, Ids
<1>9. resetCode' \in 0..Len(issued') /\ (resetCode' # 0 => issued'[resetCode'] = "reset")
    BY <1>1, <1>2, <1>3, <1>4, <1>8 DEF CodeTypes, IssuedGrows
<1>10. resetTokens' \subseteq {i \in Ids' : issued'[i] = "token"} /\ lapsed' \subseteq Ids'
    BY <1>1, <1>2 DEF CodeTypes
<1>11. NoPending' = NoPending  BY DEF NoPending
<1> QED  BY <1>6, <1>7, <1>9, <1>10, <1>11 DEF CodeTypes

LEMMA CodesGrow ==
    ASSUME AccountsTypes, IssuedGrows, UNCHANGED codes
    PROVE  CodeTypes'
<1>1. UNCHANGED <<pending, resetCode, resetTokens, lapsed>>  BY DEF codes
<1> QED  BY <1>1, CodesMove

LEMMA SessionsGrow ==
    ASSUME AccountsTypes, IssuedGrows, UNCHANGED sessions
    PROVE  SessionTypes'
<1>1. Ids \subseteq Ids' /\ \A i \in Ids : issued'[i] = issued[i]  BY Grown
<1>2. UNCHANGED <<refresh, deny, closed, spared>>  BY DEF sessions
<1>3. SessionTypes  BY DEF AccountsTypes
<1>4. \A d \in [part : {"access", "refresh"}, id : Ids] :
          d \in [part : {"access", "refresh"}, id : Ids']  BY <1>1
<1> QED  BY <1>1, <1>2, <1>3, <1>4 DEF SessionTypes

\* A worker moves, the others keep their secret.
LEMMA WorkerMoves ==
    ASSUME AccountsTypes, IssuedGrows, NEW w \in Workers, NEW row \in Jobs(Len(issued')),
           CodeFits(row)', job' = [job EXCEPT ![w] = row]
    PROVE  JobTypes'
<1> USE AccountsBounds
<1>1. \A v \in Workers : job[v] \in Jobs(Len(issued'))  BY JobFields DEF IssuedGrows
<1>2. job' \in [Workers -> Jobs(Len(issued'))]  BY <1>1
<1>3. Ids \subseteq Ids' /\ \A i \in Ids : issued'[i] = issued[i]  BY Grown
<1>4. ASSUME NEW v \in Workers PROVE CodeFits(job[v])'
  <2>1. CASE v = w
    <3>1. job'[v] = row  BY <2>1
    <3> QED  BY <3>1 DEF CodeFits
  <2>2. CASE v # w
    <3>1. PICK j \in Jobs(Len(issued)) : j = job[v]  OBVIOUS
    <3>2. job'[v] = j  BY <2>2, <3>1
    <3>3. CodeFits(j)  BY <3>1 DEF AccountsTypes, JobTypes
    <3>4. CodeFits(j)'  BY <1>3, <3>3 DEF CodeFits, Presenting
    <3> QED  BY <3>2, <3>4 DEF CodeFits
  <2> QED  BY <2>1, <2>2
<1> QED  BY <1>2, <1>4 DEF JobTypes

LEMMA JobsStay ==
    ASSUME AccountsTypes, IssuedGrows, job' = job
    PROVE  JobTypes'
<1> USE AccountsBounds
<1>1. \A v \in Workers : job[v] \in Jobs(Len(issued'))  BY JobFields DEF IssuedGrows
<1>2. Ids \subseteq Ids' /\ \A i \in Ids : issued'[i] = issued[i]  BY Grown
<1>3. ASSUME NEW v \in Workers PROVE CodeFits(job[v])'
  <2>1. PICK j \in Jobs(Len(issued)) : j = job[v]  OBVIOUS
  <2>2. CodeFits(j)  BY <2>1 DEF AccountsTypes, JobTypes
  <2>3. CodeFits(j)'  BY <1>2, <2>2 DEF CodeFits, Presenting
  <2> QED  BY <2>1, <2>3 DEF CodeFits
<1> QED  BY <1>1, <1>3 DEF JobTypes

-----------------------------------------------------------------------------
\* The ways a request moves on.
LEMMA Answered ==
    ASSUME AccountsTypes, IssuedGrows, NEW w \in Workers, Answer(w)
    PROVE  JobTypes'
<1>1. Idle \in Jobs(Len(issued')) /\ Idle.pc = "idle" /\ Idle.code = 0
    BY IdleTyped DEF IssuedGrows
<1>2. CodeFits(Idle)'
    BY <1>1 DEF CodeFits, Presenting, OtpSteps, PairSteps, CodeSteps, TokenSteps, Idle
<1>3. PICK row \in Jobs(Len(issued')) : row = Idle  BY <1>1
<1>4. CodeFits(row)'  BY <1>2, <1>3 DEF CodeFits, Idle
<1>5. job' = [job EXCEPT ![w] = row]  BY <1>3 DEF Answer
<1> QED  BY <1>4, <1>5, WorkerMoves

SameSecret(a, b) ==
    /\ a \in OtpSteps <=> b \in OtpSteps
    /\ a \in PairSteps <=> b \in PairSteps
    /\ a \in CodeSteps <=> b \in CodeSteps
    /\ a \in TokenSteps <=> b \in TokenSteps

LEMMA Stays == ASSUME AccountsTypes, issued' = issued PROVE IssuedGrows /\ Ids' = Ids
BY AccountsBounds DEF IssuedGrows, Ids

LEMMA Gone ==
    ASSUME AccountsTypes, issued' = issued, NEW w \in Workers, NEW pc \in Steps,
           SameSecret(job[w].pc, pc), Goto(w, pc)
    PROVE  JobTypes'
<1> USE AccountsBounds
<1>1. IssuedGrows /\ Ids' = Ids  BY Stays
<1>2. PICK j \in Jobs(Len(issued)) : j = job[w]  OBVIOUS
<1>3. [j EXCEPT !.pc = pc] \in Jobs(Len(issued'))  BY JobFields
<1>4. PICK row \in Jobs(Len(issued')) : row = [j EXCEPT !.pc = pc]  BY <1>3
<1>5. row.pc = pc /\ row.code = j.code  BY <1>4 DEF Jobs
<1>6. CodeFits(j)  BY <1>2 DEF AccountsTypes, JobTypes
<1>7. CodeFits(row)'  BY <1>1, <1>2, <1>5, <1>6 DEF CodeFits, SameSecret, Presenting
<1>8. job' = [job EXCEPT ![w] = row]  BY <1>2, <1>4 DEF Goto
<1> QED  BY <1>1, <1>7, <1>8, WorkerMoves

LEMMA Begun ==
    ASSUME AccountsTypes, issued' = issued, NEW w \in Workers, NEW pc \in Steps \ Presenting,
           NEW pw \in Passwords \cup {None}, Begin(w, pc, pw)
    PROVE  JobTypes'
<1>1. IssuedGrows /\ Ids' = Ids  BY Stays
<1>2. PICK i \in Jobs(Len(issued')) : i = Idle /\ i.code = 0
    BY <1>1, IdleTyped DEF IssuedGrows
<1>3. [i EXCEPT !.pc = pc, !.pw = pw] \in Jobs(Len(issued'))  BY DEF Jobs
<1>4. PICK row \in Jobs(Len(issued')) : row = [i EXCEPT !.pc = pc, !.pw = pw]  BY <1>3
<1>5. row.pc = pc /\ row.code = 0  BY <1>2, <1>4 DEF Jobs
<1>6. CodeFits(row)'
    BY <1>5 DEF CodeFits, Presenting
<1>7. job' = [job EXCEPT ![w] = row]  BY <1>2, <1>4 DEF Begin
<1> QED  BY <1>1, <1>6, <1>7, WorkerMoves

LEMMA Presented ==
    ASSUME AccountsTypes, issued' = issued, NEW w \in Workers, NEW c \in Ids,
           NEW pc \in Presenting, NEW pw \in Passwords \cup {None}, Present(w, c, pc, pw),
           pc \in OtpSteps => issued[c] = "otp",
           pc \in PairSteps => issued[c] \in Pairs,
           pc \in CodeSteps => issued[c] = "reset",
           pc \in TokenSteps => issued[c] = "token"
    PROVE  JobTypes'
<1>1. IssuedGrows /\ Ids' = Ids  BY Stays
<1>2. pc \in Steps
    BY DEF Presenting, OtpSteps, PairSteps, CodeSteps, TokenSteps, Steps
<1>3. c \in 0..Len(issued')  BY <1>1 DEF IssuedGrows, Ids
<1>4. PICK i \in Jobs(Len(issued')) : i = Idle
    BY <1>1, IdleTyped DEF IssuedGrows
<1>5. [i EXCEPT !.pc = pc, !.code = c, !.pw = pw] \in Jobs(Len(issued'))
    BY <1>2, <1>3 DEF Jobs
<1>6. PICK row \in Jobs(Len(issued')) : row = [i EXCEPT !.pc = pc, !.code = c, !.pw = pw]
    BY <1>5
<1>7. row.pc = pc /\ row.code = c  BY <1>2, <1>3, <1>6 DEF Jobs
<1>8. CodeFits(row)'  BY <1>1, <1>7 DEF CodeFits, Presenting
<1>9. job' = [job EXCEPT ![w] = row]  BY <1>4, <1>6 DEF Present
<1> QED  BY <1>1, <1>8, <1>9, WorkerMoves

\* A secret is handed out.
LEMMA Issues ==
    ASSUME AccountsTypes, NEW kind \in Kinds, NEW origin \in Ids \cup {New},
           HandOut(kind, origin)
    PROVE  /\ IssuedGrows /\ Len(issued') = New /\ New \in Ids' /\ New \notin Ids /\ New # 0
           /\ Ids' = Ids \cup {New} /\ issued'[New] = kind
           /\ \A i \in Ids : issued'[i] = issued[i] /\ root'[i] = root[i]
           /\ issued' \in Seq(Kinds) /\ Len(issued') <= MaxIssued
           /\ root' \in [Ids' -> Ids'] /\ root'[New] = origin
<1> USE AccountsBounds
<1>0. Len(issued) < MaxIssued /\ issued' = Append(issued, kind) /\ root' = Append(root, origin)
    BY DEF HandOut
<1>1. /\ issued' \in Seq(Kinds) /\ Len(issued') = Len(issued) + 1
      /\ \A i \in 1..Len(issued) : issued'[i] = issued[i]
      /\ issued'[Len(issued) + 1] = kind
    BY <1>0, AppendProperties
<1>2. /\ Ids' = Ids \cup {New} /\ New \notin Ids /\ New # 0 /\ New \in Nat /\ New \in Ids'
      /\ Ids \subseteq Ids'
    BY <1>1 DEF Ids, New
<1>3. root \in Seq(Ids') /\ Len(root) = Len(issued)
  <2>1. root \in [Ids -> Ids']  BY <1>2 DEF AccountsTypes, SecretTypes
  <2>2. root \in Seq(Ids')
    <3>1. \A S : \A m \in Nat : \A g \in [1..m -> S] : g \in Seq(S)  OBVIOUS
    <3> QED  BY <2>1, <3>1 DEF Ids
  <2>3. DOMAIN root = 1..Len(root) /\ Len(root) \in Nat  BY <2>2, LenProperties
  <2> QED  BY <2>1, <2>2, <2>3 DEF Ids
<1>4. /\ root' \in Seq(Ids') /\ Len(root') = Len(root) + 1
      /\ \A i \in 1..Len(root) : root'[i] = root[i]
      /\ root'[Len(root) + 1] = origin
    BY <1>0, <1>2, <1>3, AppendProperties
<1>5. root' \in [1..Len(root') -> Ids']  BY <1>4, LenProperties, ElementOfSeq
<1>6. root' \in [Ids' -> Ids']  BY <1>1, <1>3, <1>4, <1>5 DEF Ids
<1> QED  BY <1>0, <1>1, <1>2, <1>3, <1>4, <1>6 DEF Ids, New, IssuedGrows

\* What an action leaves alone keeps its type.
LEMMA Steady ==
    ASSUME AccountsTypes, UNCHANGED secrets
    PROVE  /\ issued' = issued /\ root' = root /\ IssuedGrows /\ Ids' = Ids
           /\ UNCHANGED user => UserTypes'
           /\ UNCHANGED codes => CodeTypes'
           /\ UNCHANGED sessions => SessionTypes'
           /\ UNCHANGED ghosts => GhostTypes'
           /\ UNCHANGED job => JobTypes'
           /\ faults' = faults \/ Fault => SecretTypes'
<1>0. issued' = issued /\ root' = root  BY DEF secrets
<1>1. IssuedGrows /\ Ids' = Ids  BY <1>0, Stays
<1>2. UNCHANGED user => UserTypes'  BY <1>0, <1>1 DEF AccountsTypes, UserTypes, NoUser
<1>3. UNCHANGED ghosts => GhostTypes'  BY <1>1 DEF AccountsTypes, GhostTypes, ghosts
<1>4. faults' = faults \/ Fault => SecretTypes'
    BY <1>0, <1>1, AccountsBounds DEF AccountsTypes, SecretTypes, Fault
<1> QED  BY <1>0, <1>1, <1>2, <1>3, <1>4, CodesGrow, SessionsGrow, JobsStay

\* When secrets are handed out too.
LEMMA Growing ==
    ASSUME AccountsTypes, NEW kind \in Kinds, NEW origin \in Ids \cup {New},
           HandOut(kind, origin)
    PROVE  /\ UNCHANGED user /\ (kind \in {"reset", "token"} => user.exists) => UserTypes'
           /\ UNCHANGED codes => CodeTypes'
           /\ UNCHANGED sessions => SessionTypes'
           /\ faults' = faults \/ Fault => SecretTypes'
           /\ /\ used' \subseteq used \cup Ids' /\ unrevoked' = unrevoked /\ swept' = swept
              /\ lost' \subseteq lost \cup Ids'
              => GhostTypes'
<1>1. /\ IssuedGrows /\ Ids' = Ids \cup {New} /\ issued'[New] = kind
      /\ \A i \in Ids : issued'[i] = issued[i]
    BY Issues
<1>2. UNCHANGED user /\ (kind \in {"reset", "token"} => user.exists) => UserTypes'
    BY <1>1 DEF AccountsTypes, UserTypes, NoUser
<1>3. faults' = faults \/ Fault => SecretTypes'
    BY Issues, AccountsBounds DEF AccountsTypes, SecretTypes, Fault
<1>4. ASSUME used' \subseteq used \cup Ids', unrevoked' = unrevoked, swept' = swept,
             lost' \subseteq lost \cup Ids'
      PROVE  GhostTypes'
  <2>1. GhostTypes  BY DEF AccountsTypes
  <2>2. \A p \in Ids \X Ids : p \in Ids' \X Ids'  BY <1>1
  <2> QED  BY <1>1, <1>4, <2>1, <2>2 DEF GhostTypes
<1> QED  BY <1>1, <1>2, <1>3, <1>4, CodesGrow, SessionsGrow

LEMMA UseTyped ==
    ASSUME AccountsTypes, Ids' = Ids, NEW c \in Ids, Use(c)
    PROVE  GhostTypes'
BY DEF AccountsTypes, GhostTypes, Use

LEMMA SweepTyped ==
    ASSUME AccountsTypes, Ids' = Ids, NEW c \in Ids \cup {0}, NEW d \in Ids, Sweep(c, d)
    PROVE  GhostTypes'
<1>1. swept' \subseteq Ids \X Ids
  <2>1. CASE c \in {0, d}  BY <2>1 DEF Sweep, AccountsTypes, GhostTypes
  <2>2. CASE c \notin {0, d}
    <3>1. <<c, d>> \in Ids \X Ids  BY <2>2
    <3> QED  BY <2>2, <3>1 DEF Sweep, AccountsTypes, GhostTypes
  <2> QED  BY <2>1, <2>2
<1> QED  BY <1>1 DEF Sweep, AccountsTypes, GhostTypes

\* What a request carries.
LEMMA Carried ==
    ASSUME AccountsTypes, NEW w \in Workers
    PROVE  /\ job[w].pc \in Steps /\ job[w].pw \in Passwords \cup {None}
           /\ job[w].code \in 0..Len(issued) /\ job[w].upto \in 0..Len(issued)
           /\ job[w].seen \subseteq Ids
           /\ CodeFits(job[w])
           /\ pending.pw \in Passwords \cup {None} /\ user.pw \in Passwords \cup {None}
<1> USE AccountsBounds
<1>1. job[w] \in Jobs(Len(issued))  OBVIOUS
<1>2. CodeFits(job[w])  BY DEF AccountsTypes, JobTypes
<1>3. pending.pw \in Passwords \cup {None} /\ user.pw \in Passwords \cup {None}
    BY DEF AccountsTypes, CodeTypes, UserTypes
<1> QED  BY <1>1, <1>2, <1>3, JobFields DEF Ids

-----------------------------------------------------------------------------
\* The types, route by route.
LEMMA RegistrationTypes ==
    ASSUME AccountsTypes, NEW w \in Workers, CompanySignup(w) \/ RequestNewOtp(w)
    PROVE  AccountsTypes'
<1>1. ASSUME NEW p \in Passwords, Register(w, p) PROVE AccountsTypes'
  <2>0. issued' = issued  BY <1>1, Steady DEF Register
  <2>1. JobTypes'  BY <1>1, <2>0, Begun DEF Register, Steps, Presenting, OtpSteps, PairSteps, CodeSteps, TokenSteps
  <2> QED  BY <1>1, <2>1, Steady DEF AccountsTypes, Register
<1>2. CASE ResendOtp(w)
  <2>0. issued' = issued  BY <1>2, Steady DEF ResendOtp
  <2>1. JobTypes'
      BY <1>2, <2>0, Begun, Carried DEF ResendOtp, Steps, Presenting, OtpSteps, PairSteps, CodeSteps, TokenSteps
  <2> QED  BY <1>2, <2>1, Steady DEF AccountsTypes, ResendOtp
<1>3. CASE StoreUserCredentials(w)
  <2>1. "otp" \in Kinds /\ New \in Ids \cup {New} /\ HandOut("otp", New)
        /\ UNCHANGED <<user, resetCode, resetTokens, lapsed, faults>>
        /\ UNCHANGED sessions /\ UNCHANGED ghosts
      BY <1>3 DEF StoreUserCredentials, Issue, Kinds
  <2>2. /\ IssuedGrows /\ New \in Ids' /\ Ids' = Ids \cup {New} /\ issued'[New] = "otp"
      BY <2>1, Issues
  <2>3. UserTypes' /\ SessionTypes' /\ SecretTypes' /\ GhostTypes'
      BY <2>1, Growing DEF ghosts
  <2>4. CodeTypes'
    <3>1. pending' = [code |-> New, pw |-> job[w].pw]  BY <1>3 DEF StoreUserCredentials
    <3>2. pending' \in [code : Ids', pw : Passwords \cup {None}] /\ issued'[pending'.code] = "otp"
        BY <3>1, <2>2, Carried
    <3> QED  BY <2>1, <2>2, <3>2, CodesMove
  <2>5. JobTypes'  BY <1>3, <2>2, Answered DEF StoreUserCredentials
  <2> QED  BY <2>3, <2>4, <2>5 DEF AccountsTypes
<1> QED  BY <1>1, <1>2, <1>3 DEF CompanySignup, RequestNewOtp

LEMMA VerifyOtpTypes ==
    ASSUME AccountsTypes, NEW w \in Workers, VerifyOtpRoute(w)
    PROVE  AccountsTypes'
<1> USE DEF OtpSteps, PairSteps, CodeSteps, TokenSteps
<1>0. CodeFits(job[w]) /\ 0 \notin Ids  BY Carried, AccountsBounds DEF Ids
<1>1. CASE VerifyOtp(w)
  <2>1. pending.code \in Ids /\ issued[pending.code] = "otp" /\ "insert" \in Presenting
      BY <1>1, NoPendingCode DEF VerifyOtp, Presenting
  <2>2. issued' = issued  BY <1>1, Steady DEF VerifyOtp
  <2>3. JobTypes'  BY <1>1, <2>1, <2>2, Carried, Presented DEF VerifyOtp
  <2> QED  BY <1>1, <2>3, Steady DEF AccountsTypes, VerifyOtp
<1>2. CASE InsertUser(w)
  <2>1. issued' = issued  BY <1>2, Steady DEF InsertUser
  <2>2. JobTypes'  BY <1>2, <2>1, Gone DEF InsertUser, At, SameSecret, Steps
  <2> QED  BY <1>2, <2>2, Steady DEF AccountsTypes, InsertUser
<1>3. CASE InsertConflicts(w)
  <2>1. JobTypes'  BY <1>3, Answered, Steady DEF InsertConflicts
  <2> QED  BY <1>3, <2>1, Steady DEF AccountsTypes, InsertConflicts
<1>4. CASE DeleteUserCredentials(w)
  <2>1. issued' = issued /\ IssuedGrows /\ Ids' = Ids  BY <1>4, Steady DEF DeleteUserCredentials
  <2>2. JobTypes'  BY <1>4, <2>1, Gone DEF DeleteUserCredentials, At, SameSecret, Steps
  <2>3. GhostTypes'
    <3>1. pending.code \in Ids \cup {0}  BY NoPendingCode
    <3>2. job[w].code \in Ids  BY <1>0, <1>4 DEF DeleteUserCredentials, At, CodeFits, Presenting
    <3> QED  BY <1>4, <2>1, <3>1, <3>2, SweepTyped DEF DeleteUserCredentials
  <2>4. CodeTypes'
    <3>1. \A t \in lapsed' : t \in lapsed  BY <1>4 DEF DeleteUserCredentials
    <3> QED  BY <1>4, <2>1, <3>1, CodesMove DEF DeleteUserCredentials
  <2> QED  BY <1>4, <2>2, <2>3, <2>4, Steady DEF AccountsTypes, DeleteUserCredentials
<1>5. CASE CommitUser(w)
  <2>1. IssuedGrows /\ Ids' = Ids  BY <1>5, Steady DEF CommitUser
  <2>2. JobTypes'  BY <1>5, <2>1, Answered DEF CommitUser
  <2>3. job[w].code \in Ids
      BY <1>0, <1>5 DEF CommitUser, At, CodeFits, Presenting
  <2>4. GhostTypes'  BY <1>5, <2>1, <2>3, UseTyped DEF CommitUser
  <2>5. UserTypes'
    <3>1. user' = [exists |-> TRUE, pw |-> job[w].pw]  BY <1>5 DEF CommitUser
    <3>2. TRUE \in BOOLEAN  OBVIOUS
    <3>3. \A b \in BOOLEAN, p \in Passwords \cup {None} :
             [exists |-> b, pw |-> p] \in [exists : BOOLEAN, pw : Passwords \cup {None}]
        OBVIOUS
    <3>4. user' \in [exists : BOOLEAN, pw : Passwords \cup {None}]  BY <3>1, <3>2, <3>3, Carried
    <3>5. user'.exists  BY <3>1
    <3> QED  BY <3>4, <3>5 DEF UserTypes
  <2> QED  BY <1>5, <2>2, <2>4, <2>5, Steady DEF AccountsTypes, CommitUser
<1> QED  BY <1>1, <1>2, <1>3, <1>4, <1>5 DEF VerifyOtpRoute

LEMMA LoginTypes ==
    ASSUME AccountsTypes, NEW w \in Workers, LoginRoute(w) \/ SessionUnstored(w)
    PROVE  AccountsTypes'
<1>1. CASE Login(w)
  <2>1. issued' = issued  BY <1>1, Steady DEF Login
  <2>2. JobTypes'
      BY <1>1, <2>1, Begun DEF Login, Steps, Presenting, OtpSteps, PairSteps, CodeSteps, TokenSteps
  <2> QED  BY <1>1, <2>2, Steady DEF AccountsTypes, Login
<1>2. CASE OpenSession(w) \/ SessionUnstored(w)
  <2>1. /\ HandOut("pair", New) /\ Answer(w) /\ UNCHANGED <<user, codes, deny, closed, spared>>
        /\ refresh' \in {refresh, refresh \cup {New}} /\ UNCHANGED ghosts
        /\ faults' = faults \/ Fault
      BY <1>2 DEF OpenSession, SessionUnstored, IssuePair, Issue, sessions
  <2>2. "pair" \in Kinds /\ "pair" \in Pairs  BY DEF Kinds, Pairs
  <2>3. /\ IssuedGrows /\ New \in Ids' /\ Ids' = Ids \cup {New} /\ issued'[New] = "pair"
        /\ \A i \in Ids : issued'[i] = issued[i]
      BY <2>1, <2>2, Issues
  <2>4. UserTypes' /\ CodeTypes' /\ SecretTypes' /\ GhostTypes'
      BY <2>1, <2>2, Growing DEF ghosts, Pairs
  <2>5. SessionTypes'
    <3>1. SessionTypes  BY DEF AccountsTypes
    <3>2. \A d \in [part : {"access", "refresh"}, id : Ids] :
            d \in [part : {"access", "refresh"}, id : Ids']  BY <2>3
    <3>3. deny' \subseteq [part : {"access", "refresh"}, id : Ids']
        BY <2>1, <3>1, <3>2 DEF SessionTypes
    <3>4. refresh' \subseteq {i \in Ids' : issued'[i] \in Pairs}
        BY <2>1, <2>2, <2>3, <3>1 DEF SessionTypes
    <3> QED  BY <2>1, <2>3, <3>1, <3>3, <3>4 DEF SessionTypes
  <2>6. JobTypes'  BY <2>1, <2>3, Answered
  <2> QED  BY <2>4, <2>5, <2>6 DEF AccountsTypes
<1> QED  BY <1>1, <1>2 DEF LoginRoute

LEMMA RefreshTypes ==
    ASSUME AccountsTypes, NEW w \in Workers, RefreshRoute(w) \/ RevokeLost(w)
    PROVE  AccountsTypes'
<1> USE DEF OtpSteps, PairSteps, CodeSteps, TokenSteps
<1>0. CodeFits(job[w]) /\ SessionTypes  BY Carried DEF AccountsTypes
<1>1. ASSUME NEW i \in Ids, Refresh(w, i) PROVE AccountsTypes'
  <2>1. issued[i] \in Pairs /\ "revoke" \in Presenting
      BY <1>1 DEF Refresh, AccountsTypes, SessionTypes, Presenting
  <2>2. issued' = issued  BY <1>1, Steady DEF Refresh
  <2>3. JobTypes'  BY <1>1, <2>1, <2>2, Presented DEF Refresh
  <2> QED  BY <1>1, <2>3, Steady DEF AccountsTypes, Refresh
<1>2. CASE RevokeRefreshToken(w)
  <2>1. issued' = issued /\ Ids' = Ids  BY <1>2, Steady DEF RevokeRefreshToken
  <2>2. JobTypes'  BY <1>2, <2>1, Gone DEF RevokeRefreshToken, At, SameSecret, Steps
  <2>3. job[w].code \in Ids
      BY <1>0, <1>2 DEF RevokeRefreshToken, At, CodeFits, Presenting
  <2>4. SessionTypes'
    <3>1. deny' = deny \cup {[part |-> "refresh", id |-> job[w].code]}
        BY <1>2 DEF RevokeRefreshToken
    <3>2. deny' \subseteq [part : {"access", "refresh"}, id : Ids]
        BY <1>0, <2>3, <3>1 DEF SessionTypes
    <3>3. closed' = closed /\ spared' = spared /\ refresh' \subseteq refresh
        BY <1>2 DEF RevokeRefreshToken
    <3> QED  BY <1>0, <2>1, <3>2, <3>3 DEF SessionTypes
  <2> QED  BY <1>2, <2>2, <2>4, Steady DEF AccountsTypes, RevokeRefreshToken
<1>3. CASE Reissue(w)
  <2>1. job[w].code \in Ids
      BY <1>0, <1>3 DEF Reissue, At, CodeFits, Presenting
  <2>2. root[job[w].code] \in Ids  BY <2>1 DEF AccountsTypes, SecretTypes
  <2>3. PICK from \in Ids \cup {New} : HandOut("rotated", from)  BY <1>3, <2>2 DEF Reissue
  <2>4. "rotated" \in Kinds /\ "rotated" \notin {"reset", "token"}  BY DEF Kinds
  <2>5. IssuedGrows /\ Ids' = Ids \cup {New}  BY <2>3, <2>4, Issues
  <2>6. used' \subseteq used \cup Ids' /\ UNCHANGED <<unrevoked, lost, swept>>
      BY <1>3, <2>1, <2>5 DEF Reissue, Use
  <2>7. UserTypes' /\ CodeTypes' /\ SessionTypes' /\ SecretTypes' /\ GhostTypes'
      BY <1>3, <2>3, <2>4, <2>6, Growing DEF Reissue
  <2>8. JobTypes'  BY <1>3, <2>5, Answered DEF Reissue
  <2> QED  BY <2>7, <2>8 DEF AccountsTypes
<1>4. CASE RevokeLost(w)
  <2>1. issued' = issued /\ Ids' = Ids  BY <1>4, Steady DEF RevokeLost
  <2>2. JobTypes'  BY <1>4, <2>1, Gone DEF RevokeLost, At, SameSecret, Steps
  <2>3. job[w].code \in Ids  BY <1>0, <1>4 DEF RevokeLost, At, CodeFits, Presenting
  <2>4. GhostTypes'  BY <1>4, <2>1, <2>3 DEF RevokeLost, AccountsTypes, GhostTypes
  <2>5. SessionTypes'
    <3>1. UNCHANGED <<deny, closed, spared>> /\ refresh' \subseteq refresh
        BY <1>4 DEF RevokeLost
    <3> QED  BY <1>0, <2>1, <3>1 DEF SessionTypes
  <2>6. faults' = faults \/ Fault  BY <1>4 DEF RevokeLost
  <2> QED  BY <1>4, <2>2, <2>4, <2>5, <2>6, Steady DEF AccountsTypes, RevokeLost
<1> QED  BY <1>1, <1>2, <1>3, <1>4 DEF RefreshRoute

LEMMA BeforeTyped ==
    ASSUME AccountsTypes, NEW w \in Workers
    PROVE  Before(w) \subseteq Ids
<1>1. 1..job[w].upto \subseteq Ids  BY Carried, AccountsBounds DEF Ids
<1> QED  BY <1>1 DEF Before, AccountsTypes, SecretTypes

LEMMA LogoutTypes ==
    ASSUME AccountsTypes, NEW w \in Workers,
           LogoutRoute(w) \/ DenyLost(w) \/ InvalidateLost(w)
    PROVE  AccountsTypes'
<1> USE DEF OtpSteps, PairSteps, CodeSteps, TokenSteps, Presenting
<1>0. /\ job[w].seen \subseteq Ids /\ job[w].upto \in 0..Len(issued) /\ SessionTypes
    BY Carried DEF AccountsTypes
<1>1. ASSUME NEW i \in Ids, Logout(w, i) PROVE AccountsTypes'
  <2> USE AccountsBounds
  <2>1. IssuedGrows /\ Ids' = Ids /\ issued' = issued  BY <1>1, Steady DEF Logout
  <2>2. PICK j \in Jobs(Len(issued)) : j = Idle /\ j.code = 0
      BY IdleTyped
  <2>3. [j EXCEPT !.pc = "deny", !.seen = {i}, !.upto = Len(issued)] \in Jobs(Len(issued'))
    <3>1. {i} \in SUBSET (1..Len(issued')) /\ Len(issued) \in 0..Len(issued')
        BY <2>1 DEF Ids
    <3>2. "deny" \in Steps  BY DEF Steps
    <3>3. PICK S \in SUBSET (1..Len(issued')) : S = {i}  BY <3>1
    <3>4. [j EXCEPT !.pc = "deny", !.seen = S, !.upto = Len(issued)] \in Jobs(Len(issued'))
        BY <2>1, <3>1, <3>2 DEF Jobs
    <3> QED  BY <3>3, <3>4
  <2>4. PICK row \in Jobs(Len(issued')) :
          row = [j EXCEPT !.pc = "deny", !.seen = {i}, !.upto = Len(issued)]
      BY <2>3
  <2>5. row.pc = "deny" /\ row.code = 0  BY <2>2, <2>4 DEF Jobs
  <2>6. CodeFits(row)'  BY <2>5 DEF CodeFits
  <2>7. job' = [job EXCEPT ![w] = row]  BY <1>1, <2>2, <2>4 DEF Logout
  <2>8. JobTypes'  BY <2>1, <2>6, <2>7, WorkerMoves
  <2> QED  BY <1>1, <2>8, Steady DEF AccountsTypes, Logout
<1>2. CASE DenyToken(w)
  <2>1. issued' = issued /\ Ids' = Ids  BY <1>2, Steady DEF DenyToken
  <2>2. JobTypes'  BY <1>2, <2>1, Gone DEF DenyToken, At, SameSecret, Steps
  <2>3. deny' \subseteq [part : {"access", "refresh"}, id : Ids]
      BY <1>0, <1>2 DEF DenyToken, SessionTypes
  <2>4. SessionTypes'  BY <1>0, <1>2, <2>1, <2>3 DEF SessionTypes, DenyToken
  <2> QED  BY <1>2, <2>2, <2>4, Steady DEF AccountsTypes, DenyToken
<1>3. CASE ScanSessions(w)
  <2> USE AccountsBounds
  <2>1. IssuedGrows /\ Ids' = Ids /\ issued' = issued  BY <1>3, Steady DEF ScanSessions
  <2>2. PICK j \in Jobs(Len(issued)) : j = job[w]  OBVIOUS
  <2>3. refresh \in SUBSET (1..Len(issued))  BY <1>0 DEF SessionTypes, Ids
  <2>4. [j EXCEPT !.pc = "delete", !.seen = refresh] \in Jobs(Len(issued'))
      BY <2>1, <2>3 DEF Jobs, Steps
  <2>5. PICK row \in Jobs(Len(issued')) : row = [j EXCEPT !.pc = "delete", !.seen = refresh]
      BY <2>4
  <2>6. row.pc = "delete" /\ row.code = j.code  BY <2>5 DEF Jobs
  <2>7. j.code = 0  BY <1>3, <2>2, Carried DEF ScanSessions, At, CodeFits
  <2>8. CodeFits(row)'  BY <2>6, <2>7 DEF CodeFits
  <2>9. job' = [job EXCEPT ![w] = row]  BY <1>3, <2>2, <2>5 DEF ScanSessions
  <2>10. JobTypes'  BY <2>1, <2>8, <2>9, WorkerMoves
  <2> QED  BY <1>3, <2>10, Steady DEF AccountsTypes, ScanSessions
<1>4. CASE DeleteSessions(w)
  <2>1. Ids' = Ids /\ issued' = issued /\ IssuedGrows  BY <1>4, Steady DEF DeleteSessions
  <2>2. JobTypes'  BY <1>4, <2>1, Answered DEF DeleteSessions
  <2>3. SessionTypes'  BY <1>0, <1>4, <2>1, BeforeTyped DEF SessionTypes, DeleteSessions
  <2> QED  BY <1>4, <2>2, <2>3, Steady DEF AccountsTypes, DeleteSessions
<1>5. CASE DenyLost(w)
  <2>1. issued' = issued  BY <1>5, Steady DEF DenyLost
  <2>2. JobTypes'  BY <1>5, <2>1, Gone DEF DenyLost, At, SameSecret, Steps
  <2>3. faults' = faults \/ Fault  BY <1>5 DEF DenyLost
  <2> QED  BY <1>5, <2>2, <2>3, Steady DEF AccountsTypes, DenyLost
<1>6. CASE InvalidateLost(w)
  <2>1. Ids' = Ids /\ issued' = issued /\ IssuedGrows  BY <1>6, Steady DEF InvalidateLost
  <2>2. JobTypes'  BY <1>6, <2>1, Answered DEF InvalidateLost
  <2>3. {root[i] : i \in refresh \cap (1..job[w].upto)} \subseteq Ids
      BY <1>0 DEF SessionTypes, AccountsTypes, SecretTypes
  <2>4. SessionTypes'  BY <1>0, <1>6, <2>1, <2>3, BeforeTyped DEF SessionTypes, InvalidateLost
  <2>5. faults' = faults \/ Fault  BY <1>6 DEF InvalidateLost
  <2> QED  BY <1>6, <2>2, <2>4, <2>5, Steady DEF AccountsTypes, InvalidateLost
<1> QED  BY <1>1, <1>2, <1>3, <1>4, <1>5, <1>6 DEF LogoutRoute

LEMMA PasswordResetTypes ==
    ASSUME AccountsTypes,
           \/ RequestPasswordReset \/ CodeUnstored
           \/ \E w \in Workers : VerifyCodeRoute(w) \/ TokenUnstored(w)
    PROVE  AccountsTypes'
<1> USE DEF OtpSteps, PairSteps, CodeSteps, TokenSteps
<1>0. /\ user # NoUser => user.exists
      /\ resetCode # 0 => resetCode \in Ids /\ issued[resetCode] = "reset"
      /\ "reset" \in Kinds /\ "token" \in Kinds
  <2>1. resetCode # 0 => resetCode \in Ids /\ issued[resetCode] = "reset"
      BY AccountsBounds DEF AccountsTypes, CodeTypes, Ids
  <2> QED  BY <2>1 DEF AccountsTypes, UserTypes, Kinds
<1>1. CASE RequestPasswordReset
  <2>1. HandOut("reset", New)  BY <1>1 DEF RequestPasswordReset, StoreResetCode, Issue
  <2>2. /\ IssuedGrows /\ New \in Ids' /\ issued'[New] = "reset"
      BY <1>0, <2>1, Issues
  <2>3. UserTypes' /\ SessionTypes' /\ SecretTypes' /\ GhostTypes'
      BY <1>0, <1>1, <2>1, Growing DEF RequestPasswordReset, ghosts
  <2>4. CodeTypes'
      BY <1>1, <2>2, CodesMove DEF RequestPasswordReset, StoreResetCode
  <2>5. JobTypes'  BY <1>1, <2>2, JobsStay DEF RequestPasswordReset
  <2> QED  BY <2>3, <2>4, <2>5 DEF AccountsTypes
<1>2. CASE CodeUnstored
  <2>1. HandOut("reset", New)  BY <1>2 DEF CodeUnstored, Issue
  <2>2. IssuedGrows /\ New \in Ids'  BY <1>0, <2>1, Issues
  <2>3. UserTypes' /\ CodeTypes' /\ SessionTypes' /\ SecretTypes' /\ GhostTypes'
      BY <1>0, <1>2, <2>1, <2>2, Growing DEF CodeUnstored
  <2>4. JobTypes'  BY <1>2, <2>2, JobsStay DEF CodeUnstored
  <2> QED  BY <2>3, <2>4 DEF AccountsTypes
<1>3. ASSUME NEW w \in Workers, VerifyResetCode(w) PROVE AccountsTypes'
  <2>1. "spendCode" \in Presenting  BY DEF Presenting
  <2>2. issued' = issued  BY <1>3, Steady DEF VerifyResetCode
  <2>3. JobTypes'
      BY <1>0, <1>3, <2>1, <2>2, Presented DEF VerifyResetCode
  <2> QED  BY <1>3, <2>3, Steady DEF AccountsTypes, VerifyResetCode
<1>4. ASSUME NEW w \in Workers, SpendCode(w) PROVE AccountsTypes'
  <2>1. issued' = issued /\ IssuedGrows /\ Ids' = Ids  BY <1>4, Steady DEF SpendCode
  <2>2. JobTypes'  BY <1>4, <2>1, Gone DEF SpendCode, At, SameSecret, Steps
  <2>3. job[w].code \in Ids  BY <1>4, Carried DEF SpendCode, At, CodeFits, Presenting
  <2>4. GhostTypes'  BY <1>0, <1>4, <2>1, <2>3, SweepTyped DEF SpendCode
  <2>5. CodeTypes'  BY <1>4, <2>1, CodesMove DEF SpendCode
  <2> QED  BY <1>4, <2>2, <2>4, <2>5, Steady DEF AccountsTypes, SpendCode
<1>5. ASSUME NEW w \in Workers, At(w, "storeToken") PROVE job[w].code \in Ids /\ user.exists
  <2>1. job[w].code \in Ids /\ issued[job[w].code] = "reset"
      BY <1>5, Carried DEF At, CodeFits, Presenting
  <2> QED  BY <2>1 DEF AccountsTypes, UserTypes
<1>6. ASSUME NEW w \in Workers, StoreResetToken(w) \/ TokenUnstored(w) PROVE AccountsTypes'
  <2>1. job[w].code \in Ids /\ user.exists  BY <1>5, <1>6 DEF StoreResetToken, TokenUnstored
  <2>2. HandOut("token", New)  BY <1>6 DEF StoreResetToken, TokenUnstored, Issue
  <2>3. /\ IssuedGrows /\ New \in Ids' /\ Ids' = Ids \cup {New} /\ issued'[New] = "token"
      BY <1>0, <2>2, Issues
  <2>4. /\ used' = used \cup {job[w].code} /\ lost' \subseteq lost \cup {New}
        /\ UNCHANGED <<user, sessions, unrevoked, swept>> /\ (faults' = faults \/ Fault)
      BY <1>6 DEF StoreResetToken, TokenUnstored, Use
  <2>5. UserTypes' /\ SessionTypes' /\ SecretTypes' /\ GhostTypes'
      BY <1>0, <2>1, <2>2, <2>3, <2>4, Growing
  <2>6. CodeTypes'
    <3>1. /\ UNCHANGED <<pending, resetCode, lapsed>>
          /\ resetTokens' \subseteq resetTokens \cup {New}
        BY <1>6 DEF StoreResetToken, TokenUnstored, codes
    <3> QED  BY <2>3, <3>1, CodesMove
  <2>7. JobTypes'  BY <1>6, <2>3, Answered DEF StoreResetToken, TokenUnstored
  <2> QED  BY <2>5, <2>6, <2>7 DEF AccountsTypes
<1> QED  BY <1>1, <1>2, <1>3, <1>4, <1>6 DEF VerifyCodeRoute

LEMMA ConfirmTypes ==
    ASSUME AccountsTypes, NEW w \in Workers, ConfirmReset(w)
    PROVE  AccountsTypes'
<1> USE DEF OtpSteps, PairSteps, CodeSteps, TokenSteps
<1>0. resetCode \in Ids \cup {0}
    BY AccountsBounds DEF AccountsTypes, CodeTypes, Ids
<1>1. ASSUME NEW t \in Ids, NEW p \in Passwords, ResetPassword(w, t, p) PROVE AccountsTypes'
  <2>1. issued[t] = "token" /\ "spendToken" \in Presenting
      BY <1>1 DEF ResetPassword, AccountsTypes, CodeTypes, Presenting
  <2>2. issued' = issued  BY <1>1, Steady DEF ResetPassword
  <2>3. JobTypes'  BY <1>1, <2>1, <2>2, Presented DEF ResetPassword
  <2> QED  BY <1>1, <2>3, Steady DEF AccountsTypes, ResetPassword
<1>2. CASE SpendToken(w)
  <2>1. issued' = issued /\ IssuedGrows  BY <1>2, Steady DEF SpendToken
  <2>2. JobTypes'  BY <1>2, <2>1, Gone DEF SpendToken, At, SameSecret, Steps
  <2>3. CodeTypes'
    <3>1. \A t \in resetTokens' : t \in resetTokens  BY <1>2 DEF SpendToken
    <3> QED  BY <1>2, <2>1, <3>1, CodesMove DEF SpendToken
  <2> QED  BY <1>2, <2>2, <2>3, Steady DEF AccountsTypes, SpendToken
<1>3. CASE SetPassword(w)
  <2>1. issued' = issued /\ Ids' = Ids  BY <1>3, Steady DEF SetPassword
  <2>2. JobTypes'  BY <1>3, <2>1, Gone DEF SetPassword, At, SameSecret, Steps
  <2>3. job[w].code \in Ids /\ issued[job[w].code] = "token"
    <3>1. CodeFits(job[w]) /\ job[w].pc = "setPassword"  BY <1>3, Carried DEF SetPassword, At
    <3> QED  BY <3>1 DEF CodeFits, Presenting
  <2>4. GhostTypes'  BY <1>3, <2>1, <2>3, UseTyped DEF SetPassword
  <2>5. UserTypes'
    <3>1. PICK u \in [exists : BOOLEAN, pw : Passwords \cup {None}] : u = user
        BY DEF AccountsTypes, UserTypes
    <3>2. u.exists  BY <2>3, <3>1 DEF AccountsTypes, UserTypes
    <3>3. PICK p \in Passwords \cup {None} : p = job[w].pw  BY Carried
    <3>4. user' = [u EXCEPT !.pw = p]  BY <1>3, <3>1, <3>3 DEF SetPassword
    <3>5. user' \in [exists : BOOLEAN, pw : Passwords \cup {None}]  BY <3>4
    <3>6. user'.exists = u.exists  BY <3>4
    <3> QED  BY <3>2, <3>5, <3>6 DEF UserTypes
  <2> QED  BY <1>3, <2>2, <2>4, <2>5, Steady DEF AccountsTypes, SetPassword
<1>4. CASE DeleteResetCode(w)
  <2>1. issued' = issued /\ IssuedGrows /\ Ids' = Ids  BY <1>4, Steady DEF DeleteResetCode
  <2>2. JobTypes'  BY <1>4, <2>1, Answered DEF DeleteResetCode
  <2>3. job[w].code \in Ids  BY <1>4, Carried DEF DeleteResetCode, At, CodeFits, Presenting
  <2>4. GhostTypes'  BY <1>0, <1>4, <2>1, <2>3, SweepTyped DEF DeleteResetCode
  <2>5. CodeTypes'  BY <1>4, <2>1, CodesMove DEF DeleteResetCode
  <2> QED  BY <1>4, <2>2, <2>4, <2>5, Steady DEF AccountsTypes, DeleteResetCode
<1> QED  BY <1>1, <1>2, <1>3, <1>4 DEF ConfirmReset

LEMMA OutsideTypes ==
    ASSUME AccountsTypes,
           Lapses \/ SignInWithGoogle \/ \E w \in Workers : Fails(w)
    PROVE  AccountsTypes'
<1>0. /\ resetCode # 0 => resetCode \in Ids
      /\ pending # NoPending => pending.code \in Ids
      /\ resetTokens \subseteq Ids
  <2>1. resetCode # 0 => resetCode \in Ids
      BY AccountsBounds DEF AccountsTypes, CodeTypes, Ids
  <2> QED  BY <2>1, NoPendingCode DEF AccountsTypes, CodeTypes
<1>1. CASE RegistrationLapses
  <2>1. CodeTypes'  BY <1>0, <1>1, Steady, CodesMove DEF RegistrationLapses
  <2> QED  BY <1>1, <2>1, Steady DEF AccountsTypes, RegistrationLapses
<1>2. CASE CodeLapses
  <2>1. CodeTypes'  BY <1>0, <1>2, Steady, CodesMove DEF CodeLapses
  <2> QED  BY <1>2, <2>1, Steady DEF AccountsTypes, CodeLapses
<1>3. ASSUME NEW t \in resetTokens, TokenLapses(t) PROVE AccountsTypes'
  <2>1. CodeTypes'
    <3>1. \A u \in resetTokens' : u \in resetTokens  BY <1>3 DEF TokenLapses
    <3> QED  BY <1>0, <1>3, <3>1, Steady, CodesMove DEF TokenLapses
  <2> QED  BY <1>3, <2>1, Steady DEF AccountsTypes, TokenLapses
<1>4. ASSUME NEW i \in refresh, SessionLapses(i) PROVE AccountsTypes'
  <2>1. issued' = issued /\ Ids' = Ids  BY <1>4, Steady DEF SessionLapses
  <2>2. SessionTypes'  BY <1>4, <2>1 DEF AccountsTypes, SessionTypes, SessionLapses
  <2> QED  BY <1>4, <2>2, Steady DEF AccountsTypes, SessionLapses
<1>5. CASE SignInWithGoogle
  <2>1. PICK u \in [exists : BOOLEAN, pw : Passwords \cup {None}] : u = NoUser
    <3>1. FALSE \in BOOLEAN /\ None \in Passwords \cup {None}  OBVIOUS
    <3>2. \A b \in BOOLEAN, p \in Passwords \cup {None} :
             [exists |-> b, pw |-> p] \in [exists : BOOLEAN, pw : Passwords \cup {None}]
        OBVIOUS
    <3> QED  BY <3>1, <3>2 DEF NoUser
  <2>2. user' = [u EXCEPT !.exists = TRUE]  BY <1>5, <2>1 DEF SignInWithGoogle
  <2>3. user' \in [exists : BOOLEAN, pw : Passwords \cup {None}] /\ user'.exists  BY <2>2
  <2>4. UserTypes'  BY <2>3 DEF UserTypes
  <2> QED  BY <1>5, <2>4, Steady DEF AccountsTypes, SignInWithGoogle
<1>6. ASSUME NEW w \in Workers, Fails(w) PROVE AccountsTypes'
  <2>1. IssuedGrows /\ Ids' = Ids  BY <1>6, Steady DEF Fails
  <2>2. JobTypes'  BY <1>6, <2>1, Answered DEF Fails
  <2>3. job[w].pc \in Taken => job[w].code \in Ids
      BY Carried DEF Taken, CodeFits, Presenting, OtpSteps, PairSteps, CodeSteps, TokenSteps
  <2>4. GhostTypes'
    <3>1. lost' \subseteq Ids
      <4>1. CASE job[w].pc \in Taken
          BY <1>6, <2>3, <4>1 DEF Fails, AccountsTypes, GhostTypes
      <4>2. CASE job[w].pc \notin Taken
          BY <1>6, <4>2 DEF Fails, AccountsTypes, GhostTypes
      <4> QED  BY <4>1, <4>2
    <3> QED  BY <1>6, <2>1, <3>1 DEF Fails, AccountsTypes, GhostTypes
  <2>5. faults' = faults \/ Fault  BY <1>6 DEF Fails
  <2> QED  BY <1>6, <2>2, <2>4, <2>5, Steady DEF AccountsTypes, Fails
<1> QED  BY <1>1, <1>2, <1>3, <1>4, <1>5, <1>6 DEF Lapses

LEMMA AccountsTypesStep == ASSUME AccountsTypes, [Next]_vars PROVE AccountsTypes'
<1>1. CASE Next
    BY <1>1, RegistrationTypes, VerifyOtpTypes, LoginTypes, RefreshTypes, LogoutTypes,
       PasswordResetTypes, ConfirmTypes, OutsideTypes DEF Next, Failures
<1>2. CASE UNCHANGED vars
  <2>1. UNCHANGED <<user, job, faults, secrets, ghosts, codes, sessions>>
      BY <1>2 DEF vars
  <2> QED  BY <2>1, Steady DEF AccountsTypes
<1> QED  BY <1>1, <1>2

LEMMA AccountsTypesInit == Init => AccountsTypes
<1> SUFFICES ASSUME Init PROVE AccountsTypes  OBVIOUS
<1>1. issued = <<>> /\ Len(issued) = 0 /\ Ids = {}  BY DEF Init, Ids
<1>2. FALSE \in BOOLEAN /\ None \in Passwords \cup {None}  OBVIOUS
<1>3. UserTypes
  <2>1. \A b \in BOOLEAN, p \in Passwords \cup {None} :
             [exists |-> b, pw |-> p] \in [exists : BOOLEAN, pw : Passwords \cup {None}]
      OBVIOUS
  <2> QED  BY <1>1, <1>2, <2>1 DEF Init, UserTypes, NoUser
<1>4. CodeTypes  BY <1>1 DEF Init, CodeTypes, NoPending
<1>5. SessionTypes /\ GhostTypes  BY <1>1 DEF Init, SessionTypes, GhostTypes
<1>6. SecretTypes
  <2>1. issued \in Seq(Kinds)  BY <1>1
  <2>2. root \in [Ids -> Ids]  BY <1>1 DEF Init
  <2> QED  BY <1>1, <2>1, <2>2, AccountsAssumption DEF Init, SecretTypes
<1>7. JobTypes
  <2>1. Idle \in Jobs(0) /\ CodeFits(Idle)  BY IdleTyped
  <2> QED  BY <1>1, <2>1 DEF Init, JobTypes
<1> QED  BY <1>3, <1>4, <1>5, <1>6, <1>7 DEF AccountsTypes

-----------------------------------------------------------------------------
\* Every secret works once: what has had its effect is not available any more, and neither is
\* what a request is about to give its effect.

Available(c) == Stored(c) \/ c \in refresh
SpentSteps == {"commit", "reissue", "storeToken", "setPassword", "forgetCode"}
Taking(c) == c \in used \/ \E w \in Workers : job[w].code = c /\ job[w].pc \in SpentSteps
SpentOnce == \A c \in Ids \ unrevoked : Taking(c) => ~Available(c)

\* A secret is only kept where its kind is kept.
LEMMA KeptApart ==
    ASSUME AccountsTypes, NEW c \in Ids
    PROVE  /\ c # 0
           /\ c = pending.code => issued[c] = "otp"
           /\ c = resetCode => issued[c] = "reset"
           /\ c \in resetTokens => issued[c] = "token"
           /\ c \in refresh => issued[c] \in Pairs
           /\ issued[c] \in Pairs => issued[c] \notin {"otp", "reset", "token"}
<1>1. c # 0  BY AccountsBounds DEF Ids
<1>2. c = pending.code => issued[c] = "otp"  BY <1>1, NoPendingCode
<1>3. c = resetCode => issued[c] = "reset"  BY <1>1 DEF AccountsTypes, CodeTypes
<1>4. c \in resetTokens => issued[c] = "token"  BY DEF AccountsTypes, CodeTypes
<1>5. c \in refresh => issued[c] \in Pairs  BY DEF AccountsTypes, SessionTypes
<1>6. \A p \in Pairs : p \notin {"otp", "reset", "token"}  BY DEF Pairs
<1> QED  BY <1>1, <1>2, <1>3, <1>4, <1>5, <1>6

\* Nothing that was deleted comes back.
LEMMA NotAgain ==
    ASSUME AccountsTypes,
           pending'.code = pending.code \/ pending'.code \notin Ids,
           resetCode' = resetCode \/ resetCode' \notin Ids,
           \A t \in resetTokens' : t \in resetTokens \/ t \notin Ids,
           \A i \in refresh' : i \in refresh \/ i \notin Ids
    PROVE  \A c \in Ids : Available(c)' => Available(c)
BY DEF Available, Stored

LEMMA NoneBack ==
    ASSUME AccountsTypes, UNCHANGED <<codes, sessions>>
    PROVE  \A c \in Ids : Available(c)' => Available(c)
<1>1. UNCHANGED <<pending, resetCode, resetTokens, refresh>>  BY DEF codes, sessions
<1> QED  BY <1>1 DEF Available, Stored

LEMMA OnceKept ==
    ASSUME AccountsTypes, SpentOnce, Ids \subseteq Ids', unrevoked \subseteq unrevoked',
           \A c \in Ids : Available(c)' => Available(c),
           \A c \in used' : c \in used \/
               \E v \in Workers : job[v].code = c /\ job[v].pc \in SpentSteps,
           \A v \in Workers : job'[v].pc \in SpentSteps =>
               /\ job'[v].code = job[v].code
               /\ \/ job[v].pc \in SpentSteps
                  \/ \A c \in Ids \ unrevoked' : c = job[v].code => ~Available(c)'
    PROVE  SpentOnce'
<1> SUFFICES ASSUME NEW c \in Ids', c \notin unrevoked', Taking(c)' PROVE ~Available(c)'
    BY DEF SpentOnce
<1>1. c \in Ids
  <2>1. \A v \in Workers : job[v].code = c => c \in Ids
    <3>1. \A v \in Workers : job[v].code \in 0..Len(issued)  BY Carried
    <3>2. \A i \in 0..Len(issued) : i # 0 => i \in Ids  BY AccountsBounds DEF Ids
    <3>3. c # 0  BY DEF Ids
    <3> QED  BY <3>1, <3>2, <3>3
  <2>2. c \in used => c \in Ids  BY DEF AccountsTypes, GhostTypes
  <2>3. c \in used' \/ \E w \in Workers : job'[w].code = c /\ job'[w].pc \in SpentSteps
      BY DEF Taking
  <2> QED  BY <2>1, <2>2, <2>3
<1>2. c \notin unrevoked  OBVIOUS
<1>3. CASE Taking(c)  BY <1>1, <1>2, <1>3 DEF SpentOnce
<1>4. CASE ~Taking(c)
  <2>1. c \notin used'  BY <1>4 DEF Taking
  <2>2. PICK v \in Workers : job'[v].code = c /\ job'[v].pc \in SpentSteps
      BY <2>1 DEF Taking
  <2>3. job[v].code = c /\ job[v].pc \notin SpentSteps  BY <1>4, <2>2 DEF Taking
  <2> QED  BY <1>1, <2>2, <2>3
<1> QED  BY <1>3, <1>4

\* No request takes a secret in this step.
Calm == \A v \in Workers : job'[v].pc \in SpentSteps => job'[v] = job[v]

LEMMA CalmOnce ==
    ASSUME AccountsTypes, SpentOnce, Ids \subseteq Ids', unrevoked' = unrevoked, Calm,
           \A c \in Ids : Available(c)' => Available(c),
           \A c \in used' : c \in used \/
               \E v \in Workers : job[v].code = c /\ job[v].pc \in SpentSteps
    PROVE  SpentOnce'
<1>1. \A v \in Workers : job'[v].pc \in SpentSteps =>
          job'[v].code = job[v].code /\ job[v].pc \in SpentSteps
    BY DEF Calm
<1> QED  BY <1>1, OnceKept

\* One request moves on to step pc.
Lands(w, pc) == (\A v \in Workers : v # w => job'[v] = job[v]) /\ job'[w].pc = pc

LEMMA Landing ==
    ASSUME AccountsTypes, NEW w \in Workers
    PROVE  /\ Answer(w) => Lands(w, "idle")
           /\ \A pc \in Steps : Goto(w, pc) => Lands(w, pc) /\ job'[w].code = job[w].code
           /\ \A pc \in Steps, pw \in Passwords \cup {None} : Begin(w, pc, pw) => Lands(w, pc)
           /\ \A pc \in Steps, pw \in Passwords \cup {None}, c \in 0..Len(issued) :
                  Present(w, c, pc, pw) => Lands(w, pc)
           /\ \A d \in Ids : Logout(w, d) => Lands(w, "deny")
           /\ ScanSessions(w) => Lands(w, "delete")
<1> USE AccountsBounds
<1>1. PICK j \in Jobs(Len(issued)) : j = job[w]  OBVIOUS
<1>2. PICK i \in Jobs(Len(issued)) : i = Idle /\ i.pc = "idle"  BY IdleTyped
<1>3. ASSUME NEW row, job' = [job EXCEPT ![w] = row]
      PROVE  Lands(w, row.pc) /\ job'[w] = row
    BY <1>3 DEF Lands
<1>4. Answer(w) => Lands(w, "idle")  BY <1>2, <1>3 DEF Answer
<1>5. ASSUME NEW pc \in Steps, Goto(w, pc)
      PROVE  Lands(w, pc) /\ job'[w].code = job[w].code
  <2>1. job' = [job EXCEPT ![w] = [j EXCEPT !.pc = pc]]  BY <1>1, <1>5 DEF Goto
  <2>2. [j EXCEPT !.pc = pc].code = j.code /\ [j EXCEPT !.pc = pc].pc = pc  BY DEF Jobs
  <2>3. Lands(w, [j EXCEPT !.pc = pc].pc) /\ job'[w] = [j EXCEPT !.pc = pc]  BY <1>3, <2>1
  <2> QED  BY <1>1, <2>2, <2>3
<1>6. ASSUME NEW pc \in Steps, NEW pw \in Passwords \cup {None}, Begin(w, pc, pw)
      PROVE  Lands(w, pc)
  <2>1. [i EXCEPT !.pc = pc, !.pw = pw].pc = pc  BY DEF Jobs
  <2>2. job' = [job EXCEPT ![w] = [i EXCEPT !.pc = pc, !.pw = pw]]  BY <1>2, <1>6 DEF Begin
  <2> QED  BY <1>3, <2>1, <2>2
<1>7. ASSUME NEW pc \in Steps, NEW pw \in Passwords \cup {None}, NEW c \in 0..Len(issued),
             Present(w, c, pc, pw)
      PROVE  Lands(w, pc)
  <2>1. [i EXCEPT !.pc = pc, !.code = c, !.pw = pw].pc = pc  BY DEF Jobs
  <2>2. job' = [job EXCEPT ![w] = [i EXCEPT !.pc = pc, !.code = c, !.pw = pw]]
      BY <1>2, <1>7 DEF Present
  <2> QED  BY <1>3, <2>1, <2>2
<1>8. ASSUME NEW d \in Ids, Logout(w, d) PROVE Lands(w, "deny")
  <2>1. [i EXCEPT !.pc = "deny", !.seen = {d}, !.upto = Len(issued)].pc = "deny"  BY DEF Jobs
  <2>2. job' = [job EXCEPT ![w] = [i EXCEPT !.pc = "deny", !.seen = {d}, !.upto = Len(issued)]]
      BY <1>2, <1>8 DEF Logout
  <2> QED  BY <1>3, <2>1, <2>2
<1>9. ASSUME ScanSessions(w) PROVE Lands(w, "delete")
  <2>1. [j EXCEPT !.pc = "delete", !.seen = refresh].pc = "delete"  BY DEF Jobs
  <2>2. job' = [job EXCEPT ![w] = [j EXCEPT !.pc = "delete", !.seen = refresh]]
      BY <1>1, <1>9 DEF ScanSessions
  <2> QED  BY <1>3, <2>1, <2>2
<1> QED  BY <1>4, <1>5, <1>6, <1>7, <1>8, <1>9

LEMMA Moves ==
    ASSUME AccountsTypes, NEW w \in Workers
    PROVE  /\ Answer(w) => Calm
           /\ \A pc \in Steps \ SpentSteps : Goto(w, pc) => Calm
           /\ \A pc \in Steps \ SpentSteps, pw \in Passwords \cup {None} : Begin(w, pc, pw) => Calm
           /\ \A pc \in Steps \ SpentSteps, pw \in Passwords \cup {None}, c \in Ids :
                  Present(w, c, pc, pw) => Calm
           /\ \A d \in Ids : Logout(w, d) => Calm
           /\ ScanSessions(w) => Calm
<1>1. \A pc \in Steps \ SpentSteps : Lands(w, pc) => Calm  BY DEF Lands, Calm
<1>2. {"idle", "deny", "delete"} \subseteq Steps \ SpentSteps  BY DEF Steps, SpentSteps
<1>3. Ids \subseteq 0..Len(issued)  BY DEF Ids
<1> QED  BY <1>1, <1>2, <1>3, Landing

LEMMA QuietOnce ==
    ASSUME AccountsTypes, SpentOnce, UNCHANGED ghosts, Calm,
           UNCHANGED secrets \/ \E kind \in Kinds, from \in Ids \cup {New} : HandOut(kind, from),
           \A c \in Ids : Available(c)' => Available(c)
    PROVE  SpentOnce'
<1>1. Ids \subseteq Ids'  BY Steady, Issues
<1>2. UNCHANGED <<used, unrevoked>>  BY DEF ghosts
<1> QED  BY <1>1, <1>2, CalmOnce

\* A request gives its secret its effect.
LEMMA UsedOnce ==
    ASSUME AccountsTypes, SpentOnce, Ids \subseteq Ids', NEW w \in Workers,
           job[w].pc \in SpentSteps, used' = used \cup {job[w].code}, unrevoked' = unrevoked,
           \A v \in Workers : v # w => job'[v] = job[v],
           job'[w].pc \in SpentSteps => job'[w].code = job[w].code,
           \A c \in Ids : Available(c)' => Available(c)
    PROVE  SpentOnce'
<1>1. \A v \in Workers : job'[v].pc \in SpentSteps =>
          job'[v].code = job[v].code /\ job[v].pc \in SpentSteps
  <2>1. \A v \in Workers : v # w => job'[v].code = job[v].code /\ job'[v].pc = job[v].pc
      OBVIOUS
  <2> QED  BY <2>1
<1>2. \A c \in used' : c \in used \/
          \E v \in Workers : job[v].code = c /\ job[v].pc \in SpentSteps
    OBVIOUS
<1> QED  BY <1>1, <1>2, OnceKept

\* A request takes its secret: no other can take it up any more.
LEMMA TakenOnce ==
    ASSUME AccountsTypes, SpentOnce, Ids' = Ids, NEW w \in Workers,
           NEW pc \in Steps, Goto(w, pc),
           used' = used, unrevoked \subseteq unrevoked',
           \A c \in Ids : Available(c)' => Available(c),
           \A c \in Ids \ unrevoked' : c = job[w].code => ~Available(c)'
    PROVE  SpentOnce'
<1>1. \A v \in Workers : v # w => job'[v] = job[v]  BY Landing DEF Lands
<1>2. job'[w].code = job[w].code  BY Landing
<1>3. ASSUME NEW v \in Workers, job'[v].pc \in SpentSteps
      PROVE  /\ job'[v].code = job[v].code
             /\ \/ job[v].pc \in SpentSteps
                \/ \A c \in Ids \ unrevoked' : c = job[v].code => ~Available(c)'
  <2>1. CASE v = w  BY <1>2, <2>1
  <2>2. CASE v # w  BY <1>1, <1>3, <2>2
  <2> QED  BY <2>1, <2>2
<1> QED  BY <1>3, OnceKept

LEMMA Answering ==
    ASSUME AccountsTypes, NEW w \in Workers, Answer(w)
    PROVE  /\ \A v \in Workers : v # w => job'[v] = job[v]
           /\ job'[w] = Idle /\ job'[w].code = 0 /\ job'[w].pc = "idle"
BY AccountsBounds, IdleTyped DEF Answer

-----------------------------------------------------------------------------
LEMMA RegistrationOnce ==
    ASSUME AccountsTypes, SpentOnce, NEW w \in Workers,
           CompanySignup(w) \/ RequestNewOtp(w) \/ LoginRoute(w) \/ SessionUnstored(w)
    PROVE  SpentOnce'
<1> USE DEF Steps, SpentSteps
<1>1. ASSUME NEW p \in Passwords, Register(w, p) PROVE SpentOnce'
  <2>1. Calm  BY <1>1, Moves DEF Register
  <2> QED  BY <1>1, <2>1, NoneBack, QuietOnce DEF Register
<1>2. CASE ResendOtp(w)
  <2>1. Calm  BY <1>2, Moves, Carried DEF ResendOtp
  <2> QED  BY <1>2, <2>1, NoneBack, QuietOnce DEF ResendOtp
<1>3. CASE StoreUserCredentials(w)
  <2>1. Calm  BY <1>3, Moves DEF StoreUserCredentials
  <2>2. "otp" \in Kinds /\ HandOut("otp", New)  BY <1>3 DEF StoreUserCredentials, Issue, Kinds
  <2>3. New \notin Ids  BY <2>2, Issues
  <2>4. pending'.code = New /\ UNCHANGED <<resetCode, resetTokens, refresh>>
      BY <1>3 DEF StoreUserCredentials, sessions
  <2>5. \A c \in Ids : Available(c)' => Available(c)  BY <2>3, <2>4, NotAgain
  <2> QED  BY <1>3, <2>1, <2>2, <2>5, QuietOnce DEF StoreUserCredentials
<1>4. CASE Login(w)
  <2>1. Calm  BY <1>4, Moves DEF Login
  <2> QED  BY <1>4, <2>1, NoneBack, QuietOnce DEF Login
<1>5. CASE OpenSession(w) \/ SessionUnstored(w)
  <2>1. Calm  BY <1>5, Moves DEF OpenSession, SessionUnstored
  <2>2. "pair" \in Kinds /\ HandOut("pair", New)
      BY <1>5 DEF OpenSession, SessionUnstored, IssuePair, Issue, Kinds
  <2>3. New \notin Ids  BY <2>2, Issues
  <2>4. UNCHANGED <<pending, resetCode, resetTokens>> /\ refresh' \subseteq refresh \cup {New}
      BY <1>5 DEF OpenSession, SessionUnstored, codes, sessions
  <2>5. \A c \in Ids : Available(c)' => Available(c)  BY <2>3, <2>4, NotAgain
  <2> QED  BY <1>5, <2>1, <2>2, <2>5, QuietOnce DEF OpenSession, SessionUnstored
<1> QED  BY <1>1, <1>2, <1>3, <1>4, <1>5 DEF CompanySignup, RequestNewOtp, LoginRoute

LEMMA VerifyOtpOnce ==
    ASSUME AccountsTypes, SpentOnce, NEW w \in Workers, VerifyOtpRoute(w)
    PROVE  SpentOnce'
<1> USE DEF Steps, SpentSteps
<1>1. CASE VerifyOtp(w)
  <2>1. Calm  BY <1>1, Moves, Carried, NoPendingCode DEF VerifyOtp
  <2> QED  BY <1>1, <2>1, NoneBack, QuietOnce DEF VerifyOtp
<1>2. CASE InsertUser(w)
  <2>1. Calm  BY <1>2, Moves DEF InsertUser
  <2> QED  BY <1>2, <2>1, NoneBack, QuietOnce DEF InsertUser
<1>3. CASE InsertConflicts(w)
  <2>1. Calm  BY <1>3, Moves DEF InsertConflicts
  <2> QED  BY <1>3, <2>1, NoneBack, QuietOnce DEF InsertConflicts
<1>4. CASE DeleteUserCredentials(w)
  <2>1. /\ Ids' = Ids /\ issued' = issued /\ pending' = NoPending
        /\ UNCHANGED <<resetCode, resetTokens, refresh, used, unrevoked>>
      BY <1>4, Steady DEF DeleteUserCredentials, sessions, Sweep
  <2>2. pending'.code = 0 /\ 0 \notin Ids  BY <2>1, NoPendingCode, AccountsBounds DEF Ids
  <2>3. \A c \in Ids : Available(c)' => Available(c)  BY <2>1, <2>2, NotAgain
  <2>4. \A c \in Ids : c = job[w].code => issued[c] = "otp"
      BY <1>4, Carried DEF DeleteUserCredentials, At, CodeFits, OtpSteps
  <2>5. \A c \in Ids : c = job[w].code => ~Available(c)'
      BY <2>1, <2>2, <2>4, KeptApart DEF Available, Stored
  <2> QED  BY <1>4, <2>1, <2>3, <2>5, TakenOnce DEF DeleteUserCredentials
<1>5. CASE CommitUser(w)
  <2>1. Ids' = Ids  BY <1>5, Steady DEF CommitUser
  <2>2. job[w].pc \in SpentSteps  BY <1>5 DEF CommitUser, At
  <2>3. used' = used \cup {job[w].code} /\ unrevoked' = unrevoked  BY <1>5 DEF CommitUser, Use
  <2>4. (\A v \in Workers : v # w => job'[v] = job[v]) /\ job'[w].pc = "idle"
      BY <1>5, Answering DEF CommitUser
  <2> QED  BY <1>5, <2>1, <2>2, <2>3, <2>4, NoneBack, UsedOnce DEF CommitUser
<1> QED  BY <1>1, <1>2, <1>3, <1>4, <1>5 DEF VerifyOtpRoute

LEMMA RefreshOnce ==
    ASSUME AccountsTypes, SpentOnce, NEW w \in Workers, RefreshRoute(w) \/ RevokeLost(w)
    PROVE  SpentOnce'
<1> USE DEF Steps, SpentSteps
<1>1. ASSUME NEW i \in Ids, Refresh(w, i) PROVE SpentOnce'
  <2>1. Calm  BY <1>1, Moves DEF Refresh
  <2> QED  BY <1>1, <2>1, NoneBack, QuietOnce DEF Refresh
<1>2. CASE RevokeRefreshToken(w) \/ RevokeLost(w)
  <2>1. /\ Ids' = Ids /\ UNCHANGED <<pending, resetCode, resetTokens, used>>
        /\ unrevoked \subseteq unrevoked' /\ refresh' \subseteq refresh /\ Goto(w, "reissue")
        /\ job[w].code \in refresh' => job[w].code \in unrevoked'
      BY <1>2, Steady DEF RevokeRefreshToken, RevokeLost, codes, ghosts
  <2>2. \A c \in Ids : Available(c)' => Available(c)  BY <2>1, NotAgain
  <2>3. \A c \in Ids : c = job[w].code => issued[c] \in Pairs
      BY <1>2, Carried DEF RevokeRefreshToken, RevokeLost, At, CodeFits, PairSteps
  <2>4. ASSUME NEW c \in Ids \ unrevoked', c = job[w].code PROVE ~Available(c)'
    <3>1. c \notin refresh'  BY <2>1, <2>4
    <3>2. issued[c] \in Pairs  BY <2>3, <2>4
    <3>3. ~Stored(c)  BY <3>2, KeptApart DEF Stored
    <3> QED  BY <2>1, <3>1, <3>3 DEF Available, Stored
  <2> QED  BY <2>1, <2>2, <2>4, TakenOnce
<1>3. CASE Reissue(w)
  <2>1. Ids \subseteq Ids'
    <3>1. job[w].code \in Ids
        BY <1>3, Carried DEF Reissue, At, CodeFits, Presenting, PairSteps
    <3>2. root[job[w].code] \in Ids  BY <3>1 DEF AccountsTypes, SecretTypes
    <3>3. PICK from \in Ids \cup {New} : HandOut("rotated", from)  BY <1>3, <3>2 DEF Reissue
    <3> QED  BY <3>3, Issues DEF Kinds
  <2>2. job[w].pc \in SpentSteps  BY <1>3 DEF Reissue, At
  <2>3. used' = used \cup {job[w].code} /\ unrevoked' = unrevoked  BY <1>3 DEF Reissue, Use
  <2>4. (\A v \in Workers : v # w => job'[v] = job[v]) /\ job'[w].pc = "idle"
      BY <1>3, Answering DEF Reissue
  <2> QED  BY <1>3, <2>1, <2>2, <2>3, <2>4, NoneBack, UsedOnce DEF Reissue
<1> QED  BY <1>1, <1>2, <1>3 DEF RefreshRoute

LEMMA LogoutOnce ==
    ASSUME AccountsTypes, SpentOnce, NEW w \in Workers,
           LogoutRoute(w) \/ DenyLost(w) \/ InvalidateLost(w)
    PROVE  SpentOnce'
<1> USE DEF Steps, SpentSteps
<1>1. UNCHANGED secrets /\ UNCHANGED ghosts /\ UNCHANGED <<pending, resetCode, resetTokens>>
      /\ refresh' \subseteq refresh
    BY DEF LogoutRoute, Logout, DenyToken, ScanSessions, DeleteSessions, DenyLost,
           InvalidateLost, codes, sessions
<1>2. \A c \in Ids : Available(c)' => Available(c)  BY <1>1, NotAgain
<1>3. Calm
    BY Moves DEF LogoutRoute, Logout, DenyToken, ScanSessions, DeleteSessions, DenyLost,
                 InvalidateLost
<1> QED  BY <1>1, <1>2, <1>3, QuietOnce

LEMMA PasswordResetOnce ==
    ASSUME AccountsTypes, SpentOnce, NEW w \in Workers,
           VerifyCodeRoute(w) \/ TokenUnstored(w)
    PROVE  SpentOnce'
<1> USE DEF Steps, SpentSteps
<1>1. CASE VerifyResetCode(w)
  <2>1. resetCode \in Ids
      BY <1>1, AccountsBounds DEF VerifyResetCode, AccountsTypes, CodeTypes, Ids
  <2>2. Calm  BY <1>1, <2>1, Moves DEF VerifyResetCode
  <2> QED  BY <1>1, <2>2, NoneBack, QuietOnce DEF VerifyResetCode
<1>2. CASE SpendCode(w)
  <2>1. /\ Ids' = Ids /\ resetCode' = 0
        /\ UNCHANGED <<pending, resetTokens, refresh, used, unrevoked>>
      BY <1>2, Steady DEF SpendCode, sessions, Sweep
  <2>2. \A c \in Ids : Available(c)' => Available(c)
      BY <2>1, NotAgain, AccountsBounds DEF Ids
  <2>3. \A c \in Ids : c = job[w].code => issued[c] = "reset"
      BY <1>2, Carried DEF SpendCode, At, CodeFits, CodeSteps
  <2>4. \A c \in Ids : c = job[w].code => ~Available(c)'
      BY <2>1, <2>3, KeptApart DEF Available, Stored
  <2> QED  BY <1>2, <2>1, <2>2, <2>4, TakenOnce DEF SpendCode
<1>3. CASE StoreResetToken(w) \/ TokenUnstored(w)
  <2>1. "token" \in Kinds /\ HandOut("token", New)
      BY <1>3 DEF StoreResetToken, TokenUnstored, Issue, Kinds
  <2>2. Ids \subseteq Ids' /\ New \notin Ids  BY <2>1, Issues
  <2>3. UNCHANGED <<pending, resetCode, refresh>> /\ resetTokens' \subseteq resetTokens \cup {New}
      BY <1>3 DEF StoreResetToken, TokenUnstored, codes, sessions
  <2>4. \A c \in Ids : Available(c)' => Available(c)  BY <2>2, <2>3, NotAgain
  <2>5. job[w].pc \in SpentSteps  BY <1>3 DEF StoreResetToken, TokenUnstored, At
  <2>6. used' = used \cup {job[w].code} /\ unrevoked' = unrevoked
      BY <1>3 DEF StoreResetToken, TokenUnstored, Use
  <2>7. (\A v \in Workers : v # w => job'[v] = job[v]) /\ job'[w].pc = "idle"
      BY <1>3, Answering DEF StoreResetToken, TokenUnstored
  <2> QED  BY <2>2, <2>4, <2>5, <2>6, <2>7, UsedOnce
<1> QED  BY <1>1, <1>2, <1>3 DEF VerifyCodeRoute

LEMMA ConfirmOnce ==
    ASSUME AccountsTypes, SpentOnce, NEW w \in Workers, ConfirmReset(w)
    PROVE  SpentOnce'
<1> USE DEF Steps, SpentSteps
<1>1. ASSUME NEW t \in Ids, NEW p \in Passwords, ResetPassword(w, t, p) PROVE SpentOnce'
  <2>1. Calm  BY <1>1, Moves DEF ResetPassword
  <2> QED  BY <1>1, <2>1, NoneBack, QuietOnce DEF ResetPassword
<1>2. CASE SpendToken(w)
  <2>1. /\ Ids' = Ids /\ resetTokens' = resetTokens \ {job[w].code}
        /\ UNCHANGED <<pending, resetCode, refresh, used, unrevoked>>
      BY <1>2, Steady DEF SpendToken, sessions, ghosts
  <2>2. \A c \in Ids : Available(c)' => Available(c)  BY <2>1, NotAgain
  <2>3. \A c \in Ids : c = job[w].code => issued[c] = "token"
      BY <1>2, Carried DEF SpendToken, At, CodeFits, TokenSteps
  <2>4. \A c \in Ids : c = job[w].code => ~Available(c)'
      BY <2>1, <2>3, KeptApart DEF Available, Stored
  <2> QED  BY <1>2, <2>1, <2>2, <2>4, TakenOnce DEF SpendToken
<1>3. CASE SetPassword(w)
  <2>1. Ids' = Ids  BY <1>3, Steady DEF SetPassword
  <2>2. job[w].pc \in SpentSteps  BY <1>3 DEF SetPassword, At
  <2>3. used' = used \cup {job[w].code} /\ unrevoked' = unrevoked  BY <1>3 DEF SetPassword, Use
  <2>4. (\A v \in Workers : v # w => job'[v] = job[v]) /\ job'[w].code = job[w].code
      BY <1>3, Landing DEF SetPassword, Lands
  <2> QED  BY <1>3, <2>1, <2>2, <2>3, <2>4, NoneBack, UsedOnce DEF SetPassword
<1>4. CASE DeleteResetCode(w)
  <2>1. /\ Ids' = Ids /\ resetCode' = 0
        /\ UNCHANGED <<pending, resetTokens, refresh, used, unrevoked>>
      BY <1>4, Steady DEF DeleteResetCode, sessions, Sweep
  <2>2. \A c \in Ids : Available(c)' => Available(c)
      BY <2>1, NotAgain, AccountsBounds DEF Ids
  <2>3. Calm  BY <1>4, Moves DEF DeleteResetCode
  <2> QED  BY <2>1, <2>2, <2>3, CalmOnce
<1> QED  BY <1>1, <1>2, <1>3, <1>4 DEF ConfirmReset

\* What the other actions do: a code is sent, a key expires, a request fails.
LEMMA OutsideOnce ==
    ASSUME AccountsTypes, SpentOnce,
           \/ SignInWithGoogle \/ RequestPasswordReset \/ CodeUnstored \/ Lapses
           \/ \E w \in Workers : Fails(w)
    PROVE  SpentOnce'
<1>1. CASE SignInWithGoogle
  <2>1. Calm  BY <1>1 DEF SignInWithGoogle, Calm
  <2> QED  BY <1>1, <2>1, NoneBack, QuietOnce DEF SignInWithGoogle
<1>2. CASE RequestPasswordReset \/ CodeUnstored
  <2>1. "reset" \in Kinds /\ HandOut("reset", New)
      BY <1>2 DEF RequestPasswordReset, StoreResetCode, CodeUnstored, Issue, Kinds
  <2>2. Ids \subseteq Ids' /\ New \notin Ids  BY <2>1, Issues
  <2>3. UNCHANGED <<pending, refresh, resetTokens, used, unrevoked, job>>
        /\ resetCode' \in {resetCode, New}
      BY <1>2 DEF RequestPasswordReset, StoreResetCode, CodeUnstored, codes, sessions, ghosts
  <2>4. \A c \in Ids : Available(c)' => Available(c)  BY <2>2, <2>3, NotAgain
  <2>5. Calm  BY <2>3 DEF Calm
  <2> QED  BY <2>2, <2>3, <2>4, <2>5, CalmOnce
<1>3. CASE Lapses
  <2>1. /\ UNCHANGED secrets /\ UNCHANGED ghosts /\ job' = job
        /\ pending' \in {pending, NoPending} /\ resetCode' \in {resetCode, 0}
        /\ resetTokens' \subseteq resetTokens /\ refresh' \subseteq refresh
      BY <1>3 DEF Lapses, RegistrationLapses, CodeLapses, TokenLapses, SessionLapses, codes,
                  sessions
  <2>2. \A c \in Ids : Available(c)' => Available(c)
      BY <2>1, NotAgain, NoPendingCode, AccountsBounds DEF Ids
  <2>3. Calm  BY <2>1 DEF Calm
  <2> QED  BY <2>1, <2>2, <2>3, QuietOnce
<1>4. ASSUME NEW w \in Workers, Fails(w) PROVE SpentOnce'
  <2>1. Calm  BY <1>4, Moves DEF Fails
  <2>2. Ids' = Ids /\ UNCHANGED <<used, unrevoked>>  BY <1>4, Steady DEF Fails
  <2> QED  BY <1>4, <2>1, <2>2, NoneBack, CalmOnce DEF Fails
<1> QED  BY <1>1, <1>2, <1>3, <1>4

LEMMA SpentOnceStep == ASSUME AccountsTypes, SpentOnce, [Next]_vars PROVE SpentOnce'
<1>1. CASE Next
    BY <1>1, RegistrationOnce, VerifyOtpOnce, RefreshOnce, LogoutOnce, PasswordResetOnce,
       ConfirmOnce, OutsideOnce DEF Next, Failures
<1>2. CASE UNCHANGED vars
  <2>1. UNCHANGED <<job, secrets, ghosts, codes, sessions>>  BY <1>2 DEF vars
  <2>2. Calm  BY <2>1 DEF Calm
  <2> QED  BY <2>1, <2>2, NoneBack, QuietOnce
<1> QED  BY <1>1, <1>2

LEMMA SpentOnceInit == Init => SpentOnce
BY DEF Init, SpentOnce, Ids, Taking

LEMMA AccountsTypesHold == Spec => []AccountsTypes
<1>1. AccountsTypes /\ [Next]_vars => AccountsTypes'  BY AccountsTypesStep
<1> QED  BY <1>1, AccountsTypesInit, PTL DEF Spec

\* A mailed code, a reset token and a refresh token that has had its effect is not there any
\* more for another request, whatever requests overlap and whatever fails: the code deletes
\* each of them before it acts on it (OneTimeUse).
THEOREM SecretsWorkOnce == Spec => []OneTimeUse
<1>1. AccountsTypes /\ SpentOnce => OneTimeUse
  <2> SUFFICES ASSUME AccountsTypes, SpentOnce, NEW c \in used \ unrevoked
               PROVE  ~Stored(c) /\ c \notin refresh
      BY DEF OneTimeUse
  <2>1. c \in Ids /\ Taking(c)  BY DEF AccountsTypes, GhostTypes, Taking
  <2> QED  BY <2>1 DEF SpentOnce, Available
<1>2. AccountsTypes /\ SpentOnce /\ [Next]_vars => SpentOnce'  BY SpentOnceStep
<1> QED  BY <1>1, <1>2, SpentOnceInit, AccountsTypesHold, PTL DEF Spec
-----------------------------------------------------------------------------
\* A logout ends the sessions there are.

Rooted ==
    /\ \A j \in Ids : root[j] <= j
    /\ \A i \in refresh : root[i] = i
LoggedOut ==
    /\ Rooted
    /\ \A i \in refresh : i \in closed => i \in spared
    /\ \A w \in Workers : job[w].pc = "delete" =>
           \A i \in refresh : i <= job[w].upto => i \in job[w].seen

\* Every way to move on but the scan leads elsewhere than to the deletion.
Elsewhere(w) == (\A v \in Workers : v # w => job'[v] = job[v]) /\ job'[w].pc # "delete"
LEMMA MovesElsewhere ==
    ASSUME AccountsTypes, NEW w \in Workers
    PROVE  /\ \A pc \in Steps \ {"delete"} : Goto(w, pc) => Elsewhere(w)
           /\ Answer(w) => Elsewhere(w)
           /\ \A pc \in Steps \ {"delete"}, pw \in Passwords \cup {None} :
                 Begin(w, pc, pw) => Elsewhere(w)
           /\ \A pc \in Steps \ {"delete"}, pw \in Passwords \cup {None}, c \in 0..Len(issued) :
                 Present(w, c, pc, pw) => Elsewhere(w)
<1>1. \A pc \in Steps \ {"delete"} : Lands(w, pc) => Elsewhere(w)  BY DEF Lands, Elsewhere
<1>2. "idle" \in Steps \ {"delete"}  BY DEF Steps
<1> QED  BY <1>1, <1>2, Landing

\* Only a sign-in adds a key, and its pair is its own root.
Roots ==
    \/ UNCHANGED secrets /\ refresh' \subseteq refresh
    \/ \E kind \in Kinds, from \in Ids : HandOut(kind, from) /\ refresh' \subseteq refresh
    \/ \E kind \in Kinds : HandOut(kind, New) /\ refresh' \subseteq refresh \cup {New}

LEMMA RootedKept == ASSUME AccountsTypes, Rooted, Roots PROVE Rooted'
<1> USE AccountsBounds
<1>0. refresh \subseteq Ids /\ Ids \subseteq Nat /\ New \in Nat
      /\ \A i \in Ids : root[i] \in Ids /\ i < New
  <2>1. Ids \subseteq Nat /\ New \in Nat /\ \A i \in Ids : i < New  BY DEF Ids, New
  <2>2. root \in [Ids -> Ids]  BY DEF AccountsTypes, SecretTypes
  <2>3. refresh \subseteq Ids  BY DEF AccountsTypes, SessionTypes
  <2> QED  BY <2>1, <2>2, <2>3
<1>1. CASE UNCHANGED secrets /\ refresh' \subseteq refresh
  <2>1. Ids' = Ids /\ root' = root  BY <1>1, Steady
  <2> QED  BY <1>1, <2>1 DEF Rooted
<1>2. ASSUME NEW kind \in Kinds, NEW from \in Ids \cup {New}, HandOut(kind, from),
             refresh' \subseteq refresh \/ (refresh' \subseteq refresh \cup {New} /\ from = New)
      PROVE  Rooted'
  <2>1. Ids' = Ids \cup {New} /\ root'[New] = from /\ \A i \in Ids : root'[i] = root[i]
      BY <1>2, Issues
  <2>2. from <= New  BY <1>0, <1>2
  <2>3. \A j \in Ids' : root'[j] <= j  BY <2>1, <2>2 DEF Rooted
  <2>4. \A i \in refresh' : root'[i] = i  BY <1>0, <1>2, <2>1 DEF Rooted
  <2> QED  BY <2>3, <2>4 DEF Rooted
<1> QED  BY <1>1, <1>2 DEF Roots

LEMMA LoggedOutKept ==
    ASSUME AccountsTypes, LoggedOut, Roots,
           \A v \in Workers : job'[v] = job[v] \/ job'[v].pc # "delete",
           closed' = closed, spared' = spared
    PROVE  LoggedOut'
<1>0. refresh' \subseteq refresh \cup {New}  BY DEF Roots
<1>1. New \notin closed /\ \A v \in Workers : ~(New <= job[v].upto)
  <2>1. New \notin Ids /\ closed \subseteq Ids
      BY AccountsBounds DEF New, Ids, AccountsTypes, SessionTypes
  <2> QED  BY <2>1, Carried, AccountsBounds DEF New
<1>2. \A i \in refresh' : i \in closed' => i \in spared'  BY <1>0, <1>1 DEF LoggedOut
<1>3. ASSUME NEW v \in Workers, job'[v].pc = "delete", NEW i \in refresh', i <= job'[v].upto
      PROVE  i \in job'[v].seen
  <2>1. job'[v] = job[v]  BY <1>3
  <2>2. i # New  BY <1>1, <1>3, <2>1
  <2> QED  BY <1>0, <1>3, <2>1, <2>2 DEF LoggedOut
<1>4. Rooted'  BY RootedKept DEF LoggedOut
<1> QED  BY <1>2, <1>3, <1>4 DEF LoggedOut

\* The pairs a logout answers for have the root of a sign-in before it.
LEMMA BeforeIt ==
    ASSUME AccountsTypes, Rooted, NEW w \in Workers, NEW i \in Before(w)
    PROVE  i \in 1..job[w].upto
<1> USE AccountsBounds
<1>1. PICK j \in 1..job[w].upto : i = root[j]  BY DEF Before
<1>2. job[w].upto \in 0..Len(issued)  BY Carried
<1>3. j \in Ids  BY <1>1, <1>2 DEF Ids
<1>4. root[j] \in Ids /\ root[j] <= j  BY <1>3 DEF Rooted, AccountsTypes, SecretTypes
<1> QED  BY <1>1, <1>2, <1>4 DEF Ids

LEMMA LoggedOutStep == ASSUME AccountsTypes, LoggedOut, [Next]_vars PROVE LoggedOut'
<1>1. ASSUME NEW w \in Workers,
             \/ CompanySignup(w) \/ RequestNewOtp(w) \/ VerifyOtpRoute(w) \/ LoginRoute(w)
             \/ RefreshRoute(w) \/ VerifyCodeRoute(w) \/ ConfirmReset(w)
             \/ SessionUnstored(w) \/ RevokeLost(w) \/ DenyLost(w) \/ TokenUnstored(w) \/ Fails(w)
      PROVE  LoggedOut'
  <2>1. pending.code \in 0..Len(issued) /\ resetCode \in 0..Len(issued)
        /\ Ids \subseteq 0..Len(issued)
      BY AccountsBounds DEF AccountsTypes, CodeTypes, Ids
  <2>2. Elsewhere(w)
    <3>0. None \in Passwords \cup {None} /\ Passwords \subseteq Passwords \cup {None}
        OBVIOUS
    <3> USE <3>0, Carried, MovesElsewhere DEF Steps
    <3>1. CASE CompanySignup(w)  BY <3>1, <2>1 DEF CompanySignup, Register
    <3>2. CASE RequestNewOtp(w)
        BY <3>2, <2>1 DEF RequestNewOtp, ResendOtp, StoreUserCredentials
    <3>3. CASE VerifyOtpRoute(w)
        BY <3>3, <2>1 DEF VerifyOtpRoute, VerifyOtp, InsertUser, InsertConflicts,
                          DeleteUserCredentials, CommitUser
    <3>4. CASE LoginRoute(w)  BY <3>4, <2>1 DEF LoginRoute, Login, OpenSession
    <3>5. CASE RefreshRoute(w)
        BY <3>5, <2>1 DEF RefreshRoute, Refresh, RevokeRefreshToken, Reissue
    <3>6. CASE VerifyCodeRoute(w)
        BY <3>6, <2>1 DEF VerifyCodeRoute, VerifyResetCode, SpendCode, StoreResetToken
    <3>7. CASE ConfirmReset(w)
        BY <3>7, <2>1 DEF ConfirmReset, ResetPassword, SpendToken, SetPassword, DeleteResetCode
    <3>8. CASE SessionUnstored(w) \/ RevokeLost(w) \/ DenyLost(w) \/ TokenUnstored(w) \/ Fails(w)
        BY <3>8, <2>1 DEF SessionUnstored, RevokeLost, DenyLost, TokenUnstored, Fails
    <3> QED  BY <1>1, <3>1, <3>2, <3>3, <3>4, <3>5, <3>6, <3>7, <3>8
  <2>3. closed' = closed /\ spared' = spared
      BY <1>1 DEF CompanySignup, Register, RequestNewOtp, ResendOtp, StoreUserCredentials,
             VerifyOtpRoute, VerifyOtp, InsertUser, InsertConflicts, DeleteUserCredentials,
             CommitUser, LoginRoute, Login, OpenSession, RefreshRoute, Refresh,
             RevokeRefreshToken, Reissue, VerifyCodeRoute, VerifyResetCode, SpendCode,
             StoreResetToken, ConfirmReset, ResetPassword, SpendToken, SetPassword,
             DeleteResetCode, SessionUnstored, RevokeLost, DenyLost, TokenUnstored, Fails,
             sessions
  <2>4. Roots
    <3>1. CASE StoreUserCredentials(w) \/ StoreResetToken(w) \/ TokenUnstored(w)
        BY <3>1 DEF StoreUserCredentials, StoreResetToken, TokenUnstored, Issue, Kinds, Roots,
                    sessions
    <3>2. CASE OpenSession(w) \/ SessionUnstored(w)
        BY <3>2 DEF OpenSession, SessionUnstored, IssuePair, Issue, Kinds, Roots, sessions
    <3>3. CASE Reissue(w)
      <4>1. job[w].code \in Ids
          BY <3>3, Carried DEF Reissue, At, CodeFits, Presenting, PairSteps
      <4>2. root[job[w].code] \in Ids  BY <4>1 DEF AccountsTypes, SecretTypes
      <4> QED  BY <3>3, <4>2 DEF Reissue, Kinds, Roots, sessions
    <3>4. CASE ~StoreUserCredentials(w) /\ ~StoreResetToken(w) /\ ~TokenUnstored(w)
               /\ ~OpenSession(w) /\ ~SessionUnstored(w) /\ ~Reissue(w)
      <4>1. UNCHANGED secrets /\ refresh' \subseteq refresh
          BY <1>1, <3>4 DEF CompanySignup, Register, RequestNewOtp, ResendOtp, VerifyOtpRoute,
             VerifyOtp, InsertUser, InsertConflicts, DeleteUserCredentials, CommitUser,
             LoginRoute, Login, RefreshRoute, Refresh, RevokeRefreshToken, VerifyCodeRoute,
             VerifyResetCode, SpendCode, ConfirmReset, ResetPassword, SpendToken, SetPassword,
             DeleteResetCode, RevokeLost, DenyLost, Fails, sessions
      <4> QED  BY <4>1 DEF Roots
    <3> QED  BY <3>1, <3>2, <3>3, <3>4
  <2> QED  BY <2>2, <2>3, <2>4, LoggedOutKept DEF Elsewhere
<1>2. ASSUME NEW w \in Workers, NEW i \in Ids, Logout(w, i) PROVE LoggedOut'
  <2>4. \A v \in Workers : job'[v] = job[v] \/ job'[v].pc # "delete"
      BY <1>2, Landing DEF Lands
  <2>5. UNCHANGED <<refresh, closed, spared, secrets>>  BY <1>2 DEF Logout, sessions
  <2> QED  BY <2>4, <2>5, LoggedOutKept DEF Roots
<1>3. ASSUME NEW w \in Workers, DenyToken(w) PROVE LoggedOut'
  <2>1. \A v \in Workers : job'[v] = job[v] \/ job'[v].pc # "delete"
      BY <1>3, Landing DEF DenyToken, Steps, Lands
  <2> QED  BY <1>3, <2>1, LoggedOutKept DEF DenyToken, Roots
\* The scan finds every session there is, ...
<1>4. ASSUME NEW w \in Workers, ScanSessions(w) PROVE LoggedOut'
  <2> USE AccountsBounds
  <2>1. PICK j \in Jobs(Len(issued)) : j = job[w]  OBVIOUS
  <2>2. job' = [job EXCEPT ![w] = [j EXCEPT !.pc = "delete", !.seen = refresh]]
      BY <1>4, <2>1 DEF ScanSessions
  <2>3. [j EXCEPT !.pc = "delete", !.seen = refresh].seen = refresh  BY DEF Jobs
  <2>4. UNCHANGED <<refresh, closed, spared, secrets>>  BY <1>4 DEF ScanSessions, sessions
  <2>5. job'[w].seen = refresh /\ \A v \in Workers : v # w => job'[v] = job[v]  BY <2>2, <2>3
  <2>6. ASSUME NEW v \in Workers, job'[v].pc = "delete", NEW i \in refresh', i <= job'[v].upto
        PROVE  i \in job'[v].seen
    <3>1. CASE v = w  BY <2>4, <2>5, <3>1
    <3>2. CASE v # w
      <4>1. job'[v] = job[v]  BY <2>5, <3>2
      <4> QED  BY <2>4, <2>6, <4>1 DEF LoggedOut
    <3> QED  BY <3>1, <3>2
  <2>7. Rooted'  BY <2>4, RootedKept DEF LoggedOut, Roots
  <2> QED  BY <2>4, <2>6, <2>7 DEF LoggedOut
\* ... and those handed out later are not among the ones the logout answers for.
<1>5. ASSUME NEW w \in Workers, DeleteSessions(w) \/ InvalidateLost(w) PROVE LoggedOut'
  <2>1. (\A v \in Workers : v # w => job'[v] = job[v]) /\ job'[w].pc # "delete"
      BY <1>5, MovesElsewhere DEF DeleteSessions, InvalidateLost, Elsewhere
  <2>2. \A i \in refresh' : i \in closed' => i \in spared'
    <3>0. \A i \in Before(w) : i \in 1..job[w].upto  BY BeforeIt DEF LoggedOut
    <3>1. CASE DeleteSessions(w)
      <4>1. ASSUME NEW i \in refresh, i \notin job[w].seen
            PROVE  (i \in closed => i \in spared) /\ i \notin Before(w)
          BY <3>0, <3>1, <4>1 DEF LoggedOut, DeleteSessions, At
      <4> QED  BY <3>1, <4>1 DEF DeleteSessions
    <3>2. CASE InvalidateLost(w)
      <4>1. \A i \in refresh : i \in Before(w) =>
                i \in {root[j] : j \in refresh \cap (1..job[w].upto)}
          BY <3>0 DEF LoggedOut, Rooted
      <4> QED  BY <3>2, <4>1 DEF InvalidateLost, LoggedOut
    <3> QED  BY <1>5, <3>1, <3>2
  <2>3. refresh' \subseteq refresh /\ UNCHANGED secrets
      BY <1>5 DEF DeleteSessions, InvalidateLost
  <2>4. ASSUME NEW v \in Workers, job'[v].pc = "delete", NEW i \in refresh', i <= job'[v].upto
        PROVE  i \in job'[v].seen
    <3>1. job'[v] = job[v]  BY <2>1, <2>4
    <3> QED  BY <2>3, <2>4, <3>1 DEF LoggedOut
  <2>5. Rooted'  BY <2>3, RootedKept DEF LoggedOut, Roots
  <2> QED  BY <2>2, <2>4, <2>5 DEF LoggedOut
<1>6. ASSUME Lapses \/ SignInWithGoogle \/ RequestPasswordReset \/ CodeUnstored \/ UNCHANGED vars
      PROVE  LoggedOut'
  <2>1. refresh' \subseteq refresh /\ UNCHANGED <<closed, spared, job>>
      BY <1>6 DEF Lapses, RegistrationLapses, CodeLapses, TokenLapses, SessionLapses,
             SignInWithGoogle, RequestPasswordReset, CodeUnstored, vars, sessions
  <2>2. UNCHANGED secrets \/ HandOut("reset", New)
      BY <1>6 DEF Lapses, RegistrationLapses, CodeLapses, TokenLapses, SessionLapses,
             SignInWithGoogle, RequestPasswordReset, StoreResetCode, CodeUnstored, Issue, vars
  <2>3. Roots  BY <2>1, <2>2 DEF Roots, Kinds
  <2> QED  BY <2>1, <2>3, LoggedOutKept
<1> QED  BY <1>1, <1>2, <1>3, <1>4, <1>5, <1>6 DEF Next, LogoutRoute, Failures

\* After a logout that is answered, no sign-in there was when it began can be refreshed, neither
\* with its own token nor with what an overlapping refresh handed out, unless Redis failed the
\* logout (_invalidate_user_refresh_tokens).
THEOREM LogoutsEndSessions == Spec => []LogoutEndsSessions
<1>1. Init => LoggedOut
  <2>1. Idle.pc # "delete"  BY DEF Idle
  <2> QED  BY <2>1 DEF Init, LoggedOut, Rooted, Ids
<1>2. AccountsTypes /\ LoggedOut /\ [Next]_vars => LoggedOut'  BY LoggedOutStep
<1>3. LoggedOut => LogoutEndsSessions  BY DEF LoggedOut, Rooted, LogoutEndsSessions
<1> QED  BY <1>1, <1>2, <1>3, AccountsTypesHold, PTL DEF Spec

-----------------------------------------------------------------------------
\* No code and no token goes for nothing.

Accounted(c) ==
    \/ Stored(c) \/ Replaced(c) \/ c \in lapsed
    \/ Spent(c) \/ \E d \in Ids : <<c, d>> \in swept /\ Spent(d)
NoneWasted ==
    /\ \A c \in Ids : issued[c] \notin Pairs => Accounted(c)
    /\ \A w \in Workers : job[w].pc = "forgetCode" => job[w].code \in used

\* What has been spent stays so: a request that has taken a secret acts on it or fails.
LEMMA SpentStays ==
    ASSUME used \subseteq used', lost \subseteq lost',
           \A v \in Workers : job[v].pc \in Taken =>
               job'[v] = job[v] \/ job[v].code \in used' \cup lost'
    PROVE  \A c : Spent(c) => Spent(c)'
<1> SUFFICES ASSUME NEW c, Spent(c) PROVE Spent(c)'  OBVIOUS
<1>1. CASE c \in used \cup lost  BY <1>1 DEF Spent
<1>2. ASSUME NEW v \in Workers, job[v].pc \in Taken, job[v].code = c PROVE Spent(c)'
  <2>1. CASE job'[v] = job[v]  BY <1>2, <2>1 DEF Spent
  <2>2. CASE job[v].code \in used' \cup lost'  BY <1>2, <2>2 DEF Spent
  <2> QED  BY <1>2, <2>1, <2>2
<1> QED  BY <1>1, <1>2 DEF Spent

LEMMA NoneWastedKept ==
    ASSUME AccountsTypes, NoneWasted, IssuedGrows,
           lapsed \subseteq lapsed', swept \subseteq swept', used \subseteq used',
           lost \subseteq lost',
           \A v \in Workers : job[v].pc \in Taken =>
               job'[v] = job[v] \/ job[v].code \in used' \cup lost',
           \A v \in Workers : job'[v].pc = "forgetCode" =>
               job'[v] = job[v] \/ job'[v].code \in used',
           \A c \in Ids : Stored(c) => Accounted(c)',
           \A c \in Ids' : c \in Ids \/ issued'[c] \in Pairs \/ Accounted(c)'
    PROVE  NoneWasted'
<1>1. Ids \subseteq Ids' /\ \A i \in Ids : issued'[i] = issued[i]  BY Grown
<1>2. \A c : Spent(c) => Spent(c)'  BY SpentStays
<1>3. ASSUME NEW c \in Ids', issued'[c] \notin Pairs PROVE Accounted(c)'
  <2>1. CASE c \in Ids
    <3>1. Accounted(c)  BY <1>1, <1>3, <2>1 DEF NoneWasted
    <3>2. Replaced(c) => Replaced(c)'  BY <1>1, <2>1 DEF Replaced
    <3>3. ASSUME NEW d \in Ids, <<c, d>> \in swept, Spent(d) PROVE Accounted(c)'
        BY <1>1, <1>2, <3>3 DEF Accounted
    <3> QED  BY <1>2, <2>1, <3>1, <3>2, <3>3 DEF Accounted
  <2> QED  BY <1>3, <2>1
<1>4. \A w \in Workers : job'[w].pc = "forgetCode" => job'[w].code \in used'
    BY DEF NoneWasted
<1> QED  BY <1>3, <1>4 DEF NoneWasted

\* A request moves on that neither takes nor has taken a secret, and no code is touched.
LEMMA PassingBy ==
    ASSUME AccountsTypes, NoneWasted, NEW w \in Workers, NEW pc, Lands(w, pc),
           pc # "forgetCode", job[w].pc \notin Taken,
           UNCHANGED codes, UNCHANGED <<used, lost, swept>>,
           \/ UNCHANGED secrets
           \/ \E kind \in Kinds \cap Pairs, from \in Ids \cup {New} : HandOut(kind, from)
    PROVE  NoneWasted'
<1>1. IssuedGrows /\ \A c \in Ids' : c \in Ids \/ issued'[c] \in Pairs
  <2>1. CASE UNCHANGED secrets  BY <2>1, Steady
  <2>2. ASSUME NEW kind \in Kinds \cap Pairs, NEW from \in Ids \cup {New}, HandOut(kind, from)
        PROVE  IssuedGrows /\ \A c \in Ids' : c \in Ids \/ issued'[c] \in Pairs
      BY <2>2, Issues
  <2> QED  BY <2>1, <2>2
<1>2. UNCHANGED <<pending, resetCode, resetTokens, lapsed>>  BY DEF codes
<1>3. \A c \in Ids : Stored(c) => Accounted(c)'  BY <1>2 DEF Stored, Accounted
<1>4. \A v \in Workers : job[v].pc \in Taken => job'[v] = job[v]  BY DEF Lands
<1>5. \A v \in Workers : job'[v].pc = "forgetCode" => job'[v] = job[v]  BY DEF Lands
<1> QED  BY <1>1, <1>2, <1>3, <1>4, <1>5, NoneWastedKept

\* A request deletes the key of its secret and takes it, whatever the key holds by now.
LEMMA TakingIt ==
    ASSUME AccountsTypes, NoneWasted, NEW w \in Workers, NEW pc \in Taken, Goto(w, pc),
           job[w].pc \notin Taken, job[w].code \in Ids, UNCHANGED secrets,
           UNCHANGED <<used, lost, lapsed>>, swept \subseteq swept',
           \A c \in Ids : Stored(c) => \/ Stored(c)' \/ c = job[w].code
                                       \/ <<c, job[w].code>> \in swept'
    PROVE  NoneWasted'
<1>1. IssuedGrows /\ Ids' = Ids  BY Steady
<1>2. Lands(w, pc) /\ job'[w].code = job[w].code
    BY Landing DEF Taken, Steps
<1>3. ASSUME NEW d \in Ids, d = job[w].code PROVE Spent(d)'
    BY <1>2, <1>3 DEF Spent, Lands
<1>4. \A c \in Ids : Stored(c) => Accounted(c)'
  <2> SUFFICES ASSUME NEW c \in Ids, Stored(c) PROVE Accounted(c)'  OBVIOUS
  <2>1. PICK d \in Ids : d = job[w].code  OBVIOUS
  <2>2. Spent(d)'  BY <1>3, <2>1
  <2> QED  BY <1>1, <2>1, <2>2 DEF Accounted
<1>5. \A v \in Workers : job[v].pc \in Taken => job'[v] = job[v]  BY <1>2 DEF Lands
<1>6. \A v \in Workers : job'[v].pc = "forgetCode" => job'[v] = job[v]
    BY <1>2 DEF Lands, Taken
<1> QED  BY <1>1, <1>4, <1>5, <1>6, NoneWastedKept

\* A request acts on the secret it has taken.
LEMMA ActingOnIt ==
    ASSUME AccountsTypes, NoneWasted, IssuedGrows, NEW w \in Workers, NEW pc, Lands(w, pc),
           pc = "forgetCode" => job'[w].code = job[w].code,
           used' = used \cup {job[w].code}, lost \subseteq lost', UNCHANGED <<swept, lapsed>>,
           \A c \in Ids : Stored(c) => Stored(c)',
           \A c \in Ids' : c \in Ids \/ issued'[c] \in Pairs \/ Stored(c)' \/ c \in lost'
    PROVE  NoneWasted'
<1>1. \A c \in Ids : Stored(c) => Accounted(c)'  BY DEF Accounted
<1>2. \A v \in Workers : job[v].pc \in Taken => job'[v] = job[v] \/ job[v].code \in used'
    BY DEF Lands
<1>3. \A v \in Workers : job'[v].pc = "forgetCode" => job'[v] = job[v] \/ job'[v].code \in used'
    BY DEF Lands
<1>4. \A c \in Ids' : c \in Ids \/ issued'[c] \in Pairs \/ Accounted(c)'
    BY DEF Accounted, Spent
<1> QED  BY <1>1, <1>2, <1>3, <1>4, NoneWastedKept

-----------------------------------------------------------------------------
LEMMA RegistrationVain ==
    ASSUME AccountsTypes, NoneWasted, NEW w \in Workers,
           CompanySignup(w) \/ RequestNewOtp(w) \/ LoginRoute(w) \/ SessionUnstored(w)
    PROVE  NoneWasted'
<1> USE DEF Steps, Taken
<1>1. ASSUME NEW p \in Passwords, Register(w, p) PROVE NoneWasted'
  <2>1. Lands(w, "store")  BY <1>1, Landing DEF Register
  <2>2. UNCHANGED <<used, lost, swept>> /\ job[w].pc = "idle"
      BY <1>1 DEF Register, ghosts, Begin, At
  <2> QED  BY <1>1, <2>1, <2>2, PassingBy DEF Register
<1>2. CASE ResendOtp(w)
  <2>1. Lands(w, "resend")  BY <1>2, Landing, Carried DEF ResendOtp
  <2>2. UNCHANGED <<used, lost, swept>> /\ job[w].pc = "idle"
      BY <1>2 DEF ResendOtp, ghosts, Begin, At
  <2> QED  BY <1>2, <2>1, <2>2, PassingBy DEF ResendOtp
\* A newer code replaces the one before.
<1>3. CASE StoreUserCredentials(w)
  <2>1. "otp" \in Kinds /\ HandOut("otp", New)  BY <1>3 DEF StoreUserCredentials, Issue, Kinds
  <2>2. /\ IssuedGrows /\ Ids' = Ids \cup {New} /\ issued'[New] = "otp"
        /\ \A i \in Ids : issued'[i] = issued[i]
      BY <2>1, Issues
  <2>3. pending'.code = New /\ UNCHANGED <<resetCode, resetTokens, lapsed, used, lost, swept>>
      BY <1>3 DEF StoreUserCredentials, ghosts
  <2>4. \A c \in Ids : c = pending.code => Replaced(c)'
    <3>1. \A c \in Ids : c < New  BY DEF Ids, New
    <3>2. \A c \in Ids : c = pending.code => issued[c] = "otp"  BY KeptApart
    <3> QED  BY <2>2, <3>1, <3>2 DEF Replaced
  <2>5. \A c \in Ids : Stored(c) => Accounted(c)'  BY <2>3, <2>4 DEF Stored, Accounted
  <2>6. \A c \in Ids' : c \in Ids \/ Accounted(c)'  BY <2>2, <2>3 DEF Stored, Accounted
  <2>7. Lands(w, "idle") /\ job[w].pc \in {"store", "resend"}
      BY <1>3, Landing DEF StoreUserCredentials, At
  <2>8. \A v \in Workers : job[v].pc \in Taken \/ job'[v].pc = "forgetCode" => job'[v] = job[v]
      BY <2>7 DEF Lands
  <2> QED  BY <2>2, <2>3, <2>5, <2>6, <2>8, NoneWastedKept
<1>4. CASE Login(w)
  <2>1. Lands(w, "open")  BY <1>4, Landing DEF Login
  <2>2. UNCHANGED <<used, lost, swept>> /\ job[w].pc = "idle"
      BY <1>4 DEF Login, ghosts, Begin, At
  <2> QED  BY <1>4, <2>1, <2>2, PassingBy DEF Login
<1>5. CASE OpenSession(w) \/ SessionUnstored(w)
  <2>1. Lands(w, "idle") /\ job[w].pc = "open"
      BY <1>5, Landing DEF OpenSession, SessionUnstored, At
  <2>2. UNCHANGED <<used, lost, swept>> /\ UNCHANGED codes
      BY <1>5 DEF OpenSession, SessionUnstored, ghosts
  <2>3. "pair" \in Kinds \cap Pairs /\ HandOut("pair", New)
      BY <1>5 DEF OpenSession, SessionUnstored, IssuePair, Issue, Kinds, Pairs
  <2> QED  BY <2>1, <2>2, <2>3, PassingBy
<1> QED  BY <1>1, <1>2, <1>3, <1>4, <1>5 DEF CompanySignup, RequestNewOtp, LoginRoute

LEMMA VerifyOtpVain ==
    ASSUME AccountsTypes, NoneWasted, NEW w \in Workers, VerifyOtpRoute(w)
    PROVE  NoneWasted'
<1> USE DEF Steps, Taken
<1>1. CASE VerifyOtp(w)
  <2>1. pending.code \in 0..Len(issued)  BY DEF AccountsTypes, CodeTypes
  <2>2. Lands(w, "insert")  BY <1>1, <2>1, Landing, Carried DEF VerifyOtp
  <2>3. UNCHANGED <<used, lost, swept>> /\ job[w].pc = "idle"
      BY <1>1 DEF VerifyOtp, ghosts, Present, At
  <2> QED  BY <1>1, <2>2, <2>3, PassingBy DEF VerifyOtp
<1>2. CASE InsertUser(w) \/ InsertConflicts(w)
  <2>1. PICK pc \in {"cleanup", "idle"} : Lands(w, pc)
      BY <1>2, Landing DEF InsertUser, InsertConflicts
  <2>2. UNCHANGED <<used, lost, swept>> /\ job[w].pc = "insert"
        /\ UNCHANGED codes /\ UNCHANGED secrets
      BY <1>2 DEF InsertUser, InsertConflicts, ghosts, At
  <2> QED  BY <2>1, <2>2, PassingBy
<1>3. CASE DeleteUserCredentials(w)
  <2>1. job[w].pc = "cleanup" /\ job[w].code \in Ids
      BY <1>3, Carried DEF DeleteUserCredentials, At, CodeFits, Presenting, OtpSteps
  <2>2. UNCHANGED <<resetCode, resetTokens, used, lost, lapsed>> /\ swept \subseteq swept'
      BY <1>3 DEF DeleteUserCredentials, Sweep
  <2>3. \A c \in Ids : c = pending.code => c = job[w].code \/ <<c, job[w].code>> \in swept'
      BY <1>3, KeptApart DEF DeleteUserCredentials, Sweep
  <2>4. \A c \in Ids : Stored(c) =>
            Stored(c)' \/ c = job[w].code \/ <<c, job[w].code>> \in swept'
      BY <2>2, <2>3 DEF Stored
  <2> QED  BY <1>3, <2>1, <2>2, <2>4, TakingIt DEF DeleteUserCredentials
<1>4. CASE CommitUser(w)
  <2>1. Lands(w, "idle")  BY <1>4, Landing DEF CommitUser
  <2>2. used' = used \cup {job[w].code} /\ UNCHANGED <<lost, swept, lapsed>>
        /\ UNCHANGED <<pending, resetCode, resetTokens>>
      BY <1>4 DEF CommitUser, Use, codes
  <2>3. IssuedGrows /\ Ids' = Ids  BY <1>4, Steady DEF CommitUser
  <2>4. \A c \in Ids : Stored(c) => Stored(c)'  BY <2>2 DEF Stored
  <2> QED  BY <2>1, <2>2, <2>3, <2>4, ActingOnIt
<1> QED  BY <1>1, <1>2, <1>3, <1>4 DEF VerifyOtpRoute

LEMMA RefreshVain ==
    ASSUME AccountsTypes, NoneWasted, NEW w \in Workers, RefreshRoute(w) \/ RevokeLost(w)
    PROVE  NoneWasted'
<1> USE DEF Steps, Taken
<1>1. ASSUME NEW i \in Ids, Refresh(w, i) PROVE NoneWasted'
  <2>1. Lands(w, "revoke")  BY <1>1, Landing DEF Refresh, Ids
  <2>2. UNCHANGED <<used, lost, swept>> /\ job[w].pc = "idle"
      BY <1>1 DEF Refresh, ghosts, Present, At
  <2> QED  BY <1>1, <2>1, <2>2, PassingBy DEF Refresh
<1>2. CASE RevokeRefreshToken(w) \/ RevokeLost(w)
  <2>1. Lands(w, "reissue")  BY <1>2, Landing DEF RevokeRefreshToken, RevokeLost
  <2>2. UNCHANGED <<used, lost, swept>> /\ job[w].pc = "revoke"
        /\ UNCHANGED codes /\ UNCHANGED secrets
      BY <1>2 DEF RevokeRefreshToken, RevokeLost, ghosts, At
  <2> QED  BY <2>1, <2>2, PassingBy
<1>3. CASE Reissue(w)
  <2>1. job[w].code \in Ids  BY <1>3, Carried DEF Reissue, At, CodeFits, Presenting, PairSteps
  <2>2. root[job[w].code] \in Ids  BY <2>1 DEF AccountsTypes, SecretTypes
  <2>3. PICK from \in Ids \cup {New} : HandOut("rotated", from)  BY <1>3, <2>2 DEF Reissue
  <2>4. /\ IssuedGrows /\ Ids' = Ids \cup {New} /\ issued'[New] = "rotated"
      BY <2>3, Issues DEF Kinds
  <2>5. Lands(w, "idle")  BY <1>3, Landing DEF Reissue
  <2>6. used' = used \cup {job[w].code} /\ UNCHANGED <<lost, swept, lapsed>>
        /\ UNCHANGED <<pending, resetCode, resetTokens>>
      BY <1>3 DEF Reissue, Use, codes
  <2>7. \A c \in Ids : Stored(c) => Stored(c)'  BY <2>6 DEF Stored
  <2>8. \A c \in Ids' : c \in Ids \/ issued'[c] \in Pairs  BY <2>4 DEF Pairs
  <2> QED  BY <2>4, <2>5, <2>6, <2>7, <2>8, ActingOnIt
<1> QED  BY <1>1, <1>2, <1>3 DEF RefreshRoute

LEMMA LogoutVain ==
    ASSUME AccountsTypes, NoneWasted, NEW w \in Workers,
           LogoutRoute(w) \/ DenyLost(w) \/ InvalidateLost(w)
    PROVE  NoneWasted'
<1> USE DEF Steps, Taken
<1>1. PICK pc \in {"deny", "scan", "delete", "idle"} : Lands(w, pc)
    BY Landing DEF LogoutRoute, DenyToken, DenyLost, DeleteSessions, InvalidateLost
<1>2. job[w].pc \in {"idle", "deny", "scan", "delete"}
    BY DEF LogoutRoute, Logout, DenyToken, ScanSessions, DeleteSessions, DenyLost,
           InvalidateLost, At
<1>3. UNCHANGED <<used, lost, swept>> /\ UNCHANGED codes /\ UNCHANGED secrets
    BY DEF LogoutRoute, Logout, DenyToken, ScanSessions, DeleteSessions, DenyLost,
           InvalidateLost, ghosts
<1> QED  BY <1>1, <1>2, <1>3, PassingBy

LEMMA VerifyCodeVain ==
    ASSUME AccountsTypes, NoneWasted, NEW w \in Workers, VerifyCodeRoute(w) \/ TokenUnstored(w)
    PROVE  NoneWasted'
<1> USE DEF Steps, Taken
<1>1. CASE VerifyResetCode(w)
  <2>1. resetCode \in 0..Len(issued)  BY DEF AccountsTypes, CodeTypes
  <2>2. Lands(w, "spendCode")  BY <1>1, <2>1, Landing DEF VerifyResetCode
  <2>3. UNCHANGED <<used, lost, swept>> /\ job[w].pc = "idle"
      BY <1>1 DEF VerifyResetCode, ghosts, Present, At
  <2> QED  BY <1>1, <2>2, <2>3, PassingBy DEF VerifyResetCode
<1>2. CASE SpendCode(w)
  <2>1. job[w].pc = "spendCode" /\ job[w].code \in Ids
      BY <1>2, Carried DEF SpendCode, At, CodeFits, Presenting, CodeSteps
  <2>2. UNCHANGED <<pending, resetTokens, used, lost, lapsed>> /\ swept \subseteq swept'
      BY <1>2 DEF SpendCode, Sweep
  <2>3. \A c \in Ids : c = resetCode => c = job[w].code \/ <<c, job[w].code>> \in swept'
      BY <1>2, KeptApart DEF SpendCode, Sweep
  <2>4. \A c \in Ids : Stored(c) =>
            Stored(c)' \/ c = job[w].code \/ <<c, job[w].code>> \in swept'
      BY <2>2, <2>3 DEF Stored
  <2> QED  BY <1>2, <2>1, <2>2, <2>4, TakingIt DEF SpendCode
<1>3. CASE StoreResetToken(w) \/ TokenUnstored(w)
  <2>1. "token" \in Kinds /\ HandOut("token", New)
      BY <1>3 DEF StoreResetToken, TokenUnstored, Issue, Kinds
  <2>2. IssuedGrows /\ Ids' = Ids \cup {New}  BY <2>1, Issues
  <2>3. Lands(w, "idle")  BY <1>3, Landing DEF StoreResetToken, TokenUnstored
  <2>4. used' = used \cup {job[w].code} /\ UNCHANGED <<swept, lapsed, pending, resetCode>>
        /\ lost \subseteq lost' /\ resetTokens \subseteq resetTokens'
        /\ New \in resetTokens' \cup lost'
      BY <1>3 DEF StoreResetToken, TokenUnstored, Use, codes
  <2>5. \A c \in Ids : Stored(c) => Stored(c)'  BY <2>4 DEF Stored
  <2>6. \A c \in Ids' : c \in Ids \/ Stored(c)' \/ c \in lost'  BY <2>2, <2>4 DEF Stored
  <2> QED  BY <2>2, <2>3, <2>4, <2>5, <2>6, ActingOnIt
<1> QED  BY <1>1, <1>2, <1>3 DEF VerifyCodeRoute

LEMMA ConfirmVain ==
    ASSUME AccountsTypes, NoneWasted, NEW w \in Workers, ConfirmReset(w)
    PROVE  NoneWasted'
<1> USE DEF Steps, Taken
<1>1. ASSUME NEW t \in Ids, NEW p \in Passwords, ResetPassword(w, t, p) PROVE NoneWasted'
  <2>1. Lands(w, "spendToken")  BY <1>1, Landing DEF ResetPassword, Ids
  <2>2. UNCHANGED <<used, lost, swept>> /\ job[w].pc = "idle"
      BY <1>1 DEF ResetPassword, ghosts, Present, At
  <2> QED  BY <1>1, <2>1, <2>2, PassingBy DEF ResetPassword
<1>2. CASE SpendToken(w)
  <2>1. job[w].pc = "spendToken" /\ job[w].code \in Ids
      BY <1>2, Carried DEF SpendToken, At, CodeFits, Presenting, TokenSteps
  <2>2. UNCHANGED <<pending, resetCode, used, lost, lapsed, swept>>
      BY <1>2 DEF SpendToken, ghosts
  <2>3. \A c \in Ids : Stored(c) => Stored(c)' \/ c = job[w].code
      BY <1>2, <2>2 DEF Stored, SpendToken
  <2> QED  BY <1>2, <2>1, <2>2, <2>3, TakingIt DEF SpendToken
<1>3. CASE SetPassword(w)
  <2>1. Lands(w, "forgetCode") /\ job'[w].code = job[w].code  BY <1>3, Landing DEF SetPassword
  <2>2. used' = used \cup {job[w].code} /\ UNCHANGED <<lost, swept, lapsed>>
        /\ UNCHANGED <<pending, resetCode, resetTokens>>
      BY <1>3 DEF SetPassword, Use, codes
  <2>3. IssuedGrows /\ Ids' = Ids  BY <1>3, Steady DEF SetPassword
  <2>4. \A c \in Ids : Stored(c) => Stored(c)'  BY <2>2 DEF Stored
  <2> QED  BY <2>1, <2>2, <2>3, <2>4, ActingOnIt
\* A code requested meanwhile is deleted after the password is set: the token is spent.
<1>4. CASE DeleteResetCode(w)
  <2>1. IssuedGrows /\ Ids' = Ids  BY <1>4, Steady DEF DeleteResetCode
  <2>2. UNCHANGED <<pending, resetTokens, used, lost, lapsed>> /\ swept \subseteq swept'
      BY <1>4 DEF DeleteResetCode, Sweep
  <2>3. job[w].pc = "forgetCode" /\ job[w].code \in Ids /\ issued[job[w].code] = "token"
      BY <1>4, Carried DEF DeleteResetCode, At, CodeFits, Presenting, TokenSteps
  <2>4. ASSUME NEW c \in Ids, c = resetCode PROVE Accounted(c)'
    <3>1. PICK d \in Ids : d = job[w].code  BY <2>3
    <3>2. d \in used  BY <2>3, <3>1 DEF NoneWasted
    <3>3. c # 0 /\ c # d  BY <2>3, <2>4, <3>1, KeptApart
    <3>4. <<c, d>> \in swept'  BY <1>4, <2>4, <3>1, <3>3 DEF DeleteResetCode, Sweep
    <3> QED  BY <2>1, <2>2, <3>1, <3>2, <3>4 DEF Accounted, Spent
  <2>5. \A c \in Ids : Stored(c) => Accounted(c)'  BY <2>2, <2>4 DEF Stored, Accounted
  <2>6. Lands(w, "idle")  BY <1>4, Landing DEF DeleteResetCode
  <2>7. \A v \in Workers : job[v].pc \in Taken \/ job'[v].pc = "forgetCode" => job'[v] = job[v]
      BY <2>3, <2>6 DEF Lands
  <2> QED  BY <2>1, <2>2, <2>5, <2>7, NoneWastedKept
<1> QED  BY <1>1, <1>2, <1>3, <1>4 DEF ConfirmReset

LEMMA OutsideVain ==
    ASSUME AccountsTypes, NoneWasted,
           \/ SignInWithGoogle \/ RequestPasswordReset \/ CodeUnstored \/ Lapses
           \/ \E w \in Workers : Fails(w)
           \/ UNCHANGED vars
    PROVE  NoneWasted'
<1>1. CASE SignInWithGoogle \/ UNCHANGED vars
  <2>1. /\ UNCHANGED secrets
        /\ UNCHANGED <<pending, resetCode, resetTokens, lapsed, used, lost, swept, job>>
      BY <1>1 DEF SignInWithGoogle, vars, codes, ghosts
  <2>2. \A c \in Ids : Stored(c) => Accounted(c)'  BY <2>1 DEF Stored, Accounted
  <2> QED  BY <2>1, <2>2, Steady, NoneWastedKept
<1>2. CASE RequestPasswordReset \/ CodeUnstored
  <2>1. "reset" \in Kinds /\ HandOut("reset", New)
      BY <1>2 DEF RequestPasswordReset, StoreResetCode, CodeUnstored, Issue, Kinds
  <2>2. /\ IssuedGrows /\ Ids' = Ids \cup {New} /\ issued'[New] = "reset"
        /\ \A i \in Ids : issued'[i] = issued[i]
      BY <2>1, Issues
  <2>3. /\ UNCHANGED <<pending, resetTokens, lapsed, used, swept, job>> /\ lost \subseteq lost'
        /\ resetCode' = New \/ (New \in lost' /\ resetCode' = resetCode)
      BY <1>2 DEF RequestPasswordReset, StoreResetCode, CodeUnstored, codes, ghosts
  <2>4. \A c \in Ids : c = resetCode => Replaced(c)'
    <3>1. \A c \in Ids : c < New  BY DEF Ids, New
    <3>2. \A c \in Ids : c = resetCode => issued[c] = "reset"  BY KeptApart
    <3> QED  BY <2>2, <3>1, <3>2 DEF Replaced
  <2>5. \A c \in Ids : Stored(c) => Accounted(c)'  BY <2>3, <2>4 DEF Stored, Accounted
  <2>6. \A c \in Ids' : c \in Ids \/ Accounted(c)'
      BY <2>2, <2>3 DEF Stored, Accounted, Spent
  <2> QED  BY <2>2, <2>3, <2>5, <2>6, NoneWastedKept
<1>3. CASE Lapses
  <2>1. /\ UNCHANGED secrets /\ UNCHANGED <<used, lost, swept, job>>
        /\ lapsed \subseteq lapsed'
      BY <1>3 DEF Lapses, RegistrationLapses, CodeLapses, TokenLapses, SessionLapses, codes,
                  ghosts
  <2>2. \A c \in Ids : Stored(c) => Stored(c)' \/ c \in lapsed'
      BY <1>3, KeptApart DEF Lapses, RegistrationLapses, CodeLapses, TokenLapses,
                             SessionLapses, codes, Stored
  <2>3. \A c \in Ids : Stored(c) => Accounted(c)'  BY <2>2 DEF Accounted
  <2> QED  BY <2>1, <2>3, Steady, NoneWastedKept
\* A request that fails may lose the secret it has taken.
<1>4. ASSUME NEW w \in Workers, Fails(w) PROVE NoneWasted'
  <2>1. Lands(w, "idle")  BY <1>4, Landing DEF Fails
  <2>2. IssuedGrows /\ Ids' = Ids  BY <1>4, Steady DEF Fails
  <2>3. UNCHANGED <<pending, resetCode, resetTokens, lapsed, used, swept>>
        /\ lost \subseteq lost' /\ (job[w].pc \in Taken => job[w].code \in lost')
      BY <1>4 DEF Fails, codes
  <2>4. \A c \in Ids : Stored(c) => Accounted(c)'  BY <2>3 DEF Stored, Accounted
  <2>5. \A v \in Workers : job[v].pc \in Taken => job'[v] = job[v] \/ job[v].code \in lost'
      BY <2>1, <2>3 DEF Lands
  <2>6. \A v \in Workers : job'[v].pc = "forgetCode" => job'[v] = job[v]  BY <2>1 DEF Lands
  <2> QED  BY <2>2, <2>3, <2>4, <2>5, <2>6, NoneWastedKept
<1> QED  BY <1>1, <1>2, <1>3, <1>4

LEMMA NoneWastedStep == ASSUME AccountsTypes, NoneWasted, [Next]_vars PROVE NoneWasted'
BY RegistrationVain, VerifyOtpVain, RefreshVain, LogoutVain, VerifyCodeVain, ConfirmVain,
   OutsideVain DEF Next, Failures

\* Every mailed code and every reset token that is gone has expired or been replaced, has had
\* its effect, was lost to a failure, or was deleted by a request whose own secret has had its
\* effect or was lost: none goes for nothing (NothingSpentInVain).
THEOREM NoCodeIsWasted == Spec => []NothingSpentInVain
<1>1. Init => NoneWasted
  <2>1. Idle.pc # "forgetCode"  BY DEF Idle
  <2> QED  BY <2>1 DEF Init, NoneWasted, Ids
<1>2. AccountsTypes /\ NoneWasted /\ [Next]_vars => NoneWasted'  BY NoneWastedStep
<1>3. NoneWasted => NothingSpentInVain  BY DEF NoneWasted, Accounted, NothingSpentInVain
<1> QED  BY <1>1, <1>2, <1>3, AccountsTypesHold, PTL DEF Spec

-----------------------------------------------------------------------------
(***************************************************************************)
(* Identity. The parts side by side.                                       *)
(***************************************************************************)

\* A move of Identity is a move of one part; the others stutter.
LEMMA OneConcernMoves ==
    [IdentityNext]_<<concern, vars, lockoutVars, oauthVars>>
    => [Next]_vars /\ [LockoutNext]_lockoutVars /\ [OAuthNext]_oauthVars
BY DEF IdentityNext, AccountMoves, GuardMoves, ProviderMoves

\* Side by side, each part still behaves as its own specification says: what is proved of a part
\* holds of the composition that is run.
THEOREM ConcernsBehave == IdentitySpec => Spec /\ LockoutSpec /\ OAuthSpec
<1>1. IdentityInit => Init /\ LockoutInit /\ OAuthInit
  BY DEF IdentityInit
<1> QED
  BY <1>1, OneConcernMoves, PTL DEF IdentitySpec, Spec, LockoutSpec, OAuthSpec

\* The state of every part keeps its types.
THEOREM IdentityTypes == IdentitySpec => [](TypeOK /\ LockoutTypeOK /\ OAuthTypeOK)
<1>1. AccountsTypes => TypeOK
  BY DEF AccountsTypes, UserTypes, CodeTypes, SessionTypes, SecretTypes, GhostTypes, JobTypes,
         TypeOK, Jobs, Ids
<1>2. LockoutInv => LockoutTypeOK
  BY DEF LockoutInv
<1>3. OAuthInv => OAuthTypeOK
  BY DEF OAuthInv
<1>4. Spec => []TypeOK
  BY <1>1, AccountsTypesHold, PTL
<1>5. LockoutSpec => []LockoutTypeOK
  BY <1>2, LockoutInvInit, LockoutInvStep, PTL DEF LockoutSpec
<1>6. OAuthSpec => []OAuthTypeOK
  BY <1>3, OAuthInvInit, OAuthInvStep, PTL DEF OAuthSpec
<1> QED
  BY <1>4, <1>5, <1>6, ConcernsBehave, PTL

\* All that the run checks of Identity, for every value of the constants.
THEOREM IdentityKeepsItsPromises ==
    IdentitySpec => /\ []OneTimeUse /\ []NothingSpentInVain /\ []LogoutEndsSessions
                    /\ []GuessesBounded /\ []OneAppleAccount
BY ConcernsBehave, SecretsWorkOnce, NoCodeIsWasted, LogoutsEndSessions, GuessesAreBounded,
   AppleAccountsAreOne, PTL
=============================================================================
