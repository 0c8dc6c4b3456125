---------------------------- MODULE OAuthSignIn ----------------------------
(***************************************************************************)
(* Signing in with Google, Microsoft or Apple: one person, whom all three  *)
(* know by the same e-mail address, and the rows of users that come of it. *)
(* Apple may leave the address out; the service then makes one up.  Who    *)
(* manages the person in an organization may change the row's address.     *)
(*                                                                         *)
(* A callback is a sequence of awaits: on Redis (the state it was sent out *)
(* with), on the provider (its code, which the provider takes once), and   *)
(* on the database, where every change is committed by itself.             *)
(***************************************************************************)
EXTENDS Naturals, FiniteSets

CONSTANTS
    Browsers,     \* callbacks served at the same time
    States,       \* bound on the state parameters ever handed out
    RowIds,       \* ids of users; an address has one row at most
    NoId,         \* no state, no row
    SignInFaults  \* bound on failures

ASSUME OAuthAssumption ==
    /\ NoId \notin States \cup RowIds
    /\ IsFiniteSet(RowIds) /\ Cardinality(RowIds) >= 3  \* one for each address
    /\ SignInFaults \in Nat

VARIABLES
    account,    \* the rows of users, by id
    state,      \* the *_oauth_state keys
    spent,      \* states whose authorization code has been exchanged
    callback,   \* each callback in progress
    excuses,    \* ghost: what may give the person a second Apple account
    broken      \* failures that have happened

oauthVars == <<account, state, spent, callback, excuses, broken>>

Addresses == {"given", "made up", "changed"}
AppleAddresses == {"given", "made up"}
\* sub: who provider_user_id comes from.
NoAccount == [address |-> "none", provider |-> "none", sub |-> "none"]
Accounts == [address : Addresses \cup {"none"},
             provider : {"none", "local", "google", "microsoft", "apple"},
             sub : {"none", "google", "apple"}]
NoCallback == [pc |-> "idle", by |-> "none", state |-> NoId, address |-> "given", user |-> NoId]
Awaits == {"idle", "validated", "exchange", "forget", "look", "create", "profile", "tokens"}

OAuthTypeOK ==
    /\ account \in [RowIds -> Accounts]
    /\ state \in [States -> [by : {"none", "google", "microsoft"}, live : BOOLEAN]]
    /\ spent \subseteq States
    /\ callback \in [Browsers -> [pc : Awaits, by : {"none", "google", "microsoft", "apple"},
                                  state : States \cup {NoId}, address : AppleAddresses,
                                  user : RowIds \cup {NoId}]]
    /\ excuses \subseteq {"renamed", "raced"}
    /\ broken \in 0..SignInFaults

OAuthInit ==
    /\ account = [i \in RowIds |-> NoAccount]
    /\ state = [s \in States |-> [by |-> "none", live |-> FALSE]]
    /\ spent = {}
    /\ callback = [b \in Browsers |-> NoCallback]
    /\ excuses = {} /\ broken = 0

Awaiting(b, pc) == callback[b].pc = pc
Proceed(b, pc) == callback' = [callback EXCEPT ![b].pc = pc]
Done(b) == callback' = [callback EXCEPT ![b] = NoCallback]
Breaks == broken < SignInFaults /\ broken' = broken + 1

-----------------------------------------------------------------------------
(* The state parameter and the code.                                       *)

\* generate_oauth_state, generate_authorization_url
SendOut(s, provider) ==
    /\ state[s].by = "none"
    /\ state' = [state EXCEPT ![s] = [by |-> provider, live |-> TRUE]]
    /\ UNCHANGED <<account, spent, callback, excuses, broken>>
GoogleLogin(s) == SendOut(s, "google")
MicrosoftLogin(s) == SendOut(s, "microsoft")
StateLapses(s) ==
    /\ state[s].live
    /\ state' = [state EXCEPT ![s].live = FALSE]
    /\ UNCHANGED <<account, spent, callback, excuses, broken>>

\* The provider redirects the browser; a reload repeats the callback.
CalledBack(b, s) ==
    /\ Awaiting(b, "idle") /\ state[s].live
    /\ callback' = [callback EXCEPT ![b] =
          [pc |-> IF state[s].by = "google" THEN "validated" ELSE "exchange",
           by |-> state[s].by, state |-> s, address |-> "given", user |-> NoId]]
    /\ UNCHANGED <<account, state, spent, excuses, broken>>
\* Google's state goes before the exchange (validate_oauth_state) ...
ForgetState(b) ==
    /\ Awaiting(b, "validated") \/ Awaiting(b, "forget")
    /\ state' = [state EXCEPT ![callback[b].state].live = FALSE]
    /\ IF Awaiting(b, "validated") THEN Proceed(b, "exchange")
       ELSE Proceed(b, "look")
    /\ UNCHANGED <<account, spent, excuses, broken>>
ExchangeCode(b) ==
    /\ Awaiting(b, "exchange") /\ callback[b].state \notin spent
    /\ spent' = spent \cup {callback[b].state}
    /\ Proceed(b, IF callback[b].by = "google" THEN "look" ELSE "forget")
    /\ UNCHANGED <<account, state, excuses, broken>>
\* ... and Microsoft's after it, also when the code was refused (exchange_code_for_token).
CodeRefused(b) ==
    /\ Awaiting(b, "exchange")
    /\ IF callback[b].state \in spent THEN UNCHANGED broken ELSE Breaks
    /\ state' = [state EXCEPT ![callback[b].state].live = FALSE]
    /\ Done(b)
    /\ UNCHANGED <<account, spent, excuses>>

\* Apple's callback, and apple_login with the code of a browser that asked Apple itself, have no
\* state, and an address only if Apple gives one.
AppleCallsBack(b, address) ==
    /\ Awaiting(b, "idle")
    /\ callback' = [callback EXCEPT ![b] =
          [pc |-> "look", by |-> "apple", state |-> NoId, address |-> address, user |-> NoId]]
    /\ UNCHANGED <<account, state, spent, excuses, broken>>

-----------------------------------------------------------------------------
(* The users row.                                                          *)

UsersAt(address) == {i \in RowIds : account[i].address = address}
Insert(i, row) == account[i] = NoAccount /\ account' = [account EXCEPT ![i] = row]

\* Mutant of AppleUsers: the address alone decides.
AppleUsersByAddress(address) == {i \in UsersAt(address) : account[i].provider = "apple"}
\* get_or_create_user of AppleAuthClient looks among Apple's users, by id or by address.
AppleUsers(address) ==
    {i \in RowIds : account[i].provider = "apple"
                 /\ (account[i].sub = "apple" \/ account[i].address = address)}
Known(b) == IF callback[b].by = "apple" THEN AppleUsers(callback[b].address) ELSE UsersAt("given")

\* A known user: Google's profile update is still to come, Apple's row stays as it is.
FindUser(b) ==
    /\ Awaiting(b, "look")
    /\ \E i \in Known(b) :
          \/ /\ callback[b].by = "google"
             /\ callback' = [callback EXCEPT ![b].pc = "profile", ![b].user = i]
          \/ callback[b].by = "apple" /\ Done(b)
    /\ UNCHANGED <<account, state, spent, excuses, broken>>
\* Microsoft takes a local user over, and hands out a pair of tokens that is stored nowhere.
FindMicrosoftUser(b) ==
    /\ Awaiting(b, "look") /\ callback[b].by = "microsoft"
    /\ \E i \in Known(b) :
          account' = IF account[i].provider = "local"
                     THEN [account EXCEPT ![i].provider = "microsoft"] ELSE account
    /\ Done(b)
    /\ UNCHANGED <<state, spent, excuses, broken>>
MissUser(b) ==
    /\ Awaiting(b, "look") /\ Known(b) = {}
    /\ Proceed(b, "create")
    /\ UNCHANGED <<account, state, spent, excuses, broken>>
CreateUser(b) ==
    LET by == callback[b].by
        address == callback[b].address
    IN /\ Awaiting(b, "create") /\ UsersAt(address) = {}
       /\ \E i \in RowIds :
             /\ Insert(i, [address |-> address, provider |-> by,
                           sub |-> IF by = "microsoft" THEN "none" ELSE by])
             /\ IF by = "google"
                THEN callback' = [callback EXCEPT ![b].pc = "profile", ![b].user = i]
                ELSE Done(b)
       /\ excuses' = IF by = "apple" /\ AppleUsers(address) # {}
                     THEN excuses \cup {"raced"} ELSE excuses
       /\ UNCHANGED <<state, spent, broken>>
\* The address is unique among all users: the sign-in ends with an error.
AddressTaken(b) ==
    /\ Awaiting(b, "create") /\ UsersAt(callback[b].address) # {}
    /\ Done(b)
    /\ UNCHANGED <<account, state, spent, excuses, broken>>
\* _update_oauth_profile: provider_user_id is Google's from here on, whoever's it was.
UpdateProfile(b) ==
    LET i == callback[b].user
    IN /\ Awaiting(b, "profile")
       /\ account' = [account EXCEPT ![i].sub = "google"]
       /\ excuses' = IF account[i].sub = "apple" THEN excuses \cup {"renamed"} ELSE excuses
       /\ Proceed(b, "tokens")
       /\ UNCHANGED <<state, spent, broken>>

\* register_user and verify_otp: an account with a password (Accounts).
RegisterLocally ==
    /\ UsersAt("given") = {}
    /\ \E i \in RowIds : Insert(i, [address |-> "given", provider |-> "local", sub |-> "none"])
    /\ UNCHANGED <<state, spent, callback, excuses, broken>>

\* UserOrganizationCRUD.update_member_details: the address is changed whether verified or not,
\* to any that is free ...
SetAddress(i, address) ==
    /\ account[i] # NoAccount /\ UsersAt(address) = {}
    /\ account' = [account EXCEPT ![i].address = address]
\* ... once the route's permission and hierarchy checks are passed (Membership).
UpdateMemberDetails(i) ==
    /\ SetAddress(i, "changed")
    /\ UNCHANGED <<state, spent, callback, excuses, broken>>

-----------------------------------------------------------------------------
(* Google's tokens.                                                        *)

\* _generate_and_store_tokens: the refresh key (Accounts), whose failure is logged only; and
\* _log_oauth_event.  Nobody reads the rows they leave.
RecordSignIn(b) ==
    /\ Awaiting(b, "tokens")
    /\ Done(b)
    /\ UNCHANGED <<account, state, spent, excuses, broken>>
\* An exception: what is not committed is rolled back, the record of the failure included.
SignInFails(b) ==
    /\ ~Awaiting(b, "idle") /\ Breaks
    /\ Done(b)
    /\ UNCHANGED <<account, state, spent, excuses>>

-----------------------------------------------------------------------------
GoogleOrMicrosoft(b) ==
    \/ \E s \in States : CalledBack(b, s)
    \/ ForgetState(b) \/ ExchangeCode(b) \/ CodeRefused(b)
    \/ FindMicrosoftUser(b) \/ UpdateProfile(b) \/ RecordSignIn(b)

Apple(b) ==
    \/ \E address \in AppleAddresses : AppleCallsBack(b, address)
    \/ FindUser(b) \/ MissUser(b) \/ CreateUser(b) \/ AddressTaken(b)

OAuthNext ==
    \/ \E b \in Browsers : GoogleOrMicrosoft(b) \/ Apple(b) \/ SignInFails(b)
    \/ \E s \in States : GoogleLogin(s) \/ MicrosoftLogin(s) \/ StateLapses(s)
    \/ RegisterLocally
    \/ \E i \in RowIds : UpdateMemberDetails(i)

OAuthSpec == OAuthInit /\ [][OAuthNext]_oauthVars

\* A person who signs in with Apple has one account, with and without an address from Apple,
\* unless a Google sign-in has put its id over Apple's or two Apple sign-ins raced.
OneAppleAccount ==
    Cardinality({i \in RowIds : account[i].provider = "apple"}) <= 1 \/ excuses # {}
=============================================================================
