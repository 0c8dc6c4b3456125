------------------------------ MODULE Identity ------------------------------
(***************************************************************************)
(* How a person becomes a user: the account of an address, the guard in    *)
(* front of its password, and the sign-in with a provider.  They share     *)
(* rows of users only in ways each part takes as a move of its own, at any *)
(* time; so a behaviour moves one part, chosen at its start.               *)
(***************************************************************************)
EXTENDS Accounts, LoginLockout, OAuthSignIn

VARIABLE concern

IdentityInit ==
    /\ concern \in {"account", "guard", "provider"}
    /\ Init /\ LockoutInit /\ OAuthInit

AccountMoves ==
    /\ concern = "account" /\ Next
    /\ UNCHANGED <<concern, lockoutVars, oauthVars>>
GuardMoves ==
    /\ concern = "guard" /\ LockoutNext
    /\ UNCHANGED <<concern, vars, oauthVars>>
ProviderMoves ==
    /\ concern = "provider" /\ OAuthNext
    /\ UNCHANGED <<concern, vars, lockoutVars>>
IdentityNext == AccountMoves \/ GuardMoves \/ ProviderMoves

IdentitySpec ==
    IdentityInit /\ [][IdentityNext]_<<concern, vars, lockoutVars, oauthVars>>
=============================================================================
