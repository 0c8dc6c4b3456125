----------------------------- MODULE MCAccounts -----------------------------
\* Accounts for TLC: requests and passwords are interchangeable.
EXTENDS Accounts, TLC

Symmetry == Permutations(Workers) \cup Permutations(Passwords)
=============================================================================
