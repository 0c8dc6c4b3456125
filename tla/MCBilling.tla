----------------------------- MODULE MCBilling -----------------------------
\* Billing for TLC: requests, prices and cards are interchangeable.
EXTENDS Billing, TLC

Symmetry == Permutations(Workers) \cup Permutations(Prices) \cup Permutations(Cards)
=============================================================================
