----------------------------- MODULE MCIdentity -----------------------------
EXTENDS Identity, TLC

\* A part moves alone, so parts may share their model values: those of one such set are
\* interchangeable in every part that uses it.
Symmetry == Permutations(Workers) \cup Permutations(Passwords) \cup Permutations(RowIds)
=============================================================================
