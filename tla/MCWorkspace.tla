----------------------------- MODULE MCWorkspace -----------------------------
EXTENDS Workspace, TLC

\* A part moves alone, so parts may share their model values: those of one such set are
\* interchangeable in every part that uses it.
Symmetry ==
    Permutations(Calls) \cup Permutations(Invitations) \cup
    Permutations(Nodes) \cup Permutations(Homes)
=============================================================================
