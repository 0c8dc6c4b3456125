------------------------ MODULE MCRevisionPipeline ------------------------
(* RevisionPipeline for TLC.                                               *)
EXTENDS RevisionPipeline, TLC

\* Scrapes are interchangeable, and so are the hashes: both are only compared.
Interchangeable == Permutations(Runs) \cup Permutations(Hashes)
=============================================================================
