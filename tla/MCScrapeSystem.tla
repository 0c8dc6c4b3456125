--------------------------- MODULE MCScrapeSystem ---------------------------
(* ScrapeSystem for TLC.                                                   *)
EXTENDS ScrapeSystem, TLC

\* Hashes are only compared.
Interchangeable == Permutations(Hashes)

\* What the next steps and the invariants depend on: the dead-letter queue,
\* the outbox and the ghosts of the dispatcher are only written, and of a
\* history only its length and the hash of its latest revision are read.
View ==
    <<row, freq, wait, lock, dpc, plan, task, active, job, runner, page, overlapped,
      faults, found,
      [s \in Sources |-> <<Len(revs[s]), IF revs[s] = <<>> THEN None ELSE revs[s][Len(revs[s])].hash>>],
      [r \in Tasks \cup Jobs |-> [run[r] EXCEPT !.rev = 0]]>>
=============================================================================
