------------------------- MODULE ScrapeJobs_proofs -------------------------
(***************************************************************************)
(* Proofs about ScrapeJobs, for any number of sources, jobs and faults.    *)
(***************************************************************************)
EXTENDS ScrapeJobs, TLAPS

\* The invariant: the types, the index and the runners' hold on their jobs.  The
\* second needs the third: Start and Finish write a status without looking at it.
JobInv == TypeOK /\ OneActiveJob /\ RunnerOwnsActiveJob

JobRows == [status : {"none"} \cup ActiveStatus \cup FinalStatus, src : Sources \cup {NoSource}]

LEMMA InitJobs == Init => JobInv
  <1> SUFFICES ASSUME Init PROVE JobInv
    OBVIOUS
  <1>1. NoJob \in JobRows /\ NoJob.status = "none" BY DEF NoJob, JobRows
  <1>2. TypeOK BY <1>1, JobsAssumption DEF Init, TypeOK, JobRows
  <1>3. OneActiveJob /\ RunnerOwnsActiveJob
    BY <1>1 DEF Init, OneActiveJob, RunnerOwnsActiveJob, ActiveJobs, ActiveStatus
  <1> QED BY <1>2, <1>3 DEF JobInv

\* Writing a status to the job of a runner keeps its source.
LEMMA StatusWritten ==
    ASSUME TypeOK, NEW j \in Jobs, NEW st \in ActiveStatus \cup FinalStatus,
           job' = [job EXCEPT ![j].status = st]
    PROVE  /\ job' \in [Jobs -> JobRows]
           /\ job'[j].status = st /\ job'[j].src = job[j].src
           /\ \A k \in Jobs \ {j} : job'[k] = job[k]
  BY DEF TypeOK, JobRows

LEMMA StepJobs == JobInv /\ [Next]_vars => JobInv'
  <1> SUFFICES ASSUME JobInv, [Next]_vars PROVE JobInv'
    OBVIOUS
  <1>1. TypeOK /\ OneActiveJob /\ RunnerOwnsActiveJob BY DEF JobInv
  <1>2. faults < MaxFaults => faults + 1 \in 0..MaxFaults
    BY <1>1, JobsAssumption DEF TypeOK
  <1>3. ASSUME NEW s \in Sources, ToggleActive(s) PROVE JobInv'
    BY <1>1, <1>3
    DEF ToggleActive, JobInv, TypeOK, OneActiveJob, RunnerOwnsActiveJob, ActiveJobs
  <1>4. ASSUME NEW j \in Jobs, NEW s \in Sources, Trigger(j, s) \/ TriggerCutShort(j, s)
        PROVE  JobInv'
    <2> DEFINE created == [status |-> "PENDING", src |-> s]
    <2>1. /\ job[j].status = "none" /\ \A k \in ActiveJobs : job[k].src # s
          /\ job' = [job EXCEPT ![j] = created]
          /\ runner' \in {runner, [runner EXCEPT ![j] = "spawned"]}
          /\ faults' \in 0..MaxFaults /\ UNCHANGED active
      BY <1>1, <1>2, <1>4 DEF Trigger, TriggerCutShort, TypeOK
    <2>2. created \in JobRows BY DEF JobRows, ActiveStatus
    <2>3. job'[j] = created /\ \A k \in Jobs \ {j} : job'[k] = job[k]
      BY <1>1, <2>1 DEF TypeOK
    <2>4. TypeOK'
      <3>1. job' \in [Jobs -> JobRows] BY <1>1, <2>1, <2>2 DEF TypeOK, JobRows
      <3> QED BY <1>1, <2>1, <3>1 DEF TypeOK, JobRows
    <2>5. OneActiveJob' BY <1>1, <2>1, <2>3 DEF OneActiveJob, ActiveJobs
    <2>6. RunnerOwnsActiveJob'
      <3>1. runner[j] = "none"
        BY <1>1, <2>1 DEF RunnerOwnsActiveJob, TypeOK
      <3> QED BY <1>1, <2>1, <2>3, <3>1 DEF RunnerOwnsActiveJob, TypeOK
    <2> QED BY <2>4, <2>5, <2>6 DEF JobInv
  <1>5. ASSUME NEW j \in Jobs, Start(j) PROVE JobInv'
    <2>1. job[j].status = "PENDING" BY <1>1, <1>5 DEF Start, RunnerOwnsActiveJob
    <2>2. /\ job' \in [Jobs -> JobRows]
          /\ job'[j].status = "IN_PROGRESS" /\ job'[j].src = job[j].src
          /\ \A k \in Jobs \ {j} : job'[k] = job[k]
      BY <1>1, <1>5, StatusWritten DEF Start, ActiveStatus
    <2>3. TypeOK' BY <1>1, <1>5, <2>2 DEF Start, TypeOK, JobRows
    <2>4. OneActiveJob' BY <1>1, <2>1, <2>2 DEF OneActiveJob, ActiveJobs, ActiveStatus
    <2>5. RunnerOwnsActiveJob' BY <1>1, <1>5, <2>2 DEF Start, RunnerOwnsActiveJob, TypeOK
    <2> QED BY <2>3, <2>4, <2>5 DEF JobInv
  <1>6. ASSUME NEW j \in Jobs, StartFails(j) PROVE JobInv'
    <2>1. job[j].status = "PENDING" BY <1>1, <1>6 DEF StartFails, RunnerOwnsActiveJob
    <2>2. /\ runner' = [runner EXCEPT ![j] = "none"] /\ faults' \in 0..MaxFaults
          /\ UNCHANGED active
      BY <1>2, <1>6 DEF StartFails
    <2>3. CASE UNCHANGED job
      BY <1>1, <2>2, <2>3 DEF JobInv, TypeOK, OneActiveJob, RunnerOwnsActiveJob, ActiveJobs
    <2>4. CASE job' = [job EXCEPT ![j].status = "IN_PROGRESS"]
      <3>1. /\ job' \in [Jobs -> JobRows]
            /\ job'[j].status = "IN_PROGRESS" /\ job'[j].src = job[j].src
            /\ \A k \in Jobs \ {j} : job'[k] = job[k]
        BY <1>1, <2>4, StatusWritten DEF ActiveStatus
      <3>2. TypeOK' BY <1>1, <2>2, <3>1 DEF TypeOK, JobRows
      <3>3. OneActiveJob' BY <1>1, <2>1, <3>1 DEF OneActiveJob, ActiveJobs, ActiveStatus
      <3>4. RunnerOwnsActiveJob' BY <1>1, <2>2, <3>1 DEF RunnerOwnsActiveJob, TypeOK
      <3> QED BY <3>2, <3>3, <3>4 DEF JobInv
    <2> QED BY <1>6, <2>3, <2>4 DEF StartFails
  <1>7. ASSUME NEW j \in Jobs, NEW outcome \in FinalStatus, Finish(j, outcome) PROVE JobInv'
    <2>1. /\ job' \in [Jobs -> JobRows]
          /\ job'[j].status = outcome /\ job'[j].src = job[j].src
          /\ \A k \in Jobs \ {j} : job'[k] = job[k]
      BY <1>1, <1>7, StatusWritten DEF Finish
    <2>2. TypeOK' BY <1>1, <1>7, <2>1 DEF Finish, TypeOK, JobRows
    <2>3. OneActiveJob'
      BY <1>1, <2>1 DEF OneActiveJob, ActiveJobs, ActiveStatus, FinalStatus
    <2>4. RunnerOwnsActiveJob' BY <1>1, <1>7, <2>1 DEF Finish, RunnerOwnsActiveJob, TypeOK
    <2> QED BY <2>2, <2>3, <2>4 DEF JobInv
  <1>8. ASSUME UNCHANGED <<active, job>>, faults' \in 0..MaxFaults,
               \A j \in Jobs : runner'[j] \in {runner[j], "none"},
               runner' \in [Jobs -> {"none", "spawned", "scraping"}]
        PROVE  JobInv'
    BY <1>1, <1>8 DEF JobInv, TypeOK, OneActiveJob, RunnerOwnsActiveJob, ActiveJobs
  <1>9. ASSUME NEW j \in Jobs, FinishFails(j) PROVE JobInv'
    BY <1>1, <1>2, <1>8, <1>9 DEF FinishFails, TypeOK
  <1>10. CASE ProcessRestart
    BY <1>1, <1>2, <1>8, <1>10 DEF ProcessRestart
  <1>11. CASE UNCHANGED vars
    BY <1>1, <1>8, <1>11 DEF vars, TypeOK
  <1> QED
    BY <1>3, <1>4, <1>5, <1>6, <1>7, <1>9, <1>10, <1>11 DEF Next, Run

\* The jobs and their runners keep their types (scrape_job.py).
THEOREM TypeCorrect == Spec => []TypeOK
  <1>1. JobInv => TypeOK BY DEF JobInv
  <1> QED BY <1>1, InitJobs, StepJobs, PTL DEF Spec

\* No source has two active jobs (scrape_routes.py:67, scrape_job.py:45-52), through
\* failures and restarts.
THEOREM OneActive == Spec => []OneActiveJob
  <1>1. JobInv => OneActiveJob BY DEF JobInv
  <1> QED BY <1>1, InitJobs, StepJobs, PTL DEF Spec

\* A runner's job is active for as long as it works on it (scrape_job_service.py:49-89).
THEOREM Owned == Spec => []RunnerOwnsActiveJob
  <1>1. JobInv => RunnerOwnsActiveJob BY DEF JobInv
  <1> QED BY <1>1, InitJobs, StepJobs, PTL DEF Spec

LEMMA FinishedStays ==
    ASSUME JobInv, Next
    PROVE  \A j \in Jobs : job[j].status \in FinalStatus => job'[j] = job[j]
  <1> SUFFICES ASSUME NEW k \in Jobs, job[k].status \in FinalStatus
               PROVE  job'[k] = job[k]
    OBVIOUS
  <1>1. job \in [Jobs -> JobRows] /\ RunnerOwnsActiveJob BY DEF JobInv, TypeOK, JobRows
  <1>2. ASSUME NEW j \in Jobs, Run(j) PROVE job'[k] = job[k]
    <2>1. CASE runner[j] = "none"
      BY <1>2, <2>1 DEF Run, Start, StartFails, Finish, FinishFails
    <2>2. CASE runner[j] # "none"
      <3>1. j # k
        BY <1>1, <1>2, <2>2
        DEF RunnerOwnsActiveJob, Run, Start, StartFails, Finish, FinishFails, FinalStatus
      <3> QED BY <1>1, <1>2, <3>1 DEF Run, Start, StartFails, Finish, FinishFails
    <2> QED BY <2>1, <2>2
  <1>3. ASSUME NEW j \in Jobs, NEW s \in Sources, Trigger(j, s) \/ TriggerCutShort(j, s)
        PROVE  job'[k] = job[k]
    <2>1. j # k BY <1>3 DEF Trigger, TriggerCutShort, FinalStatus
    <2> QED BY <1>1, <1>3, <2>1 DEF Trigger, TriggerCutShort
  <1> QED BY <1>2, <1>3 DEF Next, ToggleActive, ProcessRestart

\* A job that is over stays over (scrape_job_service.py:49-89).
THEOREM Final == Spec => FinalIsFinal
  <1> DEFINE Kept == \A j \in Jobs : job[j].status \in FinalStatus => job'[j] = job[j]
  <1>1. JobInv /\ [Next]_vars => [Kept]_vars BY FinishedStays
  <1>2. Init => JobInv BY InitJobs
  <1>3. JobInv /\ [Next]_vars => JobInv' BY StepJobs
  <1> QED BY <1>1, <1>2, <1>3, PTL DEF Spec, FinalIsFinal

-----------------------------------------------------------------------------
(* The jobs in the scraping system, where scheduled tasks run scrapes beside    *)
(* theirs and a fault may be anybody's.                                         *)

CONSTANTS Tasks, Dispatchers, Frequencies, Backoff, MaxRetries, BatchSize, MaxOutlived,
          Hashes, MaxRevisions
VARIABLES row, freq, wait, lock, dpc, plan, task, dlq, sent, outlived,
          page, revs, outbox, run, overlapped, found

System == INSTANCE ScrapeSystem WITH None <- NoSource

\* A step of others leaves the jobs alone and may be a fault.
Elsewhere ==
    /\ UNCHANGED <<active, job, runner>>
    /\ faults' = faults \/ (faults < MaxFaults /\ faults' = faults + 1)

\* A step of the jobs within the system is one of their own steps.
LEMMA JobSteps ==
    /\ \A s \in Sources : System!Manual!ToggleActive(s) => ToggleActive(s)
    /\ \A j \in Jobs, s \in Sources :
          /\ System!Manual!Trigger(j, s) => Trigger(j, s)
          /\ System!Manual!TriggerCutShort(j, s) => TriggerCutShort(j, s)
    /\ \A j \in Jobs :
          /\ System!Manual!Start(j) => Start(j)
          /\ System!Manual!StartFails(j) => StartFails(j)
          /\ System!Manual!Finish(j, "FAILED") => Finish(j, "FAILED")
          /\ System!Manual!FinishFails(j) => FinishFails(j)
    /\ System!Manual!ProcessRestart => ProcessRestart
  <1>1. System!Manual!ActiveJobs = ActiveJobs
    BY DEF System!Manual!ActiveJobs, ActiveJobs, System!Manual!ActiveStatus, ActiveStatus
  <1> QED
    BY <1>1 DEF System!Manual!ToggleActive, ToggleActive, System!Manual!Trigger, Trigger,
       System!Manual!TriggerCutShort, TriggerCutShort, System!Manual!Start, Start,
       System!Manual!StartFails, StartFails, System!Manual!Finish, Finish,
       System!Manual!FinishFails, FinishFails, System!Manual!ProcessRestart, ProcessRestart

LEMMA SystemStep == [System!Next]_System!vars => Next \/ Elsewhere
  <1> SUFFICES ASSUME [System!Next]_System!vars PROVE Next \/ Elsewhere
    OBVIOUS
  <1>1. CASE UNCHANGED System!vars
    BY <1>1 DEF System!vars, System!manual, Elsewhere
  <1>2. CASE System!ScheduleAlone
    BY <1>2 DEF System!ScheduleAlone, System!manual, Elsewhere, System!Schedule!Tick,
       System!Schedule!LockLapses, System!Schedule!CreateSource, System!Schedule!UpdateFrequency,
       System!Schedule!AcquireLock, System!Schedule!DispatchStep, System!Schedule!SelectBatch,
       System!Schedule!CommitBatch, System!Schedule!CommitStale, System!Schedule!SendTask, System!Schedule!BatchDone,
       System!Schedule!DispatchAborts, System!Schedule!SourceNotFound
  <1>3. CASE System!ManualAlone
    <2>1. \/ \E s \in Sources : ToggleActive(s)
          \/ \E j \in Jobs, s \in Sources : Trigger(j, s) \/ TriggerCutShort(j, s)
          \/ \E j \in Jobs : StartFails(j)
      BY <1>3, JobSteps DEF System!ManualAlone
    <2> QED BY <2>1 DEF Next, Run
  <1>4. ASSUME NEW s \in Sources, System!DeleteSource(s) \/ System!PageChanges(s)
        PROVE  Elsewhere
    BY <1>4 DEF System!DeleteSource, System!PageChanges, System!Schedule!DeleteSource,
       System!Pipeline!PageChanges, System!manual, Elsewhere
  <1>5. ASSUME NEW r \in Tasks \cup Jobs, System!ScrapeStep(r) PROVE Elsewhere
    <2>1. /\ UNCHANGED <<active, job, runner>>
          /\ System!Pipeline!Step(r)
      BY <1>5 DEF System!ScrapeStep, System!manual
    <2> QED
      BY <2>1 DEF System!Pipeline!Step, System!Pipeline!Fetch, System!Pipeline!Compare,
         System!Pipeline!Analyze, System!Pipeline!FailBeforePersist, System!Pipeline!Persist,
         System!Pipeline!PersistFails, System!Pipeline!Notify, System!Pipeline!NotifyFails,
         System!Pipeline!CreateTicket, Elsewhere
  <1>6. ASSUME NEW t \in Tasks,
               System!StartTask(t) \/ System!TaskRaised(t) \/ System!WorkerCrash(t)
        PROVE  Elsewhere
    BY <1>6 DEF System!StartTask, System!TaskRaised, System!WorkerCrash, System!manual,
       System!Schedule!StartTask, System!Schedule!RetryTask, System!Schedule!RetryLost,
       System!Schedule!DeadLetterFails, System!Schedule!DeadLetter, System!Schedule!WorkerCrash,
       Elsewhere
  <1>7. ASSUME NEW j \in Jobs, System!StartJob(j) \/ System!JobRaised(j) PROVE Next
    <2>1. Start(j) \/ Finish(j, "FAILED") \/ FinishFails(j)
      BY <1>7, JobSteps DEF System!StartJob, System!JobRaised
    <2> QED BY <2>1 DEF Next, Run, FinalStatus
  <1>8. CASE System!ProcessRestart
    BY <1>8, JobSteps DEF System!ProcessRestart, Next
  <1> QED
    BY <1>1, <1>2, <1>3, <1>4, <1>5, <1>6, <1>7, <1>8 DEF System!Next

LEMMA SystemBegins == System!Init => Init
  BY DEF System!Init, System!Manual!Init, Init, System!Manual!NoJob, NoJob

LEMMA SystemKeepsJobs == JobInv /\ [System!Next]_System!vars => JobInv'
  <1> SUFFICES ASSUME JobInv, [System!Next]_System!vars PROVE JobInv'
    OBVIOUS
  <1>1. CASE Next BY <1>1, StepJobs
  <1>2. CASE Elsewhere
    <2>1. faults' \in 0..MaxFaults BY <1>2, JobsAssumption DEF Elsewhere, JobInv, TypeOK
    <2> QED
      BY <1>2, <2>1 DEF Elsewhere, JobInv, TypeOK, OneActiveJob, RunnerOwnsActiveJob, ActiveJobs
  <1> QED BY <1>1, <1>2, SystemStep

\* Beside scheduled tasks, too, no source has two active jobs and each runner's job is
\* active for as long as it works on it (scrape_routes.py:67, scrape_job_service.py:49-89).
THEOREM OneActiveInSystem == System!Spec => [](OneActiveJob /\ RunnerOwnsActiveJob)
  <1>1. JobInv => OneActiveJob /\ RunnerOwnsActiveJob BY DEF JobInv
  <1>2. System!Init => JobInv BY SystemBegins, InitJobs
  <1> QED BY <1>1, <1>2, SystemKeepsJobs, PTL DEF System!Spec

\* Nor does a job that is over change in the system: its runner is gone, and neither a restart
\* nor a later trigger writes it (scrape_job_service.py:49-89).
THEOREM FinalInSystem == System!Spec => FinalIsFinal
  <1> DEFINE Kept == \A j \in Jobs : job[j].status \in FinalStatus => job'[j] = job[j]
  <1>1. JobInv /\ [System!Next]_System!vars => [Kept]_vars
    <2> SUFFICES ASSUME JobInv, [System!Next]_System!vars PROVE [Kept]_vars
      OBVIOUS
    <2>1. CASE Next BY <2>1, FinishedStays
    <2>2. CASE Elsewhere BY <2>2 DEF Elsewhere
    <2> QED BY <2>1, <2>2, SystemStep
  <1>2. System!Init => JobInv BY SystemBegins, InitJobs
  <1> QED BY <1>1, <1>2, SystemKeepsJobs, PTL DEF System!Spec, FinalIsFinal
=============================================================================
