---------------------------- MODULE ScrapeSystem ----------------------------
(***************************************************************************)
(* The scraping subsystem as a whole: the scheduler and its Celery tasks   *)
(* (ScrapeSchedule), the manual jobs (ScrapeJobs) and the scrapes both of  *)
(* them run, at the same time and on the same sources (RevisionPipeline).  *)
(*                                                                         *)
(* A scrape is named by the task or the job that runs it.  A step of the   *)
(* system is a step of one component, or of a caller and its scrape        *)
(* together: the call of execute_scrape_job and the exception it ends      *)
(* with.  It never returns a result (RevisionPipeline!CreateTicket), so    *)
(* the callers' success branches, which ScrapeSchedule and ScrapeJobs      *)
(* have, do not occur here.                                                *)
(***************************************************************************)
EXTENDS Naturals, Sequences, FiniteSets

CONSTANTS
    Sources, None, Tasks, Jobs, Dispatchers, Frequencies, Backoff, MaxRetries,
    BatchSize, MaxOutlived, RealtimeEnabled, Hashes, MaxRevisions,
    MaxFaults \* bound on the faults of all components together

VARIABLES
    row, freq, wait, lock, dpc, plan, task, dlq, sent, outlived,
    active, job, runner,
    page, revs, outbox, run, overlapped,
    faults,
    found \* ghost: diffs of the page as it is now that the attempts of a task committed
          \* since it last changed

Schedule == INSTANCE ScrapeSchedule WITH NoSource <- None
Manual == INSTANCE ScrapeJobs WITH NoSource <- None
Pipeline == INSTANCE RevisionPipeline WITH Runs <- Tasks \cup Jobs

ASSUME SystemAssumption ==
    /\ Tasks \cap Jobs = {} /\ None \notin Sources \cup Hashes
    /\ Frequencies \subseteq Nat \ {0}

schedule == <<row, freq, wait, lock, dpc, plan, task, dlq, sent, outlived>>
manual == <<active, job, runner>>
pipeline == <<page, revs, outbox, run, overlapped>>
vars == <<schedule, manual, pipeline, faults, found>>

Init ==
    /\ Schedule!Init /\ Manual!Init /\ Pipeline!Init
    /\ found = [t \in Tasks |-> 0]

-----------------------------------------------------------------------------
(* Steps of one component.                                                 *)

\* Time, users and the dispatcher; a task that has yet to start.
ScheduleAlone ==
    /\ \/ Schedule!Tick
       \/ Schedule!LockLapses
       \/ \E s \in Sources : Schedule!CreateSource(s)
       \/ \E s \in Sources, f \in Frequencies : Schedule!UpdateFrequency(s, f)
       \/ \E d \in Dispatchers :
             Schedule!AcquireLock(d) \/ Schedule!DispatchStep(d) \/ Schedule!DispatchAborts(d)
       \/ \E t \in Tasks : Schedule!SourceNotFound(t)
    /\ found' = [t \in Tasks |-> IF task[t].st = "free" THEN 0 ELSE found[t]]
    /\ UNCHANGED <<manual, pipeline>>

\* A hard delete: the foreign keys of revisions and jobs hold the row back.
DeleteSource(s) ==
    /\ revs[s] = <<>>
    /\ \A j \in Jobs : job[j].src # s
    /\ Schedule!DeleteSource(s)
    /\ UNCHANGED <<manual, pipeline, found>>

\* Users of the jobs API see rows that exist.
ManualAlone ==
    /\ \/ \E s \in Sources : row[s] = "row" /\ Manual!ToggleActive(s)
       \/ \E j \in Jobs, s \in Sources :
             row[s] = "row" /\ (Manual!Trigger(j, s) \/ Manual!TriggerCutShort(j, s))
       \/ \E j \in Jobs : Manual!StartFails(j)
    /\ UNCHANGED <<schedule, pipeline, found>>

PageChanges(s) ==
    /\ Pipeline!PageChanges(s)
    /\ found' = [t \in Tasks |-> IF task[t].src = s THEN 0 ELSE found[t]]
    /\ UNCHANGED <<schedule, manual>>

\* One step of a scrape; the insert needs the source's row.
ScrapeStep(r) ==
    /\ Pipeline!Step(r)
    /\ revs' # revs => row[run[r].src] = "row"
    /\ found' = [t \in Tasks |->
                    found[t] + IF /\ t = r /\ run[r].pc = "persist" /\ run'[r].pc = "notify"
                                  /\ run[r].hash = page[run[r].src]
                               THEN 1 ELSE 0]
    /\ UNCHANGED <<schedule, manual>>

-----------------------------------------------------------------------------
(* Steps of a caller and its scrape.                                       *)

\* _scrape_source_async loads the source and calls the pipeline.
StartTask(t) ==
    /\ Schedule!StartTask(t)
    /\ Pipeline!Begin(t, task[t].src)
    /\ UNCHANGED <<manual, found>>

\* A scrape that has raised is over; what its caller does then may fail.
ScrapeEnds(r) ==
    /\ run[r].pc = "raised"
    /\ run' = [run EXCEPT ![r] = Pipeline!IdleRun]
    /\ UNCHANGED <<page, revs, outbox, overlapped>>

\* The exception passes through _scrape_source_async to scrape_source.
TaskRaised(t) ==
    /\ ScrapeEnds(t)
    /\ \/ Schedule!RetryTask(t) \/ Schedule!RetryLost(t)
       \/ Schedule!DeadLetter(t) \/ Schedule!DeadLetterFails(t)
    /\ UNCHANGED <<manual, found>>

WorkerCrash(t) ==
    /\ Schedule!WorkerCrash(t)
    /\ Pipeline!Crash(t)
    /\ UNCHANGED <<manual, found>>

\* The runner of a job enters the pipeline.
StartJob(j) ==
    /\ Manual!Start(j)
    /\ Pipeline!Begin(j, job[j].src)
    /\ UNCHANGED <<schedule, found>>

\* The exception reaches execute_scrape_job_background: FAILED is written, if it can be.
JobRaised(j) ==
    /\ ScrapeEnds(j)
    /\ Manual!Finish(j, "FAILED") \/ Manual!FinishFails(j)
    /\ UNCHANGED <<schedule, found>>

\* The API process restarts and takes the scrapes of its jobs with it.
ProcessRestart ==
    /\ Manual!ProcessRestart
    /\ run' = [r \in Tasks \cup Jobs |-> IF r \in Jobs THEN Pipeline!IdleRun ELSE run[r]]
    /\ UNCHANGED <<schedule, page, revs, outbox, overlapped, found>>

Next ==
    \/ ScheduleAlone
    \/ ManualAlone
    \/ \E s \in Sources : DeleteSource(s) \/ PageChanges(s)
    \/ \E r \in Tasks \cup Jobs : ScrapeStep(r)
    \/ \E t \in Tasks : StartTask(t) \/ TaskRaised(t) \/ WorkerCrash(t)
    \/ \E j \in Jobs : StartJob(j) \/ JobRaised(j)
    \/ ProcessRestart

Spec == Init /\ [][Next]_vars

-----------------------------------------------------------------------------
(* Properties.                                                             *)

\* Retrying a scrape does not announce its change again: while the page stays as it
\* is, the attempts of one task commit one diff at most, since the revision of an
\* attempt outlives its failure and the next one finds its hash.
RetriesFindOneChange ==
    \A t \in Tasks :
        task[t].st # "free" /\ task[t].src \notin overlapped => found[t] <= 1
=============================================================================
