----------------------------- MODULE ScrapeJobs -----------------------------
(***************************************************************************)
(* Manual scrapes: the trigger endpoint                                    *)
(* (src/app/api/modules/v1/scraping/routes/scrape_routes.py), the          *)
(* scrape_jobs table with its partial unique index (models/scrape_job.py)  *)
(* and the asyncio tasks of the API process that run the jobs              *)
(* (service/scrape_job_service.py).  What a scrape does is left to         *)
(* RevisionPipeline: here it ends with a result or with an exception.      *)
(***************************************************************************)
EXTENDS Naturals

CONSTANTS
    Sources,         \* sources users may scrape by hand
    NoSource,        \* the source of a job that does not exist yet
    Jobs,            \* jobs that may ever be created: a bound on the triggers
    RealtimeEnabled, \* settings.ENABLE_REALTIME_WEBSOCKETS
    MaxFaults        \* bound on crashes and on database or publisher failures

ASSUME JobsAssumption ==
    /\ NoSource \notin Sources
    /\ RealtimeEnabled \in BOOLEAN
    /\ MaxFaults \in Nat

VARIABLES
    active, \* sources whose is_active is set
    job,    \* the scrape_jobs table
    runner, \* the asyncio task of each job, in the memory of the API process
    faults  \* faults that have happened

vars == <<active, job, runner, faults>>

ActiveStatus == {"PENDING", "IN_PROGRESS"}
FinalStatus == {"COMPLETED", "FAILED"}
NoJob == [status |-> "none", src |-> NoSource]

\* The jobs that the partial unique index covers.
ActiveJobs == {j \in Jobs : job[j].status \in ActiveStatus}

TypeOK ==
    /\ active \subseteq Sources
    /\ job \in [Jobs -> [status : {"none"} \cup ActiveStatus \cup FinalStatus,
                         src : Sources \cup {NoSource}]]
    /\ runner \in [Jobs -> {"none", "spawned", "scraping"}]
    /\ faults \in 0..MaxFaults

Init ==
    /\ active = Sources
    /\ job = [j \in Jobs |-> NoJob]
    /\ runner = [j \in Jobs |-> "none"]
    /\ faults = 0

-----------------------------------------------------------------------------
\* update_source with is_active.
ToggleActive(s) ==
    /\ active' = IF s \in active THEN active \ {s} ELSE active \cup {s}
    /\ UNCHANGED <<job, runner, faults>>

\* Mutant of Trigger: without the partial unique index.
TriggerWithoutIndex(j, s) ==
    /\ job[j].status = "none"
    /\ s \in active
    /\ job' = [job EXCEPT ![j] = [status |-> "PENDING", src |-> s]]
    /\ runner' = [runner EXCEPT ![j] = "spawned"]
    /\ UNCHANGED <<active, faults>>

\* manual_scrape_trigger for an active source: the insert passes the index and the
\* runner is spawned.  A second one for the source gets 409 and changes nothing.
Trigger(j, s) ==
    /\ job[j].status = "none"
    /\ s \in active
    /\ \A k \in ActiveJobs : job[k].src # s
    /\ job' = [job EXCEPT ![j] = [status |-> "PENDING", src |-> s]]
    /\ runner' = [runner EXCEPT ![j] = "spawned"]
    /\ UNCHANGED <<active, faults>>

\* The insert is committed and the request ends there, before the runner is spawned:
\* the refresh fails, or the process dies.
TriggerCutShort(j, s) ==
    /\ job[j].status = "none"
    /\ s \in active
    /\ \A k \in ActiveJobs : job[k].src # s
    /\ faults < MaxFaults
    /\ faults' = faults + 1
    /\ job' = [job EXCEPT ![j] = [status |-> "PENDING", src |-> s]]
    /\ UNCHANGED <<active, runner>>

\* Mutant of Start: the first commit left out.
StartUncommitted(j) ==
    /\ runner[j] = "spawned"
    /\ runner' = [runner EXCEPT ![j] = "scraping"]
    /\ UNCHANGED <<active, job, faults>>

\* The runner commits IN_PROGRESS, publishes it and enters the pipeline.
Start(j) ==
    /\ runner[j] = "spawned"
    /\ job' = [job EXCEPT ![j].status = "IN_PROGRESS"]
    /\ runner' = [runner EXCEPT ![j] = "scraping"]
    /\ UNCHANGED <<active, faults>>

\* The commit fails, or the publisher does after it: both are outside the inner try,
\* so the runner ends without touching the job again.
StartFails(j) ==
    /\ runner[j] = "spawned"
    /\ faults < MaxFaults
    /\ faults' = faults + 1
    /\ \/ UNCHANGED job
       \/ RealtimeEnabled /\ job' = [job EXCEPT ![j].status = "IN_PROGRESS"]
    /\ runner' = [runner EXCEPT ![j] = "none"]
    /\ UNCHANGED active

\* Mutants of Finish: the runner goes on after the outcome; the last commit left out.
FinishAndGoOn(j, outcome) ==
    /\ runner[j] = "scraping"
    /\ job' = [job EXCEPT ![j].status = outcome]
    /\ UNCHANGED <<active, runner, faults>>
FinishUncommitted(j, outcome) ==
    /\ runner[j] = "scraping"
    /\ runner' = [runner EXCEPT ![j] = "none"]
    /\ UNCHANGED <<active, job, faults>>

\* The pipeline ended; its outcome is committed (a publisher failing after that
\* changes nothing any more).
Finish(j, outcome) ==
    /\ runner[j] = "scraping"
    /\ job' = [job EXCEPT ![j].status = outcome]
    /\ runner' = [runner EXCEPT ![j] = "none"]
    /\ UNCHANGED <<active, faults>>

\* The last commit fails: the outcome is lost, the runner ends.
FinishFails(j) ==
    /\ runner[j] = "scraping"
    /\ faults < MaxFaults
    /\ faults' = faults + 1
    /\ runner' = [runner EXCEPT ![j] = "none"]
    /\ UNCHANGED <<active, job>>

\* The API process dies or is deployed anew, with every runner in it; nothing looks
\* for unfinished jobs when it starts.
ProcessRestart ==
    /\ faults < MaxFaults
    /\ \E j \in Jobs : runner[j] # "none"
    /\ faults' = faults + 1
    /\ runner' = [j \in Jobs |-> "none"]
    /\ UNCHANGED <<active, job>>

-----------------------------------------------------------------------------
Run(j) ==
    \/ Start(j)
    \/ StartFails(j)
    \/ \E outcome \in FinalStatus : Finish(j, outcome)
    \/ FinishFails(j)

Next ==
    \/ \E s \in Sources : ToggleActive(s)
    \/ \E j \in Jobs, s \in Sources : Trigger(j, s) \/ TriggerCutShort(j, s)
    \/ \E j \in Jobs : Run(j)
    \/ ProcessRestart

Spec == Init /\ [][Next]_vars

\* The event loop runs every task that was created.
FairSpec == Spec /\ \A j \in Jobs : WF_vars(Run(j))

-----------------------------------------------------------------------------
(* Properties.                                                             *)

\* "only one active job (PENDING or IN_PROGRESS) is allowed per source at a time"
\* (scrape_routes.py:67), through every later change of status.
OneActiveJob ==
    \A j, k \in ActiveJobs : job[j].src = job[k].src => j = k

\* A runner works only on a job that is active, on one in progress once it scrapes.
\* Nobody else writes the job meanwhile, so no finished job is reopened by it.
RunnerOwnsActiveJob ==
    \A j \in Jobs :
        /\ runner[j] = "spawned" => job[j].status = "PENDING"
        /\ runner[j] = "scraping" => job[j].status = "IN_PROGRESS"

\* A job that is over stays over.
FinalIsFinal ==
    [][\A j \in Jobs : job[j].status \in FinalStatus => job'[j] = job[j]]_vars

\* Without faults a source is never blocked for good: each active job is finished.
JobFinishes ==
    \A j \in Jobs :
        (job[j].status \in ActiveStatus) ~> (job[j].status \in FinalStatus \/ faults > 0)

\* "Tracks the lifecycle of a manual scrape trigger from creation through completion
\* or failure" (scrape_job.py:39), errors being handled "gracefully"
\* (scrape_job_service.py:33).
EveryJobFinishes ==
    \A j \in Jobs :
        (job[j].status \in ActiveStatus) ~> (job[j].status \in FinalStatus)
=============================================================================
