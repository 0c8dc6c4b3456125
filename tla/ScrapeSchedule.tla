--------------------------- MODULE ScrapeSchedule ---------------------------
(***************************************************************************)
(* The scraping scheduler: Celery beat's dispatch_due_sources, the Redis   *)
(* lock in front of it, the scrape_source tasks it sends, their retries,   *)
(* the dead-letter queue and the schedule columns of the sources table     *)
(* (src/app/api/modules/v1/scraping/service/tasks.py), together with the   *)
(* user operations on a source that touch those columns                    *)
(* (scraping/service/source_service.py).                                   *)
(*                                                                         *)
(* What a scrape does is not modelled here: a running task either gets a   *)
(* result from ScraperService.execute_scrape_job or an exception.  Module  *)
(* RevisionPipeline models the scrape, ScrapeSystem puts the two together. *)
(*                                                                         *)
(* Time.  next_scrape_time is kept as the number of hours until it comes   *)
(* (wait, 0 once it has passed, and for the NULL of a new source); Tick    *)
(* is one hour.  A dispatch run takes seconds to minutes, so no hour       *)
(* passes inside one.                                                      *)
(*                                                                         *)
(* last_error and last_scraped_at, which only users read, are left out.    *)
(***************************************************************************)
EXTENDS Naturals, FiniteSets

CONSTANTS
    Sources,          \* rows the sources table may ever hold
    NoSource,         \* the source of a task slot that holds no message
    Tasks,            \* slots for live scrape_source messages: a bound on the backlog
    Dispatchers,      \* executions of dispatch_due_sources that may exist at once
    Frequencies,      \* the intervals of ScrapeFrequency, in hours
    Backoff,          \* the six hours of _handle_scrape_failure_async
    MaxRetries,       \* settings.SCRAPE_MAX_RETRIES
    BatchSize,        \* settings.SCRAPE_BATCH_SIZE
    MaxOutlived,      \* bound on the locks that lapse under a running dispatch, per due cycle
    MaxFaults         \* bound on crashes and broker or database failures

ASSUME ScheduleAssumption ==
    /\ NoSource \notin Sources
    /\ Frequencies \subseteq Nat \ {0} /\ Frequencies # {}
    /\ Backoff \in Nat \ {0}
    /\ MaxRetries \in Nat
    /\ BatchSize \in Nat \ {0}
    /\ MaxOutlived \in Nat
    /\ MaxFaults \in Nat

VARIABLES
    row,       \* life of each source's row: "new", "row" or (hard deleted) "gone"
    freq,      \* Source.scrape_frequency
    wait,      \* hours until Source.next_scrape_time
    lock,      \* does celery:dispatch_due_sources_lock exist in Redis?
    dpc,       \* where each dispatch execution is
    plan,      \* the batch it works on: source -> interval to push it by
    task,      \* the scrape_source messages
    dlq,       \* sources with an entry on celery:scraping_dlq
    faults,    \* faults that have happened
    sent,      \* ghost: tasks sent for a source since it last became due
    outlived   \* ghost: locks that lapsed under a running dispatch since then

tables == <<row, freq, wait>>
dispatch == <<lock, dpc, plan>>
ghosts == <<sent, outlived>>
vars == <<row, freq, wait, lock, dpc, plan, task, dlq, faults, sent,
          outlived>>

FreeTask == [st |-> "free", src |-> NoSource, retries |-> 0, freq |-> 0]
TaskMsg == [st : {"free", "queued", "running"}, src : Sources \cup {NoSource},
            retries : 0..MaxRetries, freq : Frequencies \cup {0}]

Plans == UNION {[batch -> Frequencies] : batch \in SUBSET Sources}
NoPlan == [s \in {} |-> 0]

Rows == {s \in Sources : row[s] = "row"}

\* The WHERE clause of the dispatch query: neither is_active nor is_deleted is
\* looked at, so those columns are not part of this module.
Due == {s \in Rows : wait[s] = 0}

TypeOK ==
    /\ row \in [Sources -> {"new", "row", "gone"}]
    /\ freq \in [Sources -> Frequencies]
    /\ wait \in [Sources -> Nat]
    /\ lock \in BOOLEAN
    /\ dpc \in [Dispatchers -> {"idle", "select", "commit", "send"}]
    /\ plan \in [Dispatchers -> Plans]
    /\ task \in [Tasks -> TaskMsg]
    /\ \A t \in Tasks : task[t].st # "free" => task[t].src \in Sources
    /\ \A t \in Tasks : task[t].st = "running" => task[t].freq \in Frequencies
    /\ dlq \subseteq Sources
    /\ faults \in 0..MaxFaults
    /\ sent \in [Sources -> Nat] /\ outlived \in [Sources -> Nat]

Init ==
    /\ row = [s \in Sources |-> "new"]
    /\ freq \in [Sources -> Frequencies]
    /\ wait = [s \in Sources |-> 0]
    /\ lock = FALSE
    /\ dpc = [d \in Dispatchers |-> "idle"]
    /\ plan = [d \in Dispatchers |-> NoPlan]
    /\ task = [t \in Tasks |-> FreeTask]
    /\ dlq = {}
    /\ faults = 0
    /\ sent = [s \in Sources |-> 0] /\ outlived = [s \in Sources |-> 0]

-----------------------------------------------------------------------------
(* Time and the users of the sources API.                                  *)

\* An hour passes.
Tick ==
    /\ \A d \in Dispatchers : dpc[d] = "idle"
    /\ \E s \in Sources : wait[s] > 0
    /\ wait' = [s \in Sources |-> IF wait[s] > 0 THEN wait[s] - 1 ELSE 0]
    /\ sent' = [s \in Sources |-> IF wait[s] = 1 THEN 0 ELSE sent[s]]
    /\ outlived' = [s \in Sources |-> IF wait[s] = 1 THEN 0 ELSE outlived[s]]
    /\ UNCHANGED <<row, freq, dispatch, task, dlq, faults>>

\* create_source: next_scrape_time starts as NULL.
CreateSource(s) ==
    /\ row[s] = "new"
    /\ row' = [row EXCEPT ![s] = "row"]
    /\ UNCHANGED <<freq, wait, dispatch, task, dlq, faults, ghosts>>

\* update_source with a new scrape_frequency: next_scrape_time stays as it was.
UpdateFrequency(s, f) ==
    /\ s \in Rows
    /\ f # freq[s]
    /\ freq' = [freq EXCEPT ![s] = f]
    /\ UNCHANGED <<row, wait, dispatch, task, dlq, faults, ghosts>>

\* delete_source(permanent=True).  Deleting softly changes nothing the scheduler reads.
DeleteSource(s) ==
    /\ s \in Rows
    /\ row' = [row EXCEPT ![s] = "gone"]
    /\ UNCHANGED <<freq, wait, dispatch, task, dlq, faults, ghosts>>

-----------------------------------------------------------------------------
(* dispatch_due_sources.                                                   *)

\* The executions under way.
Running == {d \in Dispatchers : dpc[d] # "idle"}

\* Mutant of AcquireLock: the answer of SET NX is not looked at.
AcquireLockUnchecked(d) ==
    /\ dpc[d] = "idle"
    /\ lock' = TRUE
    /\ dpc' = [dpc EXCEPT ![d] = "select"]
    /\ UNCHANGED <<tables, plan, task, dlq, faults, ghosts>>

\* SET NX EX; an execution that finds the key returns "Skipped" and changes nothing.
AcquireLock(d) ==
    /\ dpc[d] = "idle"
    /\ ~lock
    /\ lock' = TRUE
    /\ dpc' = [dpc EXCEPT ![d] = "select"]
    /\ UNCHANGED <<tables, plan, task, dlq, faults, ghosts>>

\* Mutant of LockLapses: the key is set without EX.
LockWithoutExpiry == FALSE /\ UNCHANGED vars

\* Nobody deletes the key or renews it: it goes when its SCRAPE_DISPATCH_LOCK_TIMEOUT is
\* over, whether its execution has ended or not.
LockLapses ==
    /\ lock
    /\ lock' = FALSE
    /\ \/ /\ Running = {}
          /\ UNCHANGED outlived
       \/ /\ Running # {} /\ \A s \in Sources : outlived[s] < MaxOutlived
          /\ outlived' = [s \in Sources |-> outlived[s] + 1]
    /\ UNCHANGED <<tables, dpc, plan, task, dlq, faults, sent>>

\* One turn of the loop reads up to BatchSize due sources and works out the time
\* each is pushed to; with none left the execution ends.
SelectBatch(d) ==
    /\ dpc[d] = "select"
    /\ \/ /\ Due = {}
          /\ dpc' = [dpc EXCEPT ![d] = "idle"]
          /\ UNCHANGED plan
       \/ /\ Due # {}
          /\ \E batch \in SUBSET Due :
                /\ \/ batch = Due /\ Cardinality(Due) <= BatchSize
                   \/ Cardinality(batch) = BatchSize
                /\ plan' = [plan EXCEPT ![d] = [s \in batch |-> freq[s]]]
          /\ dpc' = [dpc EXCEPT ![d] = "commit"]
    /\ UNCHANGED <<tables, lock, task, dlq, faults, ghosts>>

\* The whole batch is pushed and committed before its first task is sent.  Rows that were
\* deleted meanwhile go unnoticed among several, ...
CommitBatch(d) ==
    /\ dpc[d] = "commit"
    /\ DOMAIN plan[d] \subseteq Rows \/ Cardinality(DOMAIN plan[d]) > 1
    /\ wait' = [s \in Sources |->
                   IF s \in DOMAIN plan[d] THEN plan[d][s] ELSE wait[s]]
    /\ dpc' = [dpc EXCEPT ![d] = "send"]
    /\ UNCHANGED <<row, freq, lock, plan, task, dlq, faults, ghosts>>

\* ... but an UPDATE of one row alone that finds none raises, and the execution ends.
CommitStale(d) ==
    /\ dpc[d] = "commit"
    /\ \E s \in Sources \ Rows : DOMAIN plan[d] = {s}
    /\ dpc' = [dpc EXCEPT ![d] = "idle"]
    /\ plan' = [plan EXCEPT ![d] = NoPlan]
    /\ UNCHANGED <<tables, lock, task, dlq, faults, ghosts>>

\* app.send_task for one source of the batch.
SendTask(d, s, t) ==
    /\ dpc[d] = "send"
    /\ s \in DOMAIN plan[d]
    /\ task[t].st = "free"
    /\ task' = [task EXCEPT ![t] = [FreeTask EXCEPT !.st = "queued", !.src = s]]
    /\ plan' = [plan EXCEPT ![d] = [x \in DOMAIN plan[d] \ {s} |-> plan[d][x]]]
    /\ sent' = [sent EXCEPT ![s] = @ + 1]
    /\ UNCHANGED <<tables, lock, dpc, dlq, faults, outlived>>

\* The batch is sent: on to the next turn of the loop.
BatchDone(d) ==
    /\ dpc[d] = "send"
    /\ DOMAIN plan[d] = {}
    /\ dpc' = [dpc EXCEPT ![d] = "select"]
    /\ UNCHANGED <<tables, lock, plan, task, dlq, faults, ghosts>>

\* A crash, or an exception from the database or the broker, ends the execution
\* where it stands; what it has committed stays, the lock stays until it lapses.
DispatchAborts(d) ==
    /\ dpc[d] # "idle"
    /\ faults < MaxFaults
    /\ faults' = faults + 1
    /\ dpc' = [dpc EXCEPT ![d] = "idle"]
    /\ plan' = [plan EXCEPT ![d] = NoPlan]
    /\ UNCHANGED <<tables, lock, task, dlq, ghosts>>

-----------------------------------------------------------------------------
(* scrape_source.                                                          *)

\* A worker takes the message and loads the row; the frequency it will schedule by
\* at the end is the one it reads now.
StartTask(t) ==
    /\ task[t].st = "queued"
    /\ task[t].src \in Rows
    /\ task' = [task EXCEPT ![t].st = "running", ![t].freq = freq[task[t].src]]
    /\ UNCHANGED <<tables, dispatch, dlq, faults, ghosts>>

\* "Source ... not found."
SourceNotFound(t) ==
    /\ task[t].st = "queued"
    /\ task[t].src \notin Rows
    /\ task' = [task EXCEPT ![t] = FreeTask]
    /\ UNCHANGED <<tables, dispatch, dlq, faults, ghosts>>

\* The pipeline returned and the schedule columns are committed.
TaskSucceeds(t) ==
    /\ task[t].st = "running"
    /\ task[t].src \in Rows
    /\ wait' = [wait EXCEPT ![task[t].src] = task[t].freq]
    /\ task' = [task EXCEPT ![t] = FreeTask]
    /\ UNCHANGED <<row, freq, dispatch, dlq, faults, ghosts>>

\* Mutant of RetryTask: self.request.retries stays.
RetryUncounted(t) ==
    /\ task[t].st = "running"
    /\ task[t].retries < MaxRetries
    /\ task' = [task EXCEPT ![t].st = "queued"]
    /\ UNCHANGED <<row, freq, wait, dispatch, dlq, faults, ghosts>>

\* An exception with retries left: self.retry puts the message back with a countdown.
RetryTask(t) ==
    /\ task[t].st = "running"
    /\ task[t].retries < MaxRetries
    /\ task' = [task EXCEPT ![t] = [st |-> "queued", src |-> task[t].src,
                                    retries |-> task[t].retries + 1, freq |-> 0]]
    /\ UNCHANGED <<row, freq, wait, dispatch, dlq, faults, ghosts>>

\* The same, and the broker refuses the retry: the task is gone.
RetryLost(t) ==
    /\ task[t].st = "running"
    /\ task[t].retries < MaxRetries
    /\ faults < MaxFaults
    /\ faults' = faults + 1
    /\ task' = [task EXCEPT ![t] = FreeTask]
    /\ UNCHANGED <<row, freq, wait, dispatch, dlq, ghosts>>

\* Mutant of DeadLetter: the source is parked before the entry is pushed, and the
\* task returns there.
DeadLetterForgets(t) ==
    /\ task[t].st = "running"
    /\ task[t].retries = MaxRetries
    /\ wait' = [wait EXCEPT ![task[t].src] = IF task[t].src \in Rows THEN Backoff ELSE @]
    /\ task' = [task EXCEPT ![t] = FreeTask]
    /\ UNCHANGED <<row, freq, dispatch, dlq, faults, ghosts>>

\* An exception with none left: the dead-letter entry, then the source is parked
\* for the backoff (an UPDATE that finds no row changes nothing).
DeadLetter(t) ==
    /\ task[t].st = "running"
    /\ task[t].retries = MaxRetries
    /\ dlq' = dlq \cup {task[t].src}
    /\ wait' = [wait EXCEPT ![task[t].src] = IF task[t].src \in Rows THEN Backoff ELSE @]
    /\ task' = [task EXCEPT ![t] = FreeTask]
    /\ UNCHANGED <<row, freq, dispatch, faults, ghosts>>

\* The same with a failure inside it: either the push to Redis raises and the task
\* dies there, or the entry is pushed and the error of the UPDATE is only logged.
DeadLetterFails(t) ==
    /\ task[t].st = "running"
    /\ task[t].retries = MaxRetries
    /\ faults < MaxFaults
    /\ faults' = faults + 1
    /\ dlq' \in {dlq, dlq \cup {task[t].src}}
    /\ task' = [task EXCEPT ![t] = FreeTask]
    /\ UNCHANGED <<row, freq, wait, dispatch, ghosts>>

\* Messages are acknowledged when they are taken: a worker that dies loses its task.
WorkerCrash(t) ==
    /\ task[t].st = "running"
    /\ faults < MaxFaults
    /\ faults' = faults + 1
    /\ task' = [task EXCEPT ![t] = FreeTask]
    /\ UNCHANGED <<tables, dispatch, dlq, ghosts>>

-----------------------------------------------------------------------------
UserStep ==
    \E s \in Sources :
        \/ CreateSource(s)
        \/ \E f \in Frequencies : UpdateFrequency(s, f)
        \/ DeleteSource(s)

DispatchStep(d) ==
    \/ SelectBatch(d)
    \/ CommitBatch(d)
    \/ CommitStale(d)
    \/ \E s \in Sources, t \in Tasks : SendTask(d, s, t)
    \/ BatchDone(d)

TakeTask(t) == StartTask(t) \/ SourceNotFound(t)

EndTask(t) ==
    \/ TaskSucceeds(t)
    \/ RetryTask(t)
    \/ RetryLost(t)
    \/ DeadLetter(t)
    \/ DeadLetterFails(t)

Next ==
    \/ Tick
    \/ LockLapses
    \/ UserStep
    \/ \E d \in Dispatchers : AcquireLock(d) \/ DispatchStep(d) \/ DispatchAborts(d)
    \/ \E t \in Tasks : TakeTask(t) \/ EndTask(t) \/ WorkerCrash(t)

Spec == Init /\ [][Next]_vars

\* Beat fires the dispatcher every minute, Redis expires keys, an execution that
\* has begun goes on, and a pool of workers takes and finishes tasks.  Hours go by,
\* though each execution holds Tick up for the seconds it takes.
Fairness ==
    /\ SF_vars(Tick)
    /\ WF_vars(LockLapses)
    /\ WF_vars(\E d \in Dispatchers : AcquireLock(d))
    /\ \A d \in Dispatchers : WF_vars(DispatchStep(d))
    /\ \A t \in Tasks : WF_vars(TakeTask(t) \/ EndTask(t))

FairSpec == Spec /\ Fairness

-----------------------------------------------------------------------------
(* Properties.                                                             *)

\* Each time a source falls due it gets one scrape_source task, and one more at most for
\* each execution that outlived its lock meanwhile, however dispatch executions, crashes,
\* lapsing locks, running tasks that rewrite the schedule and users interleave.  This is
\* what the Redis lock of dispatch_due_sources and the commit before the sends are for.
OneTaskPerDueCycle == \A s \in Sources : sent[s] <= 1 + outlived[s]

\* A task that ends without success and is not retried leaves a trace: an entry in
\* the dead-letter queue; only a crash or a failure of Redis loses it silently.
NoSilentDrop ==
    [][\A t \in Tasks :
          task[t].st = "running" /\ task'[t].st = "free" =>
             \/ task[t].src \in dlq'
             \/ wait'[task[t].src] = task[t].freq
             \/ faults' > faults]_vars

\* A due source has a task sent for it in the end, unless it is deleted: neither a lock left
\* behind by an execution that died nor a batch that was committed and never sent costs
\* more than the wait until it is due again.
DueIsDispatched ==
    \A s \in Sources : (s \in Due) ~> (sent[s] > 0 \/ s \notin Rows)

\* Every task comes to an end: a failing scrape is not retried for ever.
TaskTerminates ==
    \A t \in Tasks : (task[t].st # "free") ~> (task[t].st = "free")
=============================================================================
