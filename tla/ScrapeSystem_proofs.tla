------------------------ MODULE ScrapeSystem_proofs -------------------------
(***************************************************************************)
(* Proofs about ScrapeSystem: what the first attempt of a task commits,    *)
(* its retries find again.                                                 *)
(***************************************************************************)
EXTENDS ScrapeSystem, SequenceTheorems, TLAPS

Scrapers == Tasks \cup Jobs
Messages == [st : {"free", "queued", "running"}, src : Sources \cup {None},
             retries : Nat, freq : Nat]
JobRows == [status : {"none"} \cup Manual!ActiveStatus \cup Manual!FinalStatus,
            src : Sources \cup {None}]

\* The types, part by part.
TaskTypes ==
    /\ task \in [Tasks -> Messages]
    /\ \A t \in Tasks : task[t].st # "free" => task[t].src \in Sources
    /\ freq \in [Sources -> Frequencies]
    /\ found \in [Tasks -> Nat]
JobTypes ==
    /\ job \in [Jobs -> JobRows]
    /\ runner \in [Jobs -> {"none", "spawned", "scraping"}]
    /\ \A j \in Jobs : runner[j] # "none" => job[j].src \in Sources /\ job[j].status # "none"
ScrapeTypes ==
    /\ run \in [Scrapers -> Pipeline!RunState]
    /\ \A r \in Scrapers : run[r].pc # "idle" => run[r].src \in Sources
    /\ \A r \in Scrapers : run[r].pc \in {"compare", "analyze", "persist"} => run[r].hash \in Hashes
    /\ page \in [Sources -> Hashes]
    /\ revs \in [Sources -> Seq(Pipeline!Revision)]
SystemTypes == TaskTypes /\ JobTypes /\ ScrapeTypes

\* A scrape is under way exactly for a caller that waits for it, on the source it is about.
Partners ==
    /\ \A t \in Tasks : task[t].st = "running" <=> run[t].pc # "idle"
    /\ \A j \in Jobs : runner[j] = "scraping" <=> run[j].pc # "idle"
    /\ \A t \in Tasks : task[t].st = "running" => run[t].src = task[t].src

-----------------------------------------------------------------------------
(* Messages of tasks.                                                      *)

\* A step that gives task t the message m.
LEMMA TaskBecomes ==
    ASSUME TaskTypes, NEW t \in Tasks, NEW m \in Messages,
           m.st # "free" => m.src \in Sources,
           task' = [task EXCEPT ![t] = m], freq' = freq, found' \in [Tasks -> Nat]
    PROVE  TaskTypes'
BY DEF TaskTypes

\* What the scheduler does to its tasks, when it ends one, sends or retries it.
LEMMA FreeTyped ==
    /\ Schedule!FreeTask \in Messages /\ Schedule!FreeTask.st = "free"
    /\ \A s \in Sources :
          LET m == [Schedule!FreeTask EXCEPT !.st = "queued", !.src = s]
          IN  m \in Messages /\ m.st = "queued" /\ m.src = s
<1>0. Schedule!FreeTask \in Messages /\ Schedule!FreeTask.st = "free"
    BY DEF Messages, Schedule!FreeTask
<1>1. PICK m \in Messages : m = Schedule!FreeTask /\ m.st = "free"
    BY <1>0
<1>2. ASSUME NEW s \in Sources
      PROVE  /\ [m EXCEPT !.st = "queued", !.src = s] \in Messages
             /\ [m EXCEPT !.st = "queued", !.src = s].st = "queued"
             /\ [m EXCEPT !.st = "queued", !.src = s].src = s
    BY DEF Messages
<1> QED  BY <1>1, <1>2

\* The scheduler's own steps leave the running tasks alone, and start what they send anew.
Settled(t) ==
    /\ task'[t].st = "running" <=> task[t].st = "running"
    /\ task'[t].st = "running" => task'[t].src = task[t].src
    /\ task'[t].st # "free" =>
          \/ found'[t] = 0
          \/ task[t].st # "free" /\ task'[t].src = task[t].src /\ found'[t] = found[t]

LEMMA ScheduleTypes ==
    ASSUME SystemTypes, ScheduleAlone
    PROVE  TaskTypes' /\ \A t \in Tasks : Settled(t)
<1>0. TaskTypes /\ task \in [Tasks -> Messages] /\ found \in [Tasks -> Nat]
      /\ found' = [t \in Tasks |-> IF task[t].st = "free" THEN 0 ELSE found[t]]
    BY DEF SystemTypes, TaskTypes, ScheduleAlone
<1>1. found' \in [Tasks -> Nat]  BY <1>0
<1>2. CASE task' = task /\ freq' \in [Sources -> Frequencies]
  <2>1. TaskTypes'  BY <1>0, <1>1, <1>2 DEF TaskTypes
  <2>2. \A t \in Tasks : Settled(t)  BY <1>0, <1>2 DEF Settled
  <2> QED  BY <2>1, <2>2
<1>3. ASSUME NEW t \in Tasks, NEW m \in Messages, task' = [task EXCEPT ![t] = m], freq' = freq,
             \/ task[t].st = "free" /\ m.st = "queued" /\ m.src \in Sources
             \/ task[t].st = "queued" /\ m.st = "free"
      PROVE  TaskTypes' /\ \A u \in Tasks : Settled(u)
  <2>1. TaskTypes'  BY <1>0, <1>1, <1>3, TaskBecomes
  <2>2. ASSUME NEW u \in Tasks PROVE Settled(u)
    <3>1. CASE u = t  BY <1>0, <1>3, <3>1 DEF Settled
    <3>2. CASE u # t  BY <1>0, <1>3, <3>2 DEF Settled
    <3> QED  BY <3>1, <3>2
  <2> QED  BY <2>1, <2>2
<1>4. ASSUME NEW d \in Dispatchers, NEW s \in Sources, NEW t \in Tasks, Schedule!SendTask(d, s, t)
      PROVE  TaskTypes' /\ \A u \in Tasks : Settled(u)
  <2>1. PICK m \in Messages : /\ m = [Schedule!FreeTask EXCEPT !.st = "queued", !.src = s]
                              /\ m.st = "queued" /\ m.src = s
      BY FreeTyped
  <2>2. task[t].st = "free" /\ task' = [task EXCEPT ![t] = m] /\ freq' = freq
      BY <1>4, <2>1 DEF Schedule!SendTask, Schedule!tables
  <2> QED  BY <1>3, <2>1, <2>2
<1>5. ASSUME NEW t \in Tasks, Schedule!SourceNotFound(t)
      PROVE  TaskTypes' /\ \A u \in Tasks : Settled(u)
  <2>1. PICK m \in Messages : m = Schedule!FreeTask /\ m.st = "free"  BY FreeTyped
  <2>2. task[t].st = "queued" /\ task' = [task EXCEPT ![t] = m] /\ freq' = freq
      BY <1>5, <2>1 DEF Schedule!SourceNotFound, Schedule!tables
  <2> QED  BY <1>3, <2>1, <2>2
<1>6. freq \in [Sources -> Frequencies]  BY <1>0 DEF TaskTypes
<1>7. ASSUME NEW s \in Sources, NEW f \in Frequencies, Schedule!UpdateFrequency(s, f)
      PROVE  task' = task /\ freq' \in [Sources -> Frequencies]
    BY <1>6, <1>7 DEF Schedule!UpdateFrequency
<1>8. ASSUME \/ Schedule!Tick \/ Schedule!LockLapses
             \/ \E s \in Sources : Schedule!CreateSource(s)
             \/ \E d \in Dispatchers :
                   \/ Schedule!AcquireLock(d) \/ Schedule!SelectBatch(d) \/ Schedule!CommitBatch(d)
                   \/ Schedule!CommitStale(d) \/ Schedule!BatchDone(d) \/ Schedule!DispatchAborts(d)
      PROVE  task' = task /\ freq' \in [Sources -> Frequencies]
    BY <1>6, <1>8 DEF Schedule!Tick, Schedule!LockLapses, Schedule!CreateSource,
       Schedule!AcquireLock, Schedule!SelectBatch, Schedule!CommitBatch, Schedule!CommitStale, Schedule!BatchDone,
       Schedule!DispatchAborts, Schedule!tables
<1> QED  BY <1>2, <1>4, <1>5, <1>7, <1>8 DEF ScheduleAlone, Schedule!DispatchStep

\* A task that has begun is given back or given up; its caller's part in TaskRaised and
\* WorkerCrash.
TaskEnds(t) ==
    \/ Schedule!RetryTask(t) \/ Schedule!RetryLost(t) \/ Schedule!DeadLetter(t)
    \/ Schedule!DeadLetterFails(t) \/ Schedule!WorkerCrash(t)

LEMMA TaskEndsAs ==
    ASSUME SystemTypes, NEW t \in Tasks, TaskEnds(t)
    PROVE  /\ task[t].st = "running" /\ freq' = freq
           /\ \E m \in Messages :
                 /\ task' = [task EXCEPT ![t] = m]
                 /\ m.st \in {"free", "queued"}
                 /\ m.st = "queued" => m.src = task[t].src
<1>0. task \in [Tasks -> Messages] /\ \A u \in Tasks : task[u].st # "free" => task[u].src \in Sources
    BY DEF SystemTypes, TaskTypes
<1>1. PICK m \in Messages : m = Schedule!FreeTask /\ m.st = "free"  BY FreeTyped
<1>2. CASE Schedule!RetryTask(t)
  <2>1. task[t].st = "running" /\ freq' = freq
      BY <1>2 DEF Schedule!RetryTask
  <2>2. PICK s \in Sources, n \in Nat : s = task[t].src /\ n = task[t].retries
      BY <1>0, <2>1 DEF Messages
  <2>3. [st |-> "queued", src |-> s, retries |-> n + 1, freq |-> 0] \in Messages
      BY DEF Messages
  <2>4. PICK k \in Messages : k = [st |-> "queued", src |-> s, retries |-> n + 1, freq |-> 0]
      BY <2>3
  <2>5. k.st = "queued" /\ k.src = s  BY <2>4
  <2>6. task' = [task EXCEPT ![t] = k]  BY <1>2, <2>2, <2>4 DEF Schedule!RetryTask
  <2> QED  BY <2>1, <2>2, <2>5, <2>6
<1>3. CASE \/ Schedule!RetryLost(t) \/ Schedule!DeadLetterFails(t)
           \/ Schedule!DeadLetter(t) \/ Schedule!WorkerCrash(t)
  <2>1. task[t].st = "running" /\ freq' = freq /\ task' = [task EXCEPT ![t] = m]
      BY <1>1, <1>3 DEF Schedule!RetryLost, Schedule!DeadLetterFails, Schedule!DeadLetter,
         Schedule!WorkerCrash, Schedule!tables
  <2> QED  BY <1>1, <2>1
<1> QED  BY <1>2, <1>3 DEF TaskEnds

LEMMA TaskStarts ==
    ASSUME SystemTypes, NEW t \in Tasks, Schedule!StartTask(t), found' = found
    PROVE  /\ TaskTypes' /\ task[t].st = "queued" /\ task'[t].st = "running"
           /\ task'[t].src = task[t].src /\ task[t].src \in Sources
           /\ \A u \in Tasks : u # t => task'[u] = task[u]
<1>0. /\ task \in [Tasks -> Messages] /\ freq \in [Sources -> Frequencies]
      /\ \A u \in Tasks : task[u].st # "free" => task[u].src \in Sources
      /\ TaskTypes /\ found \in [Tasks -> Nat]
    BY DEF SystemTypes, TaskTypes
<1>1. /\ task[t].st = "queued" /\ freq' = freq
      /\ task' = [task EXCEPT ![t].st = "running", ![t].freq = freq[task[t].src]]
    BY DEF Schedule!StartTask, Schedule!tables
<1>2. PICK m \in Messages : m = task[t]  BY <1>0
<1>3. PICK f \in Nat : f = freq[m.src]  BY <1>0, <1>1, <1>2, SystemAssumption
<1>4. [m EXCEPT !.st = "running", !.freq = f] \in Messages  BY DEF Messages
<1>5. PICK k \in Messages : k = [m EXCEPT !.st = "running", !.freq = f]  BY <1>4
<1>6. k.st = "running" /\ k.src = m.src  BY <1>5 DEF Messages
<1>7. task' = [task EXCEPT ![t] = k]  BY <1>0, <1>1, <1>2, <1>3, <1>5
<1>8. TaskTypes'  BY <1>0, <1>1, <1>2, <1>6, <1>7, TaskBecomes
<1> QED  BY <1>0, <1>1, <1>2, <1>6, <1>7, <1>8

-----------------------------------------------------------------------------
(* Jobs and their runners.                                                 *)

LEMMA JobBecomes ==
    ASSUME JobTypes, NEW j \in Jobs, NEW r \in JobRows,
           NEW state \in {"none", "spawned", "scraping"},
           state # "none" => r.src \in Sources /\ r.status # "none",
           job' = [job EXCEPT ![j] = r], runner' = [runner EXCEPT ![j] = state]
    PROVE  JobTypes' /\ runner'[j] = state /\ \A k \in Jobs : k # j => runner'[k] = runner[k]
BY DEF JobTypes

LEMMA StatusTyped ==
    ASSUME NEW r \in JobRows, NEW status \in Manual!ActiveStatus \cup Manual!FinalStatus
    PROVE  \E n \in JobRows :
              n = [r EXCEPT !.status = status] /\ n.src = r.src /\ n.status # "none"
<1>1. [r EXCEPT !.status = status] \in JobRows
    BY DEF JobRows
<1>2. status # "none"  BY DEF Manual!ActiveStatus, Manual!FinalStatus
<1>3. [r EXCEPT !.status = status].src = r.src /\ [r EXCEPT !.status = status].status = status
    BY DEF JobRows
<1> QED  BY <1>1, <1>2, <1>3

\* One step of one job's runner.
LEMMA RunnerMoves ==
    ASSUME JobTypes, NEW j \in Jobs, NEW state \in {"none", "spawned", "scraping"},
           runner[j] # "none", runner' = [runner EXCEPT ![j] = state],
           \/ job' = job
           \/ \E status \in Manual!ActiveStatus \cup Manual!FinalStatus :
                 job' = [job EXCEPT ![j].status = status]
    PROVE  JobTypes' /\ runner'[j] = state /\ \A k \in Jobs : k # j => runner'[k] = runner[k]
<1>0. job \in [Jobs -> JobRows] /\ runner \in [Jobs -> {"none", "spawned", "scraping"}]
      /\ job[j].src \in Sources /\ job[j].status # "none"
    BY DEF JobTypes
<1>1. PICK r \in JobRows : r = job[j]  BY <1>0
<1>2. CASE job' = job
  <2>1. job' = [job EXCEPT ![j] = r]  BY <1>0, <1>1, <1>2
  <2> QED  BY <1>0, <1>1, <2>1, JobBecomes
<1>3. ASSUME NEW status \in Manual!ActiveStatus \cup Manual!FinalStatus,
             job' = [job EXCEPT ![j].status = status]
      PROVE  JobTypes' /\ runner'[j] = state /\ \A k \in Jobs : k # j => runner'[k] = runner[k]
  <2>1. PICK n \in JobRows : n = [r EXCEPT !.status = status] /\ n.src = r.src /\ n.status # "none"
      BY StatusTyped
  <2>2. job' = [job EXCEPT ![j] = n]  BY <1>0, <1>1, <1>3, <2>1
  <2> QED  BY <1>0, <1>1, <2>1, <2>2, JobBecomes
<1> QED  BY <1>2, <1>3

LEMMA ManualTypes ==
    ASSUME SystemTypes, ManualAlone
    PROVE  /\ JobTypes'
           /\ \A j \in Jobs : runner'[j] = "scraping" <=> runner[j] = "scraping"
<1>0. JobTypes /\ job \in [Jobs -> JobRows] /\ runner \in [Jobs -> {"none", "spawned", "scraping"}]
    BY DEF SystemTypes, JobTypes
<1>1. CASE \E s \in Sources : row[s] = "row" /\ Manual!ToggleActive(s)
  <2>1. UNCHANGED <<job, runner>>  BY <1>1 DEF Manual!ToggleActive
  <2> QED  BY <1>0, <2>1 DEF JobTypes
<1>2. ASSUME NEW j \in Jobs, NEW s \in Sources, Manual!Trigger(j, s) \/ Manual!TriggerCutShort(j, s)
      PROVE  JobTypes' /\ \A k \in Jobs : runner'[k] = "scraping" <=> runner[k] = "scraping"
  <2>1. [status |-> "PENDING", src |-> s] \in JobRows  BY DEF JobRows, Manual!ActiveStatus
  <2>2. PICK r \in JobRows : /\ r = [status |-> "PENDING", src |-> s]
                             /\ r.src = s /\ r.status # "none"
      BY <2>1
  <2>3. job' = [job EXCEPT ![j] = r] /\ job[j].status = "none"
      BY <1>2, <2>2 DEF Manual!Trigger, Manual!TriggerCutShort
  <2>4. runner[j] = "none"  BY <1>0, <2>3 DEF JobTypes
  <2>5. PICK state \in {"none", "spawned"} : runner' = [runner EXCEPT ![j] = state]
      BY <1>0, <1>2, <2>4 DEF Manual!Trigger, Manual!TriggerCutShort
  <2> QED  BY <1>0, <2>2, <2>3, <2>4, <2>5, JobBecomes
<1>3. ASSUME NEW j \in Jobs, Manual!StartFails(j)
      PROVE  JobTypes' /\ \A k \in Jobs : runner'[k] = "scraping" <=> runner[k] = "scraping"
  <2>1. /\ runner[j] = "spawned" /\ runner' = [runner EXCEPT ![j] = "none"]
        /\ \/ job' = job
           \/ \E status \in Manual!ActiveStatus \cup Manual!FinalStatus :
                 job' = [job EXCEPT ![j].status = status]
      BY <1>3 DEF Manual!StartFails, Manual!ActiveStatus
  <2> QED  BY <1>0, <2>1, RunnerMoves
<1> QED  BY <1>1, <1>2, <1>3 DEF ManualAlone

-----------------------------------------------------------------------------
(* Scrapes.  One that began on a source never overlapped is alone there until *)
(* it has committed or given up, so the revision it compared with is still    *)
(* the latest one when it commits.                                            *)

Holding == {"compare", "analyze", "persist"}
Busy(r, s) == run[r].src = s /\ run[r].pc \in {"fetch", "compare", "analyze", "persist"}

Lonely ==
    \A s \in Sources \ overlapped : \A r, q \in Scrapers : Busy(r, s) /\ Busy(q, s) => r = q

\* What a scrape knows of the latest revision of its source.
Judged(x) ==
    /\ x.pc \in {"fetch", "compare", "analyze"} => ~x.changed
    /\ x.pc \in {"analyze", "persist"} /\ x.src \notin overlapped =>
          /\ x.last = Len(revs[x.src])
          /\ (x.pc = "analyze" \/ x.changed) =>
                x.last = 0 \/ revs[x.src][x.last].hash # x.hash
Judgements == \A r \in Scrapers : Judged(run[r])

\* Once an attempt of a task has committed the page as it is, the latest revision and
\* every scrape that has fetched agree with the page.
FoundOnce ==
    \A t \in Tasks :
        LET s == task[t].src
        IN  task[t].st # "free" /\ s \notin overlapped /\ found[t] # 0 =>
               /\ found[t] = 1
               /\ revs[s] # <<>> /\ revs[s][Len(revs[s])].hash = page[s]
               /\ \A r \in Scrapers :
                     run[r].src = s /\ run[r].pc \in Holding => run[r].hash = page[s]

\* The inductive invariant.
SystemInv == SystemTypes /\ Partners /\ Lonely /\ Judgements /\ FoundOnce

\* A task keeps the count of its finds, or begins anew.
Remembered(t) ==
    task'[t].st # "free" =>
       \/ found'[t] = 0
       \/ task[t].st # "free" /\ task'[t].src = task[t].src /\ found'[t] = found[t]

\* Steps of the callers alone.
LEMMA ScrapesStay ==
    ASSUME SystemInv, \A t \in Tasks : Remembered(t),
           UNCHANGED <<page, revs, run, overlapped>>
    PROVE  ScrapeTypes' /\ Lonely' /\ Judgements' /\ FoundOnce'
<1>1. ScrapeTypes' /\ Lonely'
    BY DEF SystemInv, SystemTypes, ScrapeTypes, Lonely, Busy
<1>2. Judgements'
    BY DEF SystemInv, Judgements, Judged
<1>3. FoundOnce'
    BY DEF SystemInv, FoundOnce, Remembered
<1> QED  BY <1>1, <1>2, <1>3

\* Scrape r goes on as y, and commits nothing.
LEMMA ScrapeMoves ==
    ASSUME SystemInv, NEW r \in Scrapers, NEW y \in Pipeline!RunState,
           run' = [run EXCEPT ![r] = y], UNCHANGED <<page, revs>>,
           overlapped \subseteq overlapped',
           y.pc # "idle" => y.src \in Sources,
           y.pc \in Holding => y.hash \in Hashes,
           y.pc \in {"fetch", "compare", "analyze", "persist"} =>
              \/ Busy(r, y.src)
              \/ y.src \in overlapped'
              \/ \A q \in Scrapers : ~Busy(q, y.src),
           Judged(y),
           y.pc \in Holding =>
              \/ y.hash = page[y.src]
              \/ run[r].pc \in Holding /\ run[r].src = y.src /\ run[r].hash = y.hash,
           \A t \in Tasks : Remembered(t)
    PROVE  ScrapeTypes' /\ Lonely' /\ Judgements' /\ FoundOnce'
<1>0. /\ run \in [Scrapers -> Pipeline!RunState] /\ ScrapeTypes /\ Lonely /\ Judgements
      /\ FoundOnce
    BY DEF SystemInv, SystemTypes, ScrapeTypes
<1>1. run'[r] = y /\ \A q \in Scrapers : q # r => run'[q] = run[q]
    BY <1>0
<1>2. ScrapeTypes'
  <2>1. run' \in [Scrapers -> Pipeline!RunState]  BY <1>0
  <2> QED  BY <1>0, <1>1, <2>1 DEF ScrapeTypes, Holding
<1>3. Lonely'
  <2>1. ASSUME NEW s \in Sources \ overlapped', NEW p \in Scrapers, NEW q \in Scrapers,
               Busy(p, s)', Busy(q, s)'
        PROVE  p = q
    <3>1. s \in Sources \ overlapped  OBVIOUS
    <3>2. \A u \in Scrapers : u # r /\ Busy(u, s)' => Busy(u, s)
        BY <1>1 DEF Busy
    <3>3. Busy(r, s)' => Busy(r, s) \/ \A u \in Scrapers : ~Busy(u, s)
        BY <1>1 DEF Busy
    <3> QED  BY <1>0, <2>1, <3>1, <3>2, <3>3 DEF Lonely
  <2> QED  BY <2>1 DEF Lonely
<1>4. Judgements'
  <2>1. ASSUME NEW q \in Scrapers PROVE Judged(run[q])'
    <3>1. CASE q = r  BY <1>1, <3>1 DEF Judged
    <3>2. CASE q # r  BY <1>0, <1>1, <3>2 DEF Judgements, Judged
    <3> QED  BY <3>1, <3>2
  <2> QED  BY <2>1 DEF Judgements
<1>5. FoundOnce'
  <2>1. ASSUME NEW t \in Tasks, task'[t].st # "free", task'[t].src \notin overlapped', found'[t] # 0
        PROVE  /\ found'[t] = 1
               /\ revs'[task'[t].src] # <<>>
               /\ revs'[task'[t].src][Len(revs'[task'[t].src])].hash = page'[task'[t].src]
               /\ \A q \in Scrapers :
                     run'[q].src = task'[t].src /\ run'[q].pc \in Holding =>
                        run'[q].hash = page'[task'[t].src]
    <3>1. task[t].st # "free" /\ task'[t].src = task[t].src /\ found'[t] = found[t]
        BY <2>1 DEF Remembered
    <3>2. PICK s : s = task[t].src /\ s = task'[t].src /\ s \notin overlapped
        BY <2>1, <3>1
    <3>3. /\ found[t] = 1 /\ revs[s] # <<>> /\ revs[s][Len(revs[s])].hash = page[s]
          /\ \A q \in Scrapers : run[q].src = s /\ run[q].pc \in Holding => run[q].hash = page[s]
        BY <1>0, <2>1, <3>1, <3>2 DEF FoundOnce
    <3>4. \A q \in Scrapers : run'[q].src = s /\ run'[q].pc \in Holding => run'[q].hash = page[s]
        BY <1>1, <3>3
    <3> QED  BY <3>1, <3>2, <3>3, <3>4
  <2> QED  BY <2>1 DEF FoundOnce
<1> QED  BY <1>2, <1>3, <1>4, <1>5

\* What a scrape's record becomes.
LEMMA PhaseTyped ==
    ASSUME NEW x \in Pipeline!RunState, NEW pc \in Pipeline!Phases
    PROVE  \E y \in Pipeline!RunState :
              /\ y = [x EXCEPT !.pc = pc]
              /\ y.pc = pc /\ y.src = x.src
<1>1. [x EXCEPT !.pc = pc] \in Pipeline!RunState
    BY DEF Pipeline!RunState
<1> QED  BY <1>1 DEF Pipeline!RunState

LEMMA FetchTyped ==
    ASSUME NEW x \in Pipeline!RunState, NEW h \in Hashes
    PROVE  \E y \in Pipeline!RunState :
              /\ y = [x EXCEPT !.pc = "compare", !.hash = h]
              /\ y.pc = "compare" /\ y.hash = h /\ y.src = x.src /\ y.changed = x.changed
<1>1. [x EXCEPT !.pc = "compare", !.hash = h] \in Pipeline!RunState
    BY DEF Pipeline!RunState, Pipeline!Phases
<1> QED  BY <1>1 DEF Pipeline!RunState

LEMMA AnalyzeTyped ==
    ASSUME NEW x \in Pipeline!RunState, NEW changed \in BOOLEAN
    PROVE  \E y \in Pipeline!RunState :
              /\ y = [x EXCEPT !.pc = "persist", !.changed = changed]
              /\ y.pc = "persist" /\ y.changed = changed
              /\ y.src = x.src /\ y.hash = x.hash /\ y.last = x.last
<1>1. [x EXCEPT !.pc = "persist", !.changed = changed] \in Pipeline!RunState
    BY DEF Pipeline!RunState, Pipeline!Phases
<1> QED  BY <1>1 DEF Pipeline!RunState

LEMMA RaisedTyped ==
    ASSUME NEW x \in Pipeline!RunState
    PROVE  \E y \in Pipeline!RunState :
              /\ y = [x EXCEPT !.pc = "raised"]
              /\ y.pc = "raised" /\ y.src = x.src
<1>1. [x EXCEPT !.pc = "raised"] \in Pipeline!RunState
    BY DEF Pipeline!RunState, Pipeline!Phases
<1> QED  BY <1>1 DEF Pipeline!RunState

LEMMA IdleTyped ==
    /\ Pipeline!IdleRun \in Pipeline!RunState /\ Pipeline!IdleRun.pc = "idle"
    /\ \A s \in Sources : \E y \in Pipeline!RunState :
          /\ y = [Pipeline!IdleRun EXCEPT !.pc = "fetch", !.src = s]
          /\ y.pc = "fetch" /\ y.src = s /\ ~y.changed
<1>1. Pipeline!IdleRun \in Pipeline!RunState /\ Pipeline!IdleRun.pc = "idle" /\ ~Pipeline!IdleRun.changed
    BY DEF Pipeline!IdleRun, Pipeline!RunState, Pipeline!Phases
<1>2. PICK x \in Pipeline!RunState : x = Pipeline!IdleRun /\ ~x.changed
    BY <1>1
<1>3. ASSUME NEW s \in Sources
      PROVE  \E y \in Pipeline!RunState :
                /\ y = [x EXCEPT !.pc = "fetch", !.src = s]
                /\ y.pc = "fetch" /\ y.src = s /\ ~y.changed
  <2>1. [x EXCEPT !.pc = "fetch", !.src = s] \in Pipeline!RunState
      BY DEF Pipeline!RunState, Pipeline!Phases
  <2>2. [x EXCEPT !.pc = "fetch", !.src = s].changed = x.changed
      BY DEF Pipeline!RunState
  <2>3. /\ [x EXCEPT !.pc = "fetch", !.src = s].pc = "fetch"
        /\ [x EXCEPT !.pc = "fetch", !.src = s].src = s
      BY DEF Pipeline!RunState
  <2> QED  BY <1>2, <2>1, <2>2, <2>3
<1> QED  BY <1>1, <1>2, <1>3

\* A step of a scrape that commits nothing.
LEMMA UncommittedStep ==
    ASSUME SystemInv, NEW r \in Scrapers, ~Pipeline!Persist(r), Pipeline!Step(r),
           \A t \in Tasks : task'[t] = task[t],
           \A t \in Tasks : ~(run[r].pc = "persist" /\ run'[r].pc = "notify") => found'[t] = found[t]
    PROVE  /\ ScrapeTypes' /\ Lonely' /\ Judgements' /\ FoundOnce'
           /\ ~(run[r].pc = "persist" /\ run'[r].pc = "notify")
           /\ run[r].pc # "idle" /\ run'[r].pc # "idle" /\ run'[r].src = run[r].src
           /\ \A q \in Scrapers : q # r => run'[q] = run[q]
<1>0. /\ run \in [Scrapers -> Pipeline!RunState] /\ page \in [Sources -> Hashes]
      /\ revs \in [Sources -> Seq(Pipeline!Revision)]
      /\ Judged(run[r])
      /\ run[r].pc # "idle" => run[r].src \in Sources
      /\ run[r].pc \in Holding => run[r].hash \in Hashes
    BY DEF SystemInv, SystemTypes, ScrapeTypes, Judgements, Holding
<1>1. PICK x \in Pipeline!RunState : x = run[r]
    BY <1>0
<1>2. ASSUME NEW y \in Pipeline!RunState, run' = [run EXCEPT ![r] = y], UNCHANGED <<page, revs, overlapped>>,
             x.pc # "idle", y.pc # "idle", y.src = x.src, y.pc # "notify" \/ x.pc # "persist",
             y.pc \in {"fetch", "compare", "analyze", "persist"} =>
                x.pc \in {"fetch", "compare", "analyze", "persist"},
             y.pc \in Holding =>
                /\ y.hash \in Hashes
                /\ y.hash = page[y.src] \/ (x.pc \in Holding /\ y.hash = x.hash),
             Judged(y)
      PROVE  /\ ScrapeTypes' /\ Lonely' /\ Judgements' /\ FoundOnce'
             /\ ~(run[r].pc = "persist" /\ run'[r].pc = "notify")
             /\ run[r].pc # "idle" /\ run'[r].pc # "idle" /\ run'[r].src = run[r].src
             /\ \A q \in Scrapers : q # r => run'[q] = run[q]
  <2>1. run'[r] = y /\ \A q \in Scrapers : q # r => run'[q] = run[q]
      BY <1>0, <1>2
  <2>2. \A t \in Tasks : found'[t] = found[t]
      BY <1>1, <1>2, <2>1
  <2>3. \A t \in Tasks : Remembered(t)
      BY <2>2 DEF Remembered
  <2>4. ScrapeTypes' /\ Lonely' /\ Judgements' /\ FoundOnce'
      BY <1>0, <1>1, <1>2, <2>3, ScrapeMoves DEF Busy
  <2> QED  BY <1>1, <1>2, <2>1, <2>4
<1>3. CASE Pipeline!Fetch(r)
  <2>1. PICK h \in Hashes : h = page[x.src]
      BY <1>0, <1>1, <1>3 DEF Pipeline!Fetch
  <2>2. PICK y \in Pipeline!RunState :
           /\ y = [x EXCEPT !.pc = "compare", !.hash = h]
           /\ y.pc = "compare" /\ y.hash = h /\ y.src = x.src /\ y.changed = x.changed
      BY FetchTyped
  <2>3. x.pc = "fetch" /\ run' = [run EXCEPT ![r] = y] /\ UNCHANGED <<page, revs, overlapped>>
      BY <1>0, <1>1, <1>3, <2>1, <2>2 DEF Pipeline!Fetch
  <2>4. Judged(y)  BY <1>0, <1>1, <2>2, <2>3 DEF Judged
  <2>5. y.hash \in Hashes /\ y.hash = page[y.src]  BY <2>1, <2>2
  <2>6. y.pc = "compare" /\ y.src = x.src  BY <2>2
  <2> QED  BY <1>2, <2>3, <2>4, <2>5, <2>6
<1>4. CASE Pipeline!Compare(r)
  <2> DEFINE history == revs[x.src]
             unchanged == history # <<>> /\ history[Len(history)].hash = x.hash
  <2>1. x.pc = "compare" /\ x.src \in Sources /\ history \in Seq(Pipeline!Revision)
      BY <1>0, <1>1, <1>4 DEF Pipeline!Compare
  <2>2. PICK n \in Nat : n = Len(history)
      BY <2>1, LenProperties
  <2>3. PICK pc \in Pipeline!Phases : pc \in {"analyze", "persist"} /\ pc = IF unchanged THEN "persist" ELSE "analyze"
      BY DEF Pipeline!Phases
  <2>4. PICK y \in Pipeline!RunState :
           /\ y = [x EXCEPT !.pc = pc, !.last = n] /\ y.pc = pc /\ y.last = n
           /\ y.src = x.src /\ y.hash = x.hash /\ y.changed = x.changed
    <3>1. [x EXCEPT !.pc = pc, !.last = n] \in Pipeline!RunState
        BY DEF Pipeline!RunState
    <3> QED  BY <3>1 DEF Pipeline!RunState
  <2>5. run' = [run EXCEPT ![r] = y] /\ UNCHANGED <<page, revs, overlapped>>
      BY <1>0, <1>1, <1>4, <2>2, <2>3, <2>4 DEF Pipeline!Compare
  <2>6. ~x.changed  BY <1>0, <1>1, <2>1 DEF Judged
  <2>7. n = 0 <=> history = <<>>
      BY <2>1, <2>2, EmptySeq, LenProperties
  <2>8. Judged(y)
    <3>1. y.pc = "analyze" => n = 0 \/ history[n].hash # x.hash
        BY <2>2, <2>3, <2>4, <2>7
    <3> QED  BY <2>2, <2>4, <2>6, <3>1 DEF Judged
  <2>9. x.pc \in Holding /\ y.hash = x.hash /\ y.hash \in Hashes
      BY <1>0, <1>1, <2>1, <2>4 DEF Holding
  <2>10. y.pc \in {"analyze", "persist"} /\ y.src = x.src  BY <2>3, <2>4
  <2> QED  BY <1>2, <2>1, <2>5, <2>8, <2>9, <2>10
<1>5. CASE Pipeline!Analyze(r)
  <2>1. PICK changed \in BOOLEAN :
           run' = [run EXCEPT ![r].pc = "persist", ![r].changed = changed]
      BY <1>5 DEF Pipeline!Analyze
  <2>2. PICK y \in Pipeline!RunState :
           /\ y = [x EXCEPT !.pc = "persist", !.changed = changed]
           /\ y.pc = "persist" /\ y.changed = changed
           /\ y.src = x.src /\ y.hash = x.hash /\ y.last = x.last
      BY AnalyzeTyped
  <2>3. x.pc = "analyze" /\ run' = [run EXCEPT ![r] = y] /\ UNCHANGED <<page, revs, overlapped>>
      BY <1>0, <1>1, <1>5, <2>1, <2>2 DEF Pipeline!Analyze
  <2>4. Judged(y)  BY <1>0, <1>1, <2>2, <2>3 DEF Judged
  <2> QED  BY <1>0, <1>1, <1>2, <2>2, <2>3, <2>4 DEF Holding
<1>6. CASE Pipeline!FailBeforePersist(r)
  <2>1. PICK y \in Pipeline!RunState :
           y = [x EXCEPT !.pc = "raised"] /\ y.pc = "raised" /\ y.src = x.src
      BY PhaseTyped DEF Pipeline!Phases
  <2>2. /\ x.pc \in {"fetch", "compare", "analyze"}
        /\ run' = [run EXCEPT ![r] = y] /\ UNCHANGED <<page, revs, overlapped>>
      BY <1>0, <1>1, <1>6, <2>1 DEF Pipeline!FailBeforePersist
  <2>3. Judged(y)  BY <2>1 DEF Judged
  <2> QED  BY <1>2, <2>1, <2>2, <2>3 DEF Holding
<1>7. CASE Pipeline!PersistFails(r) \/ Pipeline!NotifyFails(r) \/ Pipeline!CreateTicket(r)
  <2>1. PICK y \in Pipeline!RunState :
           /\ y = [x EXCEPT !.pc = "raised"]
           /\ y.pc = "raised" /\ y.src = x.src
      BY RaisedTyped
  <2>2. /\ x.pc \in {"persist", "notify", "ticket"}
        /\ run' = [run EXCEPT ![r] = y] /\ UNCHANGED <<page, revs, overlapped>>
      BY <1>0, <1>1, <1>7, <2>1 DEF Pipeline!PersistFails, Pipeline!NotifyFails, Pipeline!CreateTicket
  <2>3. Judged(y)  BY <2>1 DEF Judged
  <2> QED  BY <1>2, <2>1, <2>2, <2>3 DEF Holding
<1>8. CASE Pipeline!Notify(r)
  <2>1. PICK y \in Pipeline!RunState :
           y = [x EXCEPT !.pc = "ticket"] /\ y.pc = "ticket" /\ y.src = x.src
      BY PhaseTyped DEF Pipeline!Phases
  <2>2. /\ x.pc = "notify"
        /\ run' = [run EXCEPT ![r] = y] /\ UNCHANGED <<page, revs, overlapped>>
      BY <1>0, <1>1, <1>8, <2>1 DEF Pipeline!Notify
  <2>3. Judged(y)  BY <2>1 DEF Judged
  <2> QED  BY <1>2, <2>1, <2>2, <2>3 DEF Holding
<1> QED  BY <1>3, <1>4, <1>5, <1>6, <1>7, <1>8 DEF Pipeline!Step

\* The commit.
LEMMA CommittingStep ==
    ASSUME SystemInv, NEW r \in Scrapers, Pipeline!Persist(r), task' = task,
           found' = [t \in Tasks |->
                       found[t] + IF /\ t = r /\ run[r].pc = "persist" /\ run'[r].pc = "notify"
                                     /\ run[r].hash = page[run[r].src]
                                  THEN 1 ELSE 0]
    PROVE  /\ ScrapeTypes' /\ Lonely' /\ Judgements' /\ FoundOnce'
           /\ found' \in [Tasks -> Nat]
           /\ run[r].pc # "idle" /\ run'[r].pc # "idle" /\ run'[r].src = run[r].src
           /\ \A q \in Scrapers : q # r => run'[q] = run[q]
<1>0. /\ run \in [Scrapers -> Pipeline!RunState] /\ page \in [Sources -> Hashes]
      /\ revs \in [Sources -> Seq(Pipeline!Revision)]
      /\ Judged(run[r]) /\ Lonely /\ Judgements /\ FoundOnce /\ ScrapeTypes
      /\ found \in [Tasks -> Nat] /\ Partners /\ task \in [Tasks -> Messages]
    BY DEF SystemInv, SystemTypes, ScrapeTypes, TaskTypes, Judgements
<1>1. PICK x \in Pipeline!RunState : x = run[r]
    BY <1>0
<1>2. x.pc = "persist" /\ x.src \in Sources /\ x.hash \in Hashes
    BY <1>0, <1>1 DEF Pipeline!Persist, ScrapeTypes
<1>3. PICK s \in Sources : s = x.src
    BY <1>2
<1>4. PICK h \in Seq(Pipeline!Revision) : h = revs[s]
    BY <1>0
<1>5. PICK n \in Nat : n = Len(h)
    BY LenProperties
<1> DEFINE v == [hash |-> x.hash, prev |-> x.last, changed |-> x.changed]
<1>6. v \in Pipeline!Revision /\ v.hash = x.hash
    BY <1>2 DEF Pipeline!Revision, Pipeline!RunState
<1>7. PICK w \in Pipeline!Revision : w = v /\ w.hash = x.hash
    BY <1>6
<1>8. PICK pc \in {"notify", "ticket"} : pc = IF Pipeline!HasDiff(v) THEN "notify" ELSE "ticket"
    OBVIOUS
<1>9. pc = "notify" => x.changed /\ x.last # 0
    BY <1>8 DEF Pipeline!HasDiff
<1>10. PICK y \in Pipeline!RunState :
          y = [x EXCEPT !.pc = pc, !.rev = n + 1] /\ y.pc = pc /\ y.src = s
  <2>1. PICK k \in Nat : k = n + 1  OBVIOUS
  <2>2. [x EXCEPT !.pc = pc, !.rev = k] \in Pipeline!RunState
      BY DEF Pipeline!RunState, Pipeline!Phases
  <2>3. [x EXCEPT !.pc = pc, !.rev = k].pc = pc /\ [x EXCEPT !.pc = pc, !.rev = k].src = s
      BY <1>3 DEF Pipeline!RunState
  <2> QED  BY <2>1, <2>2, <2>3
<1>11. /\ run' = [run EXCEPT ![r] = y] /\ revs' = [revs EXCEPT ![s] = Append(h, w)]
       /\ UNCHANGED <<page, overlapped>>
    BY <1>0, <1>1, <1>3, <1>4, <1>5, <1>7, <1>8, <1>10 DEF Pipeline!Persist
<1>12. /\ run'[r] = y /\ \A q \in Scrapers : q # r => run'[q] = run[q]
       /\ revs'[s] = Append(h, w) /\ \A u \in Sources : u # s => revs'[u] = revs[u]
    BY <1>0, <1>11
<1>13. /\ Append(h, w) \in Seq(Pipeline!Revision) /\ Append(h, w) # <<>>
       /\ Len(Append(h, w)) = n + 1 /\ Append(h, w)[n + 1] = w
    BY <1>5, AppendProperties
<1>14. Busy(r, s)
    BY <1>1, <1>2, <1>3 DEF Busy
<1>15. ScrapeTypes'
  <2>1. run' \in [Scrapers -> Pipeline!RunState]  BY <1>0, <1>11
  <2>2. revs' \in [Sources -> Seq(Pipeline!Revision)]  BY <1>0, <1>11, <1>13
  <2>3. \A q \in Scrapers : run'[q].pc # "idle" => run'[q].src \in Sources
      BY <1>0, <1>10, <1>12 DEF ScrapeTypes
  <2>4. \A q \in Scrapers : run'[q].pc \in {"compare", "analyze", "persist"} => run'[q].hash \in Hashes
      BY <1>0, <1>10, <1>12 DEF ScrapeTypes
  <2> QED  BY <1>0, <1>11, <2>1, <2>2, <2>3, <2>4 DEF ScrapeTypes
<1>16. \A q \in Scrapers, u \in Sources : Busy(q, u)' => q # r /\ Busy(q, u)
    BY <1>10, <1>12 DEF Busy
<1>17. Lonely'
    BY <1>0, <1>11, <1>16 DEF Lonely
<1>18. ASSUME NEW q \in Scrapers, s \notin overlapped, run'[q].src = s,
              run'[q].pc \in {"fetch", "compare", "analyze", "persist"}
       PROVE  FALSE
  <2>1. Busy(q, s)'  BY <1>18 DEF Busy
  <2> QED  BY <1>0, <1>14, <1>16, <1>18, <2>1 DEF Lonely
<1>19. Judgements'
  <2>1. ASSUME NEW q \in Scrapers PROVE Judged(run[q])'
    <3>1. CASE q = r  BY <1>10, <1>12, <3>1 DEF Judged
    <3>2. CASE q # r
      <4>1. PICK z \in Pipeline!RunState : z = run[q] /\ z = run'[q]
          BY <1>0, <1>12, <3>2
      <4>2. z.pc # "idle" => z.src \in Sources  BY <1>0, <4>1 DEF ScrapeTypes
      <4>3. Judged(z)  BY <1>0, <4>1 DEF Judgements
      <4>4. z.pc \in {"fetch", "compare", "analyze"} => ~z.changed  BY <4>3 DEF Judged
      <4>5. ASSUME z.pc \in {"analyze", "persist"}, z.src \notin overlapped
            PROVE  /\ z.last = Len(revs'[z.src])
                   /\ (z.pc = "analyze" \/ z.changed) =>
                         z.last = 0 \/ revs'[z.src][z.last].hash # z.hash
        <5>1. z.src # s  BY <1>18, <4>1, <4>5
        <5>2. revs'[z.src] = revs[z.src]  BY <1>12, <4>2, <4>5, <5>1
        <5> QED  BY <4>3, <4>5, <5>2 DEF Judged
      <4> QED  BY <1>11, <4>1, <4>4, <4>5 DEF Judged
    <3> QED  BY <3>1, <3>2
  <2> QED  BY <2>1 DEF Judgements
<1>20. found' \in [Tasks -> Nat]
    BY <1>0
<1>21. FoundOnce'
  <2>1. ASSUME NEW t \in Tasks, task[t].st # "free", task[t].src \notin overlapped, found'[t] # 0
        PROVE  /\ found'[t] = 1
               /\ revs'[task[t].src] # <<>>
               /\ revs'[task[t].src][Len(revs'[task[t].src])].hash = page[task[t].src]
               /\ \A q \in Scrapers :
                     run'[q].src = task[t].src /\ run'[q].pc \in Holding =>
                        run'[q].hash = page[task[t].src]
    <3> DEFINE u == task[t].src
    <3>1. found[t] # 0 =>
             /\ found[t] = 1 /\ revs[u] # <<>> /\ revs[u][Len(revs[u])].hash = page[u]
             /\ \A q \in Scrapers : run[q].src = u /\ run[q].pc \in Holding => run[q].hash = page[u]
        BY <1>0, <2>1 DEF FoundOnce
    <3>2. CASE u # s
      <4>1. ~(t = r)
          BY <1>0, <1>1, <1>2, <1>3, <3>2 DEF Partners
      <4>2. found'[t] = found[t]  BY <1>0, <4>1
      <4>3. u \in Sources /\ revs'[u] = revs[u]
          BY <1>12, <2>1, <3>2 DEF SystemInv, SystemTypes, TaskTypes
      <4>4. \A q \in Scrapers : run'[q].src = u /\ run'[q].pc \in Holding =>
                run[q].src = u /\ run[q].pc \in Holding /\ run'[q] = run[q]
          BY <1>10, <1>12, <3>2
      <4> QED  BY <2>1, <3>1, <4>2, <4>3, <4>4
    <3>3. CASE u = s
      <4>1. \A q \in Scrapers : ~(run'[q].src = s /\ run'[q].pc \in Holding)
          BY <1>18, <2>1, <3>3 DEF Holding
      <4>2. x.last = n /\ (x.changed => n = 0 \/ h[n].hash # x.hash)
          BY <1>0, <1>1, <1>2, <1>3, <1>4, <1>5, <2>1, <3>3 DEF Judged
      <4>3. found[t] # 0 => h[n].hash = page[s] /\ x.hash = page[s] /\ n # 0
        <5>1. found[t] # 0 => h # <<>> /\ h[n].hash = page[s]
            BY <1>4, <1>5, <3>1, <3>3
        <5>2. h # <<>> => n # 0  BY <1>5, EmptySeq
        <5>3. found[t] # 0 => x.hash = page[s]
            BY <1>1, <1>2, <1>3, <3>1, <3>3 DEF Holding
        <5> QED  BY <5>1, <5>2, <5>3
      <4>4. found[t] # 0 => pc # "notify"
          BY <1>9, <4>2, <4>3
      <4>5. pc = run'[r].pc  BY <1>10, <1>12
      <4>6. CASE found[t] # 0
        <5>1. found'[t] = found[t] + 0  BY <1>0, <4>4, <4>5, <4>6
        <5>2. found'[t] = 1  BY <1>0, <3>1, <4>6, <5>1
        <5>3. w.hash = page[s]  BY <1>7, <4>3, <4>6
        <5> QED  BY <1>12, <1>13, <3>3, <4>1, <5>2, <5>3
      <4>7. CASE found[t] = 0
        <5>1. found'[t] = 1 /\ x.hash = page[s]
            BY <1>0, <1>1, <1>3, <2>1, <4>7
        <5>2. w.hash = page[s]  BY <1>7, <5>1
        <5> QED  BY <1>12, <1>13, <3>3, <4>1, <5>1, <5>2
      <4> QED  BY <4>6, <4>7
    <3> QED  BY <3>2, <3>3
  <2> QED  BY <1>11, <2>1 DEF FoundOnce
<1> QED
    BY <1>1, <1>2, <1>3, <1>10, <1>12, <1>15, <1>17, <1>19, <1>20, <1>21

\* A scrape begins.
LEMMA BeginMoves ==
    ASSUME SystemInv, NEW r \in Scrapers, NEW s \in Sources, Pipeline!Begin(r, s),
           \A t \in Tasks : Remembered(t)
    PROVE  /\ ScrapeTypes' /\ Lonely' /\ Judgements' /\ FoundOnce'
           /\ run[r].pc = "idle" /\ run'[r].pc # "idle" /\ run'[r].src = s
           /\ \A q \in Scrapers : q # r => run'[q] = run[q]
<1>0. run \in [Scrapers -> Pipeline!RunState]
    BY DEF SystemInv, SystemTypes, ScrapeTypes
<1>1. PICK y \in Pipeline!RunState :
         /\ y = [Pipeline!IdleRun EXCEPT !.pc = "fetch", !.src = s]
         /\ y.pc = "fetch" /\ y.src = s /\ ~y.changed
    BY IdleTyped
<1>2. run[r].pc = "idle" /\ run' = [run EXCEPT ![r] = y] /\ UNCHANGED <<page, revs>>
    BY <1>1 DEF Pipeline!Begin
<1>3. overlapped \subseteq overlapped'
    BY DEF Pipeline!Begin
<1>4. s \in overlapped' \/ \A q \in Scrapers : ~Busy(q, s)
    BY DEF Pipeline!Begin, Pipeline!Uncommitted, Busy, Scrapers
<1>5. Judged(y)  BY <1>1 DEF Judged
<1>6. y.pc \notin Holding /\ y.pc # "idle"  BY <1>1 DEF Holding
<1>7. ScrapeTypes' /\ Lonely' /\ Judgements' /\ FoundOnce'
    BY <1>1, <1>2, <1>3, <1>4, <1>5, <1>6, ScrapeMoves
<1> QED  BY <1>0, <1>1, <1>2, <1>7

\* A scrape is over, by its exception or with its process.
LEMMA EndMoves ==
    ASSUME SystemInv, NEW r \in Scrapers, run' = [run EXCEPT ![r] = Pipeline!IdleRun],
           UNCHANGED <<page, revs, overlapped>>, \A t \in Tasks : Remembered(t)
    PROVE  /\ ScrapeTypes' /\ Lonely' /\ Judgements' /\ FoundOnce'
           /\ run'[r].pc = "idle" /\ \A q \in Scrapers : q # r => run'[q] = run[q]
<1>0. run \in [Scrapers -> Pipeline!RunState]
    BY DEF SystemInv, SystemTypes, ScrapeTypes
<1>1. PICK y \in Pipeline!RunState : y = Pipeline!IdleRun /\ y.pc = "idle"
    BY IdleTyped
<1>2. Judged(y) /\ y.pc \notin Holding  BY <1>1 DEF Judged, Holding
<1>3. ScrapeTypes' /\ Lonely' /\ Judgements' /\ FoundOnce'
    BY <1>1, <1>2, ScrapeMoves
<1> QED  BY <1>0, <1>1, <1>3

-----------------------------------------------------------------------------
(* The invariant is inductive: one lemma for each disjunct of Next.        *)

LEMMA InitHolds == Init => SystemInv
<1> SUFFICES ASSUME Init PROVE SystemInv
    OBVIOUS
<1>0. /\ task = [t \in Tasks |-> Schedule!FreeTask] /\ freq \in [Sources -> Frequencies]
      /\ found = [t \in Tasks |-> 0]
      /\ job = [j \in Jobs |-> Manual!NoJob] /\ runner = [j \in Jobs |-> "none"]
      /\ run = [r \in Scrapers |-> Pipeline!IdleRun] /\ page \in [Sources -> Hashes]
      /\ revs = [s \in Sources |-> <<>>]
    BY DEF Init, Schedule!Init, Manual!Init, Pipeline!Init, Scrapers
<1>1. TaskTypes  BY <1>0, FreeTyped DEF TaskTypes
<1>2. Manual!NoJob \in JobRows  BY DEF Manual!NoJob, JobRows
<1>3. JobTypes  BY <1>0, <1>2 DEF JobTypes
<1>4. \A r \in Scrapers : run[r].pc = "idle"  BY <1>0, IdleTyped
<1>5. ScrapeTypes
  <2>1. run \in [Scrapers -> Pipeline!RunState]  BY <1>0, IdleTyped
  <2>2. revs \in [Sources -> Seq(Pipeline!Revision)]  BY <1>0
  <2> QED  BY <1>0, <1>4, <2>1, <2>2 DEF ScrapeTypes
<1>6. Partners
    BY <1>0, <1>4, FreeTyped DEF Partners, Scrapers
<1>7. Lonely  BY <1>4 DEF Lonely, Busy
<1>8. Judgements  BY <1>4 DEF Judgements, Judged
<1>9. FoundOnce  BY <1>0 DEF FoundOnce
<1> QED  BY <1>1, <1>3, <1>5, <1>6, <1>7, <1>8, <1>9 DEF SystemInv, SystemTypes

LEMMA ScheduleAloneHolds ==
    ASSUME SystemInv, ScheduleAlone
    PROVE  SystemInv'
<1>1. TaskTypes' /\ \A t \in Tasks : Settled(t)
    BY ScheduleTypes DEF SystemInv
<1>2. UNCHANGED <<job, runner, page, revs, run, overlapped>>
    BY DEF ScheduleAlone, manual, pipeline
<1>3. JobTypes'  BY <1>2 DEF SystemInv, SystemTypes, JobTypes
<1>4. \A t \in Tasks : Remembered(t)  BY <1>1 DEF Settled, Remembered
<1>5. ScrapeTypes' /\ Lonely' /\ Judgements' /\ FoundOnce'
    BY <1>2, <1>4, ScrapesStay
<1>6. Partners'
    BY <1>1, <1>2 DEF SystemInv, Partners, Settled
<1> QED  BY <1>1, <1>3, <1>5, <1>6 DEF SystemInv, SystemTypes

LEMMA ManualAloneHolds ==
    ASSUME SystemInv, ManualAlone
    PROVE  SystemInv'
<1>1. /\ JobTypes'
      /\ \A j \in Jobs : runner'[j] = "scraping" <=> runner[j] = "scraping"
    BY ManualTypes DEF SystemInv
<1>2. UNCHANGED <<task, freq, found, page, revs, run, overlapped>>
    BY DEF ManualAlone, schedule, pipeline
<1>3. TaskTypes'  BY <1>2 DEF SystemInv, SystemTypes, TaskTypes
<1>4. \A t \in Tasks : Remembered(t)  BY <1>2 DEF Remembered
<1>5. ScrapeTypes' /\ Lonely' /\ Judgements' /\ FoundOnce'
    BY <1>2, <1>4, ScrapesStay
<1>6. Partners'
    BY <1>1, <1>2 DEF SystemInv, Partners
<1> QED  BY <1>1, <1>3, <1>5, <1>6 DEF SystemInv, SystemTypes

LEMMA DeleteSourceHolds ==
    ASSUME SystemInv, NEW s \in Sources, DeleteSource(s)
    PROVE  SystemInv'
<1>1. UNCHANGED <<task, freq, found, job, runner, page, revs, run, overlapped>>
    BY DEF DeleteSource, Schedule!DeleteSource, manual, pipeline
<1>2. TaskTypes' /\ JobTypes'  BY <1>1 DEF SystemInv, SystemTypes, TaskTypes, JobTypes
<1>3. \A t \in Tasks : Remembered(t)  BY <1>1 DEF Remembered
<1>4. ScrapeTypes' /\ Lonely' /\ Judgements' /\ FoundOnce'
    BY <1>1, <1>3, ScrapesStay
<1>5. Partners'  BY <1>1 DEF SystemInv, Partners
<1> QED  BY <1>2, <1>4, <1>5 DEF SystemInv, SystemTypes

\* The page of s changes: what the tasks of s found is no longer the page, and what was
\* found of the other pages is what they still are.
LEMMA PageChangesHolds ==
    ASSUME SystemInv, NEW s \in Sources, PageChanges(s)
    PROVE  SystemInv'
<1>0. /\ page \in [Sources -> Hashes] /\ found \in [Tasks -> Nat] /\ TaskTypes /\ JobTypes
      /\ ScrapeTypes
    BY DEF SystemInv, SystemTypes, TaskTypes, ScrapeTypes
<1>1. UNCHANGED <<task, freq, job, runner, revs, run, overlapped>>
    BY DEF PageChanges, Pipeline!PageChanges, schedule, manual
<1>2. PICK h \in Hashes : page' = [page EXCEPT ![s] = h]
    BY DEF PageChanges, Pipeline!PageChanges
<1>3. found' = [t \in Tasks |-> IF task[t].src = s THEN 0 ELSE found[t]]
    BY DEF PageChanges
<1>4. found' \in [Tasks -> Nat]  BY <1>0, <1>3
<1>5. TaskTypes' /\ JobTypes'  BY <1>0, <1>1, <1>4 DEF TaskTypes, JobTypes
<1>6. ScrapeTypes'  BY <1>0, <1>1, <1>2 DEF ScrapeTypes
<1>7. Partners' /\ Lonely'
    BY <1>1 DEF SystemInv, Partners, Lonely, Busy
<1>8. Judgements'  BY <1>1 DEF SystemInv, Judgements, Judged
<1>9. FoundOnce'
  <2>1. ASSUME NEW t \in Tasks, task[t].st # "free", found'[t] # 0
        PROVE  page'[task[t].src] = page[task[t].src] /\ found'[t] = found[t]
      BY <1>0, <1>2, <1>3, <2>1 DEF TaskTypes
  <2> QED  BY <1>1, <2>1 DEF SystemInv, FoundOnce
<1> QED  BY <1>5, <1>6, <1>7, <1>8, <1>9 DEF SystemInv, SystemTypes

LEMMA ScrapeStepHolds ==
    ASSUME SystemInv, NEW r \in Scrapers, ScrapeStep(r)
    PROVE  SystemInv'
<1>0. TaskTypes /\ JobTypes /\ Partners /\ found \in [Tasks -> Nat]
    BY DEF SystemInv, SystemTypes, TaskTypes
<1>1. UNCHANGED <<task, freq, job, runner>>
    BY DEF ScrapeStep, schedule, manual
<1>2. found' = [t \in Tasks |->
                   found[t] + IF /\ t = r /\ run[r].pc = "persist" /\ run'[r].pc = "notify"
                                 /\ run[r].hash = page[run[r].src]
                              THEN 1 ELSE 0]
    BY DEF ScrapeStep
<1>3. found' \in [Tasks -> Nat]
    BY <1>0, <1>2
<1>4. /\ ScrapeTypes' /\ Lonely' /\ Judgements' /\ FoundOnce'
      /\ run[r].pc # "idle" /\ run'[r].pc # "idle" /\ run'[r].src = run[r].src
      /\ \A q \in Scrapers : q # r => run'[q] = run[q]
  <2>1. CASE Pipeline!Persist(r)
      BY <1>1, <1>2, <2>1, CommittingStep
  <2>2. CASE ~Pipeline!Persist(r)
    <3>1. Pipeline!Step(r)  BY DEF ScrapeStep
    <3>2. \A t \in Tasks : ~(run[r].pc = "persist" /\ run'[r].pc = "notify") => found'[t] = found[t]
        BY <1>0, <1>2
    <3> QED  BY <1>1, <2>2, <3>1, <3>2, UncommittedStep
  <2> QED  BY <2>1, <2>2
<1>5. TaskTypes' /\ JobTypes'  BY <1>0, <1>1, <1>3 DEF TaskTypes, JobTypes
<1>6. Partners'
  <2>1. \A q \in Scrapers : (run'[q].pc = "idle" <=> run[q].pc = "idle") /\ run'[q].src = run[q].src
      BY <1>4
  <2> QED  BY <1>0, <1>1, <2>1 DEF Partners, Scrapers
<1> QED  BY <1>4, <1>5, <1>6 DEF SystemInv, SystemTypes

LEMMA StartTaskHolds ==
    ASSUME SystemInv, NEW t \in Tasks, StartTask(t)
    PROVE  SystemInv'
<1>0. Schedule!StartTask(t) /\ Pipeline!Begin(t, task[t].src) /\ UNCHANGED <<job, runner, found>>
    BY DEF StartTask, manual
<1>1. /\ TaskTypes' /\ task[t].st = "queued" /\ task'[t].st = "running"
      /\ task'[t].src = task[t].src /\ task[t].src \in Sources
      /\ \A u \in Tasks : u # t => task'[u] = task[u]
    BY <1>0, TaskStarts DEF SystemInv
<1>2. PICK s \in Sources : s = task[t].src  BY <1>1
<1>3. \A u \in Tasks : Remembered(u)
  <2>1. ASSUME NEW u \in Tasks PROVE Remembered(u)
    <3>1. CASE u = t  BY <1>0, <1>1, <3>1 DEF Remembered
    <3>2. CASE u # t  BY <1>0, <1>1, <3>2 DEF Remembered
    <3> QED  BY <3>1, <3>2
  <2> QED  BY <2>1
<1>4. t \in Scrapers /\ t \notin Jobs  BY SystemAssumption DEF Scrapers
<1>5. /\ ScrapeTypes' /\ Lonely' /\ Judgements' /\ FoundOnce'
      /\ run[t].pc = "idle" /\ run'[t].pc # "idle" /\ run'[t].src = s
      /\ \A q \in Scrapers : q # t => run'[q] = run[q]
    BY <1>0, <1>2, <1>3, <1>4, BeginMoves
<1>6. JobTypes'  BY <1>0 DEF SystemInv, SystemTypes, JobTypes
<1>7. Partners'
  <2>1. \A u \in Tasks : u # t => task'[u] = task[u] /\ run'[u] = run[u]
      BY <1>1, <1>5 DEF Scrapers
  <2>2. \A j \in Jobs : runner'[j] = runner[j] /\ run'[j] = run[j]
      BY <1>0, <1>4, <1>5 DEF Scrapers
  <2> QED  BY <1>1, <1>2, <1>5, <2>1, <2>2 DEF SystemInv, Partners
<1> QED  BY <1>1, <1>5, <1>6, <1>7 DEF SystemInv, SystemTypes

LEMMA TaskEndHolds ==
    ASSUME SystemInv, NEW t \in Tasks, TaskRaised(t) \/ WorkerCrash(t)
    PROVE  SystemInv'
<1>0. /\ TaskTypes /\ task \in [Tasks -> Messages] /\ found \in [Tasks -> Nat]
      /\ \A u \in Tasks : task[u].st # "free" => task[u].src \in Sources
    BY DEF SystemInv, SystemTypes, TaskTypes
<1>1. TaskEnds(t)
  <2>1. CASE TaskRaised(t)
      BY <2>1 DEF TaskRaised, TaskEnds
  <2>2. CASE WorkerCrash(t)
      BY <2>2 DEF WorkerCrash, TaskEnds
  <2> QED  BY <2>1, <2>2
<1>2. /\ run' = [run EXCEPT ![t] = Pipeline!IdleRun]
      /\ UNCHANGED <<page, revs, overlapped, job, runner, found>>
    BY DEF TaskRaised, WorkerCrash, ScrapeEnds, Pipeline!Crash, manual
<1>3. task[t].st = "running" /\ freq' = freq
    BY <1>1, TaskEndsAs DEF SystemInv
<1>4. PICK m \in Messages :
         /\ task' = [task EXCEPT ![t] = m]
         /\ m.st \in {"free", "queued"}
         /\ m.st = "queued" => m.src = task[t].src
    BY <1>1, TaskEndsAs DEF SystemInv
<1>5. task[t].src \in Sources  BY <1>0, <1>3
<1>6. TaskTypes'  BY <1>0, <1>2, <1>3, <1>4, <1>5, TaskBecomes
<1>7. task'[t] = m /\ \A u \in Tasks : u # t => task'[u] = task[u]
    BY <1>0, <1>4
<1>8. \A u \in Tasks : Remembered(u)
  <2>1. ASSUME NEW u \in Tasks PROVE Remembered(u)
    <3>1. CASE u = t  BY <1>2, <1>3, <1>4, <1>7, <3>1 DEF Remembered
    <3>2. CASE u # t  BY <1>2, <1>7, <3>2 DEF Remembered
    <3> QED  BY <3>1, <3>2
  <2> QED  BY <2>1
<1>9. t \in Scrapers /\ t \notin Jobs  BY SystemAssumption DEF Scrapers
<1>10. /\ ScrapeTypes' /\ Lonely' /\ Judgements' /\ FoundOnce'
       /\ run'[t].pc = "idle" /\ \A q \in Scrapers : q # t => run'[q] = run[q]
    BY <1>2, <1>8, <1>9, EndMoves
<1>11. JobTypes'  BY <1>2 DEF SystemInv, SystemTypes, JobTypes
<1>12. Partners'
  <2>1. \A u \in Tasks : u # t => task'[u] = task[u] /\ run'[u] = run[u]
      BY <1>7, <1>10 DEF Scrapers
  <2>2. \A j \in Jobs : runner'[j] = runner[j] /\ run'[j] = run[j]
      BY <1>2, <1>9, <1>10 DEF Scrapers
  <2> QED  BY <1>4, <1>7, <1>10, <2>1, <2>2 DEF SystemInv, Partners
<1> QED  BY <1>6, <1>10, <1>11, <1>12 DEF SystemInv, SystemTypes

LEMMA StartJobHolds ==
    ASSUME SystemInv, NEW j \in Jobs, StartJob(j)
    PROVE  SystemInv'
<1>0. /\ Manual!Start(j) /\ Pipeline!Begin(j, job[j].src) /\ UNCHANGED <<task, freq, found>>
      /\ JobTypes
    BY DEF StartJob, schedule, SystemInv, SystemTypes
<1>1. /\ runner[j] = "spawned" /\ runner' = [runner EXCEPT ![j] = "scraping"]
      /\ job' = [job EXCEPT ![j].status = "IN_PROGRESS"]
    BY <1>0 DEF Manual!Start
<1>2. PICK s \in Sources : s = job[j].src  BY <1>0, <1>1 DEF JobTypes
<1>3. JobTypes' /\ runner'[j] = "scraping" /\ \A k \in Jobs : k # j => runner'[k] = runner[k]
    BY <1>0, <1>1, RunnerMoves DEF Manual!ActiveStatus
<1>4. \A t \in Tasks : Remembered(t)  BY <1>0 DEF Remembered
<1>5. j \in Scrapers /\ j \notin Tasks  BY SystemAssumption DEF Scrapers
<1>6. /\ ScrapeTypes' /\ Lonely' /\ Judgements' /\ FoundOnce'
      /\ run[j].pc = "idle" /\ run'[j].pc # "idle"
      /\ \A q \in Scrapers : q # j => run'[q] = run[q]
    BY <1>0, <1>2, <1>4, <1>5, BeginMoves
<1>7. TaskTypes'  BY <1>0 DEF SystemInv, SystemTypes, TaskTypes
<1>8. Partners'
  <2>1. \A t \in Tasks : run'[t] = run[t]  BY <1>5, <1>6 DEF Scrapers
  <2>2. \A k \in Jobs : k # j => run'[k] = run[k]  BY <1>6 DEF Scrapers
  <2> QED  BY <1>0, <1>3, <1>6, <2>1, <2>2 DEF SystemInv, Partners
<1> QED  BY <1>3, <1>6, <1>7, <1>8 DEF SystemInv, SystemTypes

LEMMA JobRaisedHolds ==
    ASSUME SystemInv, NEW j \in Jobs, JobRaised(j)
    PROVE  SystemInv'
<1>0. /\ run' = [run EXCEPT ![j] = Pipeline!IdleRun]
      /\ UNCHANGED <<page, revs, overlapped, task, freq, found>> /\ JobTypes
    BY DEF JobRaised, ScrapeEnds, schedule, SystemInv, SystemTypes
<1>1. /\ runner[j] = "scraping" /\ runner' = [runner EXCEPT ![j] = "none"]
      /\ job' = job \/ job' = [job EXCEPT ![j].status = "FAILED"]
    BY DEF JobRaised, Manual!Finish, Manual!FinishFails
<1>2. JobTypes' /\ runner'[j] = "none" /\ \A k \in Jobs : k # j => runner'[k] = runner[k]
    BY <1>0, <1>1, RunnerMoves DEF Manual!FinalStatus
<1>3. \A t \in Tasks : Remembered(t)  BY <1>0 DEF Remembered
<1>4. j \in Scrapers /\ j \notin Tasks  BY SystemAssumption DEF Scrapers
<1>5. /\ ScrapeTypes' /\ Lonely' /\ Judgements' /\ FoundOnce'
      /\ run'[j].pc = "idle" /\ \A q \in Scrapers : q # j => run'[q] = run[q]
    BY <1>0, <1>3, <1>4, EndMoves
<1>6. TaskTypes'  BY <1>0 DEF SystemInv, SystemTypes, TaskTypes
<1>7. Partners'
  <2>1. \A t \in Tasks : run'[t] = run[t]  BY <1>4, <1>5 DEF Scrapers
  <2>2. \A k \in Jobs : k # j => run'[k] = run[k]  BY <1>5 DEF Scrapers
  <2> QED  BY <1>0, <1>2, <1>5, <2>1, <2>2 DEF SystemInv, Partners
<1> QED  BY <1>2, <1>5, <1>6, <1>7 DEF SystemInv, SystemTypes

\* The scrapes of all jobs end at once.
LEMMA ProcessRestartHolds ==
    ASSUME SystemInv, ProcessRestart
    PROVE  SystemInv'
<1>0. /\ run' = [r \in Scrapers |-> IF r \in Jobs THEN Pipeline!IdleRun ELSE run[r]]
      /\ UNCHANGED <<task, freq, found, page, revs, overlapped, job>>
      /\ runner' = [j \in Jobs |-> "none"]
      /\ run \in [Scrapers -> Pipeline!RunState] /\ JobTypes /\ ScrapeTypes
    BY DEF ProcessRestart, Manual!ProcessRestart, schedule, Scrapers, SystemInv, SystemTypes,
       ScrapeTypes
<1>1. \A j \in Jobs : run'[j].pc = "idle"
    BY <1>0, IdleTyped DEF Scrapers
<1>2. \A q \in Scrapers : run'[q] = run[q] \/ run'[q].pc = "idle"
    BY <1>0, <1>1
<1>3. ScrapeTypes'
  <2>1. run' \in [Scrapers -> Pipeline!RunState]  BY <1>0, IdleTyped
  <2>2. \A q \in Scrapers : run'[q].pc # "idle" => run'[q].src \in Sources
      BY <1>0, <1>2 DEF ScrapeTypes
  <2>3. \A q \in Scrapers : run'[q].pc \in {"compare", "analyze", "persist"} => run'[q].hash \in Hashes
      BY <1>0, <1>2 DEF ScrapeTypes
  <2> QED  BY <1>0, <2>1, <2>2, <2>3 DEF ScrapeTypes
<1>4. TaskTypes' /\ JobTypes'
    BY <1>0 DEF SystemInv, SystemTypes, TaskTypes, JobTypes
<1>5. Partners'
  <2>1. \A t \in Tasks : t \notin Jobs /\ run'[t] = run[t]
      BY <1>0, SystemAssumption DEF Scrapers
  <2> QED  BY <1>0, <1>1, <2>1 DEF SystemInv, Partners
<1>6. Lonely'
  <2>1. \A q \in Scrapers, s \in Sources : Busy(q, s)' => Busy(q, s)
      BY <1>2 DEF Busy
  <2> QED  BY <1>0, <2>1 DEF SystemInv, Lonely
<1>7. Judgements'
  <2>1. ASSUME NEW q \in Scrapers PROVE Judged(run[q])'
    <3>1. CASE run'[q].pc = "idle"  BY <3>1 DEF Judged
    <3>2. CASE run'[q] = run[q]  BY <1>0, <3>2 DEF SystemInv, Judgements, Judged
    <3> QED  BY <1>2, <3>1, <3>2
  <2> QED  BY <2>1 DEF Judgements
<1>8. FoundOnce'
  <2>1. \A q \in Scrapers : run'[q].pc \in Holding => run'[q] = run[q]
      BY <1>2 DEF Holding
  <2> QED  BY <1>0, <2>1 DEF SystemInv, FoundOnce
<1> QED  BY <1>3, <1>4, <1>5, <1>6, <1>7, <1>8 DEF SystemInv, SystemTypes

LEMMA StutterHolds ==
    ASSUME SystemInv, UNCHANGED vars
    PROVE  SystemInv'
<1>1. UNCHANGED <<task, freq, found, job, runner, page, revs, run, overlapped>>
    BY DEF vars, schedule, manual, pipeline
<1>2. TaskTypes' /\ JobTypes'  BY <1>1 DEF SystemInv, SystemTypes, TaskTypes, JobTypes
<1>3. \A t \in Tasks : Remembered(t)  BY <1>1 DEF Remembered
<1>4. ScrapeTypes' /\ Lonely' /\ Judgements' /\ FoundOnce'
    BY <1>1, <1>3, ScrapesStay
<1>5. Partners'  BY <1>1 DEF SystemInv, Partners
<1> QED  BY <1>2, <1>4, <1>5 DEF SystemInv, SystemTypes

\* The types hold, a scrape runs for a caller that waits, it judges a page against what is committed,
\* and a task has found what its scrapes committed: through retries, failures and restarts.
THEOREM SystemInvHolds == Spec => []SystemInv
<1>1. SystemInv /\ [Next]_vars => SystemInv'
  <2> SUFFICES ASSUME SystemInv, [Next]_vars PROVE SystemInv'
      OBVIOUS
  <2>1. CASE Next
      BY <2>1, ScheduleAloneHolds, ManualAloneHolds, DeleteSourceHolds, PageChangesHolds,
         ScrapeStepHolds, StartTaskHolds, TaskEndHolds, StartJobHolds, JobRaisedHolds,
         ProcessRestartHolds DEF Next, Scrapers
  <2>2. CASE UNCHANGED vars  BY <2>2, StutterHolds
  <2> QED  BY <2>1, <2>2
<1> QED  BY <1>1, InitHolds, PTL DEF Spec

\* A task that is retried announces the change of a page once, however many of its
\* attempts fail after their commit, unless two scrapes of the source overlapped.
THEOREM RetriesAnnounceOnce == Spec => []RetriesFindOneChange
<1>1. SystemInv => RetriesFindOneChange
  <2> SUFFICES ASSUME SystemInv, NEW t \in Tasks,
                      task[t].st # "free", task[t].src \notin overlapped
               PROVE  found[t] <= 1
      BY DEF RetriesFindOneChange
  <2>1. found[t] = 0 \/ found[t] = 1  BY DEF SystemInv, FoundOnce
  <2> QED  BY <2>1
<1> QED  BY <1>1, SystemInvHolds, PTL
=============================================================================
