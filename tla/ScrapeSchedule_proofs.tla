----------------------- MODULE ScrapeSchedule_proofs -----------------------
(***************************************************************************)
(* Proofs about ScrapeSchedule, for any number of sources, tasks and       *)
(* dispatch executions.                                                    *)
(***************************************************************************)
EXTENDS ScrapeSchedule, FiniteSetTheorems, TLAPS

-----------------------------------------------------------------------------
(* Type correctness.                                                       *)

\* A batch of sources with an interval each is a plan.
LEMMA PlanIntro ==
    ASSUME NEW batch \in SUBSET Sources, NEW p \in [batch -> Frequencies]
    PROVE  p \in Plans
  BY DEF Plans

\* A plan gives each source of its batch one of the frequencies.
LEMMA PlanElim ==
    ASSUME NEW p \in Plans
    PROVE  /\ DOMAIN p \subseteq Sources
           /\ \A s \in DOMAIN p : p[s] \in Frequencies
           /\ p \in [DOMAIN p -> Frequencies]
  BY DEF Plans

LEMMA NoPlanIsPlan == NoPlan \in Plans /\ DOMAIN NoPlan = {}
  <1>1. NoPlan \in [{} -> Frequencies] BY DEF NoPlan
  <1> QED BY <1>1, PlanIntro DEF NoPlan

LEMMA FreeTaskType == FreeTask \in TaskMsg /\ FreeTask.st = "free"
  BY ScheduleAssumption DEF FreeTask, TaskMsg

LEMMA InitTypeOK == Init => TypeOK
  <1> SUFFICES ASSUME Init PROVE TypeOK
    OBVIOUS
  <1>1. task \in [Tasks -> TaskMsg] /\ \A t \in Tasks : task[t].st = "free"
    BY FreeTaskType DEF Init
  <1>2. plan \in [Dispatchers -> Plans]
    BY NoPlanIsPlan DEF Init
  <1>3. /\ wait \in [Sources -> Nat] /\ outlived \in [Sources -> Nat]
        /\ row \in [Sources -> {"new", "row", "gone"}] /\ sent \in [Sources -> Nat]
        /\ dpc \in [Dispatchers -> {"idle", "select", "commit", "send"}]
        /\ faults \in 0..MaxFaults
    BY ScheduleAssumption DEF Init
  <1> QED
    BY <1>1, <1>2, <1>3 DEF Init, TypeOK

\* What a message may hold: a task that runs knows its source and interval.
Message(m) ==
    /\ m \in TaskMsg
    /\ m.st # "free" => m.src \in Sources
    /\ m.st = "running" => m.freq \in Frequencies

\* A step of task t that leaves the message m behind.
LeavesMessage(t, m) ==
    /\ Message(m)
    /\ task' = [task EXCEPT ![t] = m]
    /\ wait' \in [Sources -> Nat]
    /\ dlq' \subseteq Sources
    /\ faults' \in 0..MaxFaults
    /\ UNCHANGED <<row, freq, lock, dpc, plan, sent, outlived>>

LEMMA MessageStep ==
    ASSUME TypeOK, NEW t \in Tasks, NEW m, LeavesMessage(t, m)
    PROVE  TypeOK'
  BY DEF TypeOK, Message, LeavesMessage

\* The tasks, one action at a time.
LEMMA RunningMessage ==
    ASSUME TypeOK, NEW t \in Tasks, task[t].st = "running"
    PROVE  task[t] \in TaskMsg /\ task[t].src \in Sources /\ task[t].freq \in Nat \ {0}
  BY ScheduleAssumption DEF TypeOK

LEMMA FreeMessage == Message(FreeTask)
  BY FreeTaskType DEF Message

LEMMA StartTaskTypes == ASSUME TypeOK, NEW t \in Tasks, StartTask(t) PROVE TypeOK'
  <1> DEFINE m == [task[t] EXCEPT !.st = "running", !.freq = freq[task[t].src]]
  <1>1. Message(m)
    <2>1. task[t] \in TaskMsg /\ task[t].src \in Sources BY DEF StartTask, TypeOK, Rows
    <2>2. freq[task[t].src] \in Frequencies BY <2>1 DEF TypeOK
    <2> QED BY <2>1, <2>2 DEF TaskMsg, Message
  <1>2. task' = [task EXCEPT ![t] = m] BY DEF StartTask, TypeOK, TaskMsg
  <1> HIDE DEF m
  <1>3. LeavesMessage(t, m) BY <1>1, <1>2 DEF StartTask, TypeOK, LeavesMessage, tables, dispatch, ghosts
  <1> QED BY <1>3, MessageStep

LEMMA SourceNotFoundTypes == ASSUME TypeOK, NEW t \in Tasks, SourceNotFound(t) PROVE TypeOK'
  <1>1. LeavesMessage(t, FreeTask)
    BY FreeMessage DEF SourceNotFound, TypeOK, LeavesMessage, tables, dispatch, ghosts
  <1> QED BY <1>1, MessageStep

LEMMA TaskSucceedsTypes == ASSUME TypeOK, NEW t \in Tasks, TaskSucceeds(t) PROVE TypeOK'
  <1>1. wait' \in [Sources -> Nat]
    BY RunningMessage DEF TaskSucceeds, TypeOK
  <1>2. LeavesMessage(t, FreeTask)
    BY <1>1, FreeMessage DEF TaskSucceeds, TypeOK, LeavesMessage, dispatch, ghosts
  <1> QED BY <1>2, MessageStep

LEMMA RetryTaskTypes ==
    ASSUME TypeOK, NEW t \in Tasks, RetryTask(t)
    PROVE  TypeOK'
  <1> DEFINE m == [st |-> "queued", src |-> task[t].src,
                   retries |-> task[t].retries + 1, freq |-> 0]
  <1>1. Message(m)
    BY RunningMessage, ScheduleAssumption DEF RetryTask, TaskMsg, Message
  <1>2. task' = [task EXCEPT ![t] = m] BY DEF RetryTask
  <1> HIDE DEF m
  <1>4. LeavesMessage(t, m)
    BY <1>1, <1>2 DEF RetryTask, TypeOK, LeavesMessage, dispatch, ghosts
  <1> QED BY <1>4, MessageStep

LEMMA RetryLostTypes == ASSUME TypeOK, NEW t \in Tasks, RetryLost(t) PROVE TypeOK'
  <1>1. LeavesMessage(t, FreeTask)
    BY FreeMessage, ScheduleAssumption DEF RetryLost, TypeOK, LeavesMessage, dispatch, ghosts
  <1> QED BY <1>1, MessageStep

LEMMA DeadLetterTypes == ASSUME TypeOK, NEW t \in Tasks, DeadLetter(t) PROVE TypeOK'
  <1>1. wait' \in [Sources -> Nat]
    BY RunningMessage, ScheduleAssumption DEF DeadLetter, TypeOK
  <1>2. dlq' \subseteq Sources BY RunningMessage DEF DeadLetter, TypeOK
  <1>3. LeavesMessage(t, FreeTask)
    BY <1>1, <1>2, FreeMessage DEF DeadLetter, TypeOK, LeavesMessage, dispatch, ghosts
  <1> QED BY <1>3, MessageStep

LEMMA DeadLetterFailsTypes == ASSUME TypeOK, NEW t \in Tasks, DeadLetterFails(t) PROVE TypeOK'
  <1>1. dlq' \subseteq Sources BY RunningMessage DEF DeadLetterFails, TypeOK
  <1>2. LeavesMessage(t, FreeTask)
    BY <1>1, FreeMessage, ScheduleAssumption
    DEF DeadLetterFails, TypeOK, LeavesMessage, dispatch, ghosts
  <1> QED BY <1>2, MessageStep

LEMMA WorkerCrashTypes == ASSUME TypeOK, NEW t \in Tasks, WorkerCrash(t) PROVE TypeOK'
  <1>1. LeavesMessage(t, FreeTask)
    BY FreeMessage, ScheduleAssumption DEF WorkerCrash, TypeOK, LeavesMessage, tables, dispatch, ghosts
  <1> QED BY <1>1, MessageStep

\* Every step keeps the types.
LEMMA StepTypeOK == TypeOK /\ [Next]_vars => TypeOK'
  <1> SUFFICES ASSUME TypeOK, [Next]_vars PROVE TypeOK'
    OBVIOUS
  <1> USE ScheduleAssumption
  <1>1. CASE Tick
    BY <1>1 DEF TypeOK, Tick, dispatch
  <1>2. CASE LockLapses
    <2>1. outlived' \in [Sources -> Nat]
      <3>1. CASE UNCHANGED outlived BY <3>1 DEF TypeOK
      <3>2. CASE outlived' = [s \in Sources |-> outlived[s] + 1] BY <3>2 DEF TypeOK
      <3> QED BY <1>2, <3>1, <3>2 DEF LockLapses
    <2> QED BY <1>2, <2>1 DEF TypeOK, LockLapses, tables
  <1>3. CASE UserStep
    BY <1>3 DEF TypeOK, UserStep, CreateSource, UpdateFrequency, DeleteSource, dispatch, ghosts, Rows
  <1>4. ASSUME NEW d \in Dispatchers, AcquireLock(d) PROVE TypeOK'
    BY <1>4 DEF TypeOK, AcquireLock, tables, ghosts
  <1>5. ASSUME NEW d \in Dispatchers, SelectBatch(d) PROVE TypeOK'
    <2>1. plan' \in [Dispatchers -> Plans]
      <3>1. CASE UNCHANGED plan
        BY <3>1 DEF TypeOK
      <3>2. ASSUME NEW batch \in SUBSET Due,
                   plan' = [plan EXCEPT ![d] = [s \in batch |-> freq[s]]]
            PROVE  plan' \in [Dispatchers -> Plans]
        <4>1. batch \in SUBSET Sources BY DEF Due, Rows
        <4>2. [s \in batch |-> freq[s]] \in [batch -> Frequencies] BY <4>1 DEF TypeOK
        <4>3. [s \in batch |-> freq[s]] \in Plans BY <4>1, <4>2, PlanIntro
        <4> QED BY <3>2, <4>3 DEF TypeOK
      <3> QED BY <1>5, <3>1, <3>2 DEF SelectBatch
    <2>2. dpc' \in [Dispatchers -> {"idle", "select", "commit", "send"}]
      BY <1>5 DEF TypeOK, SelectBatch
    <2> QED BY <1>5, <2>1, <2>2 DEF TypeOK, SelectBatch, tables, ghosts
  <1>6. ASSUME NEW d \in Dispatchers, CommitBatch(d) PROVE TypeOK'
    <2>1. plan[d] \in Plans BY DEF TypeOK
    <2>2. \A s \in DOMAIN plan[d] : plan[d][s] \in Nat BY <2>1, PlanElim
    <2>3. wait' \in [Sources -> Nat] BY <1>6, <2>2 DEF TypeOK, CommitBatch
    <2> QED BY <1>6, <2>3 DEF TypeOK, CommitBatch, ghosts
  <1>7. ASSUME NEW d \in Dispatchers, NEW s \in Sources, NEW t \in Tasks, SendTask(d, s, t)
        PROVE  TypeOK'
    <2> DEFINE rest == [x \in DOMAIN plan[d] \ {s} |-> plan[d][x]]
    <2>1. plan[d] \in Plans BY DEF TypeOK
    <2>2. rest \in [DOMAIN plan[d] \ {s} -> Frequencies] BY <2>1, PlanElim
    <2>3. DOMAIN plan[d] \ {s} \in SUBSET Sources BY <2>1, PlanElim
    <2>4. rest \in Plans BY <2>2, <2>3, PlanIntro
    <2>5. plan' \in [Dispatchers -> Plans] BY <1>7, <2>4 DEF TypeOK, SendTask
    <2>6. task' \in [Tasks -> TaskMsg] /\ task'[t].src = s /\ task'[t].st = "queued"
      BY <1>7, FreeTaskType DEF TypeOK, SendTask, TaskMsg
    <2>7. sent' \in [Sources -> Nat] BY <1>7 DEF TypeOK, SendTask
    <2> QED BY <1>7, <2>5, <2>6, <2>7 DEF TypeOK, SendTask, tables
  <1>8. ASSUME NEW d \in Dispatchers, BatchDone(d) PROVE TypeOK'
    BY <1>8 DEF TypeOK, BatchDone, tables, ghosts
  <1>9. ASSUME NEW d \in Dispatchers, DispatchAborts(d) \/ CommitStale(d) PROVE TypeOK'
    <2>1. plan' \in [Dispatchers -> Plans]
          /\ dpc' \in [Dispatchers -> {"idle", "select", "commit", "send"}]
      BY <1>9, NoPlanIsPlan DEF TypeOK, DispatchAborts, CommitStale
    <2>2. faults' \in 0..MaxFaults
      BY <1>9 DEF TypeOK, DispatchAborts, CommitStale
    <2>3. UNCHANGED <<row, freq, wait, lock, task, dlq, sent, outlived>>
      BY <1>9 DEF DispatchAborts, CommitStale, tables, ghosts
    <2> QED BY <2>1, <2>2, <2>3 DEF TypeOK
  <1>10. ASSUME NEW t \in Tasks, TakeTask(t) \/ EndTask(t) \/ WorkerCrash(t) PROVE TypeOK'
    BY <1>10, StartTaskTypes, SourceNotFoundTypes, TaskSucceedsTypes, RetryTaskTypes,
       RetryLostTypes, DeadLetterTypes, DeadLetterFailsTypes, WorkerCrashTypes
    DEF TakeTask, EndTask
  <1>11. CASE UNCHANGED vars
    BY <1>11 DEF TypeOK, vars
  <1> QED
    BY <1>1, <1>2, <1>3, <1>4, <1>5, <1>6, <1>7, <1>8, <1>9, <1>10, <1>11
    DEF Next, DispatchStep

\* The tables, the lock, the batches and the messages keep their types
\* (tasks.py, source_service.py), whatever the bounds.
THEOREM TypeCorrect == Spec => []TypeOK
  BY InitTypeOK, StepTypeOK, PTL DEF Spec

-----------------------------------------------------------------------------
(* One task for each due cycle.                                            *)

\* The executions that have selected s and not sent its task yet.
Holders(s) == {d \in Dispatchers : s \in DOMAIN plan[d]}

\* Each execution under way has the lock, or has outlived one.
Locked ==
    /\ IsFiniteSet(Running)
    /\ \A s \in Sources : Cardinality(Running) <= outlived[s] + IF lock THEN 1 ELSE 0

\* An execution has a batch from its selection to the last send, and what it sends for has
\* been pushed.
Batches ==
    \A d \in Dispatchers :
        /\ dpc[d] \in {"idle", "select"} => DOMAIN plan[d] = {}
        /\ dpc[d] = "send" => \A s \in DOMAIN plan[d] : wait[s] > 0

\* A source falls due with no task sent since, and what has been sent for it and what still
\* will be keep within the bound together.
SentOrHeld ==
    \A s \in Sources :
        /\ wait[s] = 0 => sent[s] = 0
        /\ sent[s] + Cardinality(Holders(s)) <= 1 + outlived[s]

CycleInv == TypeOK /\ Locked /\ Batches /\ SentOrHeld

\* Whoever holds a source is running.
LEMMA HoldersRun ==
    ASSUME Locked, Batches, TypeOK, NEW s \in Sources
    PROVE  /\ Holders(s) \subseteq Running
           /\ IsFiniteSet(Holders(s)) /\ Cardinality(Holders(s)) \in Nat
           /\ Cardinality(Running) \in Nat
           /\ Cardinality(Holders(s)) <= Cardinality(Running)
  <1>1. Holders(s) \subseteq Running
    BY DEF Holders, Running, Batches
  <1> QED BY <1>1, FS_Subset, FS_CardinalityType DEF Locked

LEMMA InitCycle == Init => CycleInv
  <1> SUFFICES ASSUME Init PROVE Locked /\ Batches /\ SentOrHeld
    BY InitTypeOK DEF CycleInv
  <1>1. Running = {} /\ Batches BY NoPlanIsPlan DEF Init, Running, Batches
  <1>2. \A s \in Sources : Holders(s) = {} BY NoPlanIsPlan DEF Init, Holders
  <1> QED BY <1>1, <1>2, FS_EmptySet DEF Init, Locked, SentOrHeld

\* The dispatcher alone touches the lock, the batches and the ghosts, so all that a
\* step of a task or of a user can do to the invariant is to push a source later.
LEMMA OthersKeepCycle ==
    ASSUME CycleInv, UNCHANGED <<lock, dpc, plan, ghosts>>,
           \A s \in Sources : wait'[s] = wait[s] \/ wait'[s] > 0
    PROVE  Locked' /\ Batches' /\ SentOrHeld'
  <1>0. UNCHANGED <<lock, dpc, plan, sent, outlived>> BY DEF ghosts
  <1>1. Running' = Running /\ \A s \in Sources : Holders(s)' = Holders(s)
    BY <1>0 DEF Running, Holders
  <1>2. Locked' BY <1>0, <1>1 DEF CycleInv, Locked
  <1>3. \A d \in Dispatchers : DOMAIN plan[d] \subseteq Sources
    BY PlanElim DEF CycleInv, TypeOK
  <1>4. Batches' BY <1>0, <1>3 DEF CycleInv, Batches
  <1>5. SentOrHeld' BY <1>0, <1>1 DEF CycleInv, SentOrHeld
  <1> QED BY <1>2, <1>4, <1>5

LEMMA TaskStepsPush ==
    ASSUME TypeOK, NEW t \in Tasks, TakeTask(t) \/ EndTask(t) \/ WorkerCrash(t)
    PROVE  /\ UNCHANGED <<lock, dpc, plan, ghosts>>
           /\ \A s \in Sources : wait'[s] = wait[s] \/ wait'[s] > 0
  <1>1. UNCHANGED <<lock, dpc, plan, ghosts>>
    BY DEF TakeTask, StartTask, SourceNotFound, EndTask, TaskSucceeds, RetryTask, RetryLost,
       DeadLetter, DeadLetterFails, WorkerCrash, dispatch
  <1>2. CASE TaskSucceeds(t)
    BY <1>1, <1>2, RunningMessage DEF TaskSucceeds, TypeOK
  <1>3. CASE DeadLetter(t)
    BY <1>1, <1>3, RunningMessage, ScheduleAssumption DEF DeadLetter, TypeOK
  <1>4. CASE UNCHANGED wait
    BY <1>1, <1>4
  <1> QED
    BY <1>2, <1>3, <1>4 DEF TakeTask, StartTask, SourceNotFound, EndTask, RetryTask,
       RetryLost, DeadLetterFails, WorkerCrash, tables

\* When an hour passes nothing is running and nothing is held.
LEMMA TickCycle ==
    ASSUME CycleInv, Tick
    PROVE  Locked' /\ Batches' /\ SentOrHeld'
  <1>0. /\ wait \in [Sources -> Nat] /\ sent \in [Sources -> Nat] /\ outlived \in [Sources -> Nat]
        /\ Batches /\ SentOrHeld
        /\ UNCHANGED <<lock, dpc, plan>> /\ \A d \in Dispatchers : dpc[d] = "idle"
    BY DEF CycleInv, TypeOK, Tick, dispatch
  <1>1. /\ wait' = [s \in Sources |-> IF wait[s] > 0 THEN wait[s] - 1 ELSE 0]
        /\ sent' = [s \in Sources |-> IF wait[s] = 1 THEN 0 ELSE sent[s]]
        /\ outlived' = [s \in Sources |-> IF wait[s] = 1 THEN 0 ELSE outlived[s]]
    BY DEF Tick
  <1>2. Running' = {} /\ \A s \in Sources : Holders(s)' = {} /\ Holders(s) = {}
    BY <1>0 DEF Running, Holders, Batches
  <1>3. outlived' \in [Sources -> Nat] /\ sent' \in [Sources -> Nat] BY <1>0, <1>1
  <1>4. Locked' BY <1>2, <1>3, FS_EmptySet DEF Locked
  <1>5. Batches' BY <1>0 DEF Batches
  <1>6. ASSUME NEW s \in Sources
        PROVE  /\ wait'[s] = 0 => sent'[s] = 0
               /\ sent'[s] <= 1 + outlived'[s]
    <2>1. /\ wait[s] \in Nat /\ sent[s] \in Nat /\ outlived[s] \in Nat
          /\ wait[s] = 0 => sent[s] = 0
          /\ sent[s] + 0 <= 1 + outlived[s]
      BY <1>0, <1>2, FS_EmptySet DEF SentOrHeld
    <2> QED BY <1>1, <2>1
  <1>7. \A s \in Sources : sent'[s] + Cardinality(Holders(s)') = sent'[s]
    BY <1>2, <1>3, FS_EmptySet
  <1>8. SentOrHeld' BY <1>6, <1>7 DEF SentOrHeld
  <1> QED BY <1>4, <1>5, <1>8

\* A lock that lapses under running executions is counted, one that lapses alone is not needed.
LEMMA LapseCycle ==
    ASSUME CycleInv, LockLapses
    PROVE  Locked' /\ Batches' /\ SentOrHeld'
  <1>0. /\ Locked /\ Batches /\ SentOrHeld /\ outlived \in [Sources -> Nat]
        /\ sent \in [Sources -> Nat] /\ TypeOK
        /\ UNCHANGED <<dpc, plan, wait, sent>> /\ lock /\ ~lock'
    BY DEF CycleInv, TypeOK, LockLapses, tables
  <1>1. Running' = Running /\ \A s \in Sources : Holders(s)' = Holders(s)
    BY <1>0 DEF Running, Holders
  <1>2. Batches' BY <1>0 DEF Batches
  <1>3. CASE Running = {} /\ UNCHANGED outlived
    <2>1. Cardinality(Running) = 0 BY <1>3, FS_EmptySet
    <2>2. Locked' BY <1>0, <1>1, <1>3, <2>1 DEF Locked
    <2>3. SentOrHeld' BY <1>0, <1>1, <1>3 DEF SentOrHeld
    <2> QED BY <1>2, <2>2, <2>3
  <1>4. CASE outlived' = [s \in Sources |-> outlived[s] + 1]
    <2>1. Cardinality(Running) \in Nat BY <1>0, FS_CardinalityType DEF Locked
    <2>2. Locked' BY <1>0, <1>1, <1>4, <2>1 DEF Locked
    <2>3. ASSUME NEW s \in Sources
          PROVE  sent[s] + Cardinality(Holders(s)) <= 1 + outlived'[s]
      <3>1. Cardinality(Holders(s)) \in Nat BY <1>0, HoldersRun
      <3> QED BY <1>0, <1>4, <3>1 DEF SentOrHeld
    <2>4. SentOrHeld' BY <1>0, <1>1, <2>3 DEF SentOrHeld
    <2> QED BY <1>2, <2>2, <2>4
  <1> QED BY <1>3, <1>4 DEF LockLapses

\* One more execution, with the lock it found free.
LEMMA AcquireCycle ==
    ASSUME CycleInv, NEW d \in Dispatchers, AcquireLock(d)
    PROVE  Locked' /\ Batches' /\ SentOrHeld'
  <1>0. /\ Locked /\ Batches /\ SentOrHeld /\ dpc \in [Dispatchers -> {"idle", "select", "commit", "send"}]
        /\ outlived \in [Sources -> Nat]
        /\ UNCHANGED <<plan, wait, sent, outlived>> /\ ~lock /\ lock' /\ dpc[d] = "idle"
        /\ dpc' = [dpc EXCEPT ![d] = "select"]
    BY DEF CycleInv, TypeOK, AcquireLock, tables, ghosts
  <1>1. Running' = Running \cup {d} /\ d \notin Running BY <1>0 DEF Running
  <1>2. /\ IsFiniteSet(Running') /\ Cardinality(Running') = Cardinality(Running) + 1
        /\ Cardinality(Running) \in Nat
    BY <1>0, <1>1, FS_AddElement, FS_CardinalityType DEF Locked
  <1>3. Locked' BY <1>0, <1>2 DEF Locked
  <1>4. Batches' BY <1>0 DEF Batches
  <1>5. \A s \in Sources : Holders(s)' = Holders(s) BY <1>0 DEF Holders
  <1> QED BY <1>0, <1>3, <1>4, <1>5 DEF SentOrHeld

\* An execution goes on or ends, and leaves nothing to be sent or only what it held.
LEMMA ExecutionCycle ==
    ASSUME CycleInv, NEW d \in Dispatchers, NEW pc \in {"idle", "select", "commit", "send"},
           dpc[d] # "idle", dpc' = [dpc EXCEPT ![d] = pc], UNCHANGED <<lock, outlived>>,
           \A e \in Dispatchers \ {d} : plan'[e] = plan[e],
           pc \in {"idle", "select"} => DOMAIN plan'[d] = {},
           pc = "send" => \A s \in DOMAIN plan'[d] : wait'[s] > 0,
           \A s \in Sources : wait'[s] = wait[s] \/ wait'[s] > 0
    PROVE  Locked' /\ Batches'
  <1>0. /\ Locked /\ Batches /\ dpc \in [Dispatchers -> {"idle", "select", "commit", "send"}]
        /\ \A e \in Dispatchers : DOMAIN plan[e] \subseteq Sources
        /\ outlived \in [Sources -> Nat]
    BY PlanElim DEF CycleInv, TypeOK
  <1>1. Running' \subseteq Running BY <1>0 DEF Running
  <1>2. /\ IsFiniteSet(Running') /\ Cardinality(Running') <= Cardinality(Running)
        /\ Cardinality(Running') \in Nat /\ Cardinality(Running) \in Nat
    BY <1>0, <1>1, FS_Subset, FS_CardinalityType DEF Locked
  <1>3. Locked'
    <2>1. ASSUME NEW s \in Sources
          PROVE  Cardinality(Running') <= outlived[s] + IF lock THEN 1 ELSE 0
      <3>1. outlived[s] \in Nat /\ Cardinality(Running) <= outlived[s] + IF lock THEN 1 ELSE 0
        BY <1>0 DEF Locked
      <3> QED BY <1>2, <3>1
    <2> QED BY <1>2, <2>1 DEF Locked
  <1>4. Batches'
    <2>1. ASSUME NEW e \in Dispatchers
          PROVE  /\ dpc'[e] \in {"idle", "select"} => DOMAIN plan'[e] = {}
                 /\ dpc'[e] = "send" => \A s \in DOMAIN plan'[e] : wait'[s] > 0
      <3>1. CASE e = d BY <1>0, <3>1
      <3>2. CASE e # d
        <4>1. dpc'[e] = dpc[e] /\ plan'[e] = plan[e] BY <1>0, <3>2
        <4>2. \A s \in DOMAIN plan[e] : wait[s] > 0 => wait'[s] > 0 BY <1>0
        <4> QED BY <1>0, <4>1, <4>2 DEF Batches
      <3> QED BY <3>1, <3>2
    <2> QED BY <2>1 DEF Batches
  <1> QED BY <1>3, <1>4

\* Steps that add nobody to those who hold a source, and send nothing.
LEMMA NobodyHolds ==
    ASSUME CycleInv, UNCHANGED <<sent, outlived>>,
           \A s \in Sources : Holders(s)' \subseteq Holders(s),
           \A s \in Sources : wait'[s] = wait[s] \/ wait'[s] > 0
    PROVE  SentOrHeld'
  <1> SUFFICES ASSUME NEW s \in Sources
               PROVE  /\ wait'[s] = 0 => sent[s] = 0
                      /\ sent[s] + Cardinality(Holders(s)') <= 1 + outlived[s]
    BY DEF SentOrHeld
  <1>1. /\ IsFiniteSet(Holders(s)) /\ Cardinality(Holders(s)) \in Nat
        /\ sent[s] \in Nat /\ outlived[s] \in Nat
        /\ sent[s] + Cardinality(Holders(s)) <= 1 + outlived[s]
        /\ wait[s] = 0 => sent[s] = 0
    BY HoldersRun DEF CycleInv, TypeOK, SentOrHeld
  <1>2. Cardinality(Holders(s)') \in Nat /\ Cardinality(Holders(s)') <= Cardinality(Holders(s))
    BY <1>1, FS_Subset, FS_CardinalityType
  <1> QED BY <1>1, <1>2

\* A source is selected while nothing has been sent for it, so the running executions bound
\* those that hold it.
LEMMA SelectCycle ==
    ASSUME CycleInv, NEW d \in Dispatchers, SelectBatch(d)
    PROVE  Locked' /\ Batches' /\ SentOrHeld'
  <1>0. /\ TypeOK /\ Locked /\ Batches /\ SentOrHeld
        /\ dpc \in [Dispatchers -> {"idle", "select", "commit", "send"}]
        /\ plan \in [Dispatchers -> Plans] /\ dpc[d] = "select" /\ DOMAIN plan[d] = {}
        /\ UNCHANGED <<lock, wait, sent, outlived>>
    BY DEF CycleInv, TypeOK, Batches, SelectBatch, tables, ghosts
  <1>1. CASE dpc' = [dpc EXCEPT ![d] = "idle"] /\ UNCHANGED plan
    <2>1. Locked' /\ Batches' BY <1>0, <1>1, ExecutionCycle
    <2>2. \A s \in Sources : Holders(s)' \subseteq Holders(s) BY <1>1 DEF Holders
    <2> QED BY <1>0, <2>1, <2>2, NobodyHolds
  <1>2. ASSUME NEW batch \in SUBSET Due,
               plan' = [plan EXCEPT ![d] = [s \in batch |-> freq[s]]],
               dpc' = [dpc EXCEPT ![d] = "commit"]
        PROVE  Locked' /\ Batches' /\ SentOrHeld'
    <2>1. /\ DOMAIN plan'[d] = batch /\ \A e \in Dispatchers \ {d} : plan'[e] = plan[e]
          /\ dpc'[d] = "commit" /\ \A e \in Dispatchers \ {d} : dpc'[e] = dpc[e]
      BY <1>0, <1>2
    <2>2. Locked' /\ Batches' BY <1>0, <1>2, <2>1, ExecutionCycle
    <2>3. ASSUME NEW s \in Sources
          PROVE  sent[s] + Cardinality(Holders(s)') <= 1 + outlived[s]
      <3>1. CASE s \in batch
        <4>1. sent[s] = 0 BY <1>0, <3>1 DEF Due, Rows, SentOrHeld
        <4>2. Holders(s)' \subseteq Running' BY <2>2 DEF Holders, Running, Batches
        <4>3. /\ Cardinality(Holders(s)') <= Cardinality(Running')
              /\ Cardinality(Holders(s)') \in Nat /\ Cardinality(Running') \in Nat
          BY <2>2, <4>2, FS_Subset, FS_CardinalityType DEF Locked
        <4>4. Cardinality(Running') <= outlived[s] + 1 /\ outlived[s] \in Nat
          BY <1>0, <2>2, <4>3 DEF Locked, TypeOK
        <4> QED BY <4>1, <4>3, <4>4
      <3>2. CASE s \notin batch
        <4>1. Holders(s)' = Holders(s) BY <1>0, <2>1, <3>2 DEF Holders
        <4> QED BY <1>0, <4>1 DEF SentOrHeld
      <3> QED BY <3>1, <3>2
    <2>4. SentOrHeld' BY <1>0, <2>3 DEF SentOrHeld
    <2> QED BY <2>2, <2>4
  <1> QED BY <1>1, <1>2 DEF SelectBatch

\* The send turns a holder into a task.
LEMMA SendCycle ==
    ASSUME CycleInv, NEW d \in Dispatchers, NEW x \in Sources, NEW t \in Tasks, SendTask(d, x, t)
    PROVE  Locked' /\ Batches' /\ SentOrHeld'
  <1>0. /\ TypeOK /\ Locked /\ Batches /\ SentOrHeld /\ sent \in [Sources -> Nat]
        /\ dpc \in [Dispatchers -> {"idle", "select", "commit", "send"}]
        /\ plan \in [Dispatchers -> Plans] /\ dpc[d] = "send" /\ x \in DOMAIN plan[d]
        /\ UNCHANGED <<lock, dpc, wait, outlived>>
        /\ plan' = [plan EXCEPT ![d] = [s \in DOMAIN plan[d] \ {x} |-> plan[d][s]]]
        /\ sent' = [sent EXCEPT ![x] = @ + 1]
    BY DEF CycleInv, TypeOK, SendTask, tables
  <1>1. /\ DOMAIN plan'[d] = DOMAIN plan[d] \ {x}
        /\ \A e \in Dispatchers \ {d} : plan'[e] = plan[e]
    BY <1>0
  <1>2. \A s \in DOMAIN plan[d] : wait[s] > 0 BY <1>0 DEF Batches
  <1>3. dpc' = [dpc EXCEPT ![d] = "send"] BY <1>0
  <1>4. Locked' /\ Batches' BY <1>0, <1>1, <1>2, <1>3, ExecutionCycle
  <1>5. ASSUME NEW s \in Sources
        PROVE  /\ wait[s] = 0 => sent'[s] = 0
               /\ sent'[s] + Cardinality(Holders(s)') <= 1 + outlived[s]
    <2>1. /\ IsFiniteSet(Holders(s)) /\ Cardinality(Holders(s)) \in Nat
          /\ sent[s] \in Nat /\ outlived[s] \in Nat
          /\ sent[s] + Cardinality(Holders(s)) <= 1 + outlived[s]
          /\ wait[s] = 0 => sent[s] = 0
      BY <1>0, HoldersRun DEF TypeOK, SentOrHeld
    <2>2. CASE s = x
      <3>1. d \in Holders(s) /\ Holders(s)' = Holders(s) \ {d}
        BY <1>0, <1>1, <2>2 DEF Holders
      <3>2. Cardinality(Holders(s)') = Cardinality(Holders(s)) - 1
        BY <2>1, <3>1, FS_RemoveElement
      <3>3. sent'[s] = sent[s] + 1 /\ wait[s] > 0 BY <1>0, <1>2, <2>2
      <3> QED BY <2>1, <3>2, <3>3
    <2>3. CASE s # x
      <3>1. Holders(s)' = Holders(s) /\ sent'[s] = sent[s]
        BY <1>0, <1>1, <2>3 DEF Holders
      <3> QED BY <2>1, <3>1
    <2> QED BY <2>2, <2>3
  <1>6. SentOrHeld' BY <1>0, <1>5 DEF SentOrHeld
  <1> QED BY <1>4, <1>6

\* The other steps of an execution: the commit, the end of a batch and its own end.
LEMMA ProgressCycle ==
    ASSUME CycleInv, NEW d \in Dispatchers,
           CommitBatch(d) \/ CommitStale(d) \/ BatchDone(d) \/ DispatchAborts(d)
    PROVE  Locked' /\ Batches' /\ SentOrHeld'
  <1>0. /\ TypeOK /\ plan \in [Dispatchers -> Plans] /\ wait \in [Sources -> Nat]
    BY DEF CycleInv, TypeOK
  <1>1. CASE CommitBatch(d)
    <2>1. /\ dpc[d] = "commit" /\ dpc' = [dpc EXCEPT ![d] = "send"]
          /\ UNCHANGED <<lock, plan, sent, outlived>>
          /\ wait' = [s \in Sources |-> IF s \in DOMAIN plan[d] THEN plan[d][s] ELSE wait[s]]
      BY <1>1 DEF CommitBatch, ghosts
    <2>2. DOMAIN plan[d] \subseteq Sources /\ \A s \in DOMAIN plan[d] : plan[d][s] \in Nat \ {0}
      BY <1>0, PlanElim, ScheduleAssumption
    <2>3. /\ \A s \in Sources : wait'[s] = wait[s] \/ wait'[s] > 0
          /\ \A s \in DOMAIN plan[d] : wait'[s] > 0
      BY <2>1, <2>2
    <2>4. Locked' /\ Batches' BY <2>1, <2>3, ExecutionCycle
    <2>5. \A s \in Sources : Holders(s)' \subseteq Holders(s) BY <2>1 DEF Holders
    <2> QED BY <2>1, <2>3, <2>4, <2>5, NobodyHolds
  <1>2. CASE CommitStale(d) \/ DispatchAborts(d)
    <2>1. /\ dpc[d] # "idle" /\ dpc' = [dpc EXCEPT ![d] = "idle"]
          /\ plan' = [plan EXCEPT ![d] = NoPlan] /\ UNCHANGED <<lock, wait, sent, outlived>>
      BY <1>2 DEF CommitStale, DispatchAborts, tables, ghosts
    <2>2. DOMAIN plan'[d] = {} /\ \A e \in Dispatchers \ {d} : plan'[e] = plan[e]
      BY <1>0, <2>1, NoPlanIsPlan
    <2>3. Locked' /\ Batches' BY <2>1, <2>2, ExecutionCycle
    <2>4. \A s \in Sources : Holders(s)' \subseteq Holders(s) BY <2>2 DEF Holders
    <2> QED BY <2>1, <2>3, <2>4, NobodyHolds
  <1>3. CASE BatchDone(d)
    <2>1. /\ dpc[d] = "send" /\ DOMAIN plan[d] = {} /\ dpc' = [dpc EXCEPT ![d] = "select"]
          /\ UNCHANGED <<lock, plan, wait, sent, outlived>>
      BY <1>3 DEF BatchDone, tables, ghosts
    <2>2. Locked' /\ Batches' BY <2>1, ExecutionCycle
    <2>3. \A s \in Sources : Holders(s)' \subseteq Holders(s) BY <2>1 DEF Holders
    <2> QED BY <2>1, <2>2, <2>3, NobodyHolds
  <1> QED BY <1>1, <1>2, <1>3

LEMMA StepCycle == CycleInv /\ [Next]_vars => CycleInv'
  <1> SUFFICES ASSUME CycleInv, [Next]_vars
               PROVE  Locked' /\ Batches' /\ SentOrHeld'
    BY StepTypeOK DEF CycleInv
  <1>1. CASE Tick \/ LockLapses BY <1>1, TickCycle, LapseCycle
  <1>2. CASE UserStep
    BY <1>2, OthersKeepCycle
    DEF UserStep, CreateSource, UpdateFrequency, DeleteSource, dispatch
  <1>3. ASSUME NEW d \in Dispatchers, AcquireLock(d) \/ DispatchStep(d) \/ DispatchAborts(d)
        PROVE  Locked' /\ Batches' /\ SentOrHeld'
    BY <1>3, AcquireCycle, SelectCycle, SendCycle, ProgressCycle DEF DispatchStep
  <1>4. ASSUME NEW t \in Tasks, TakeTask(t) \/ EndTask(t) \/ WorkerCrash(t)
        PROVE  Locked' /\ Batches' /\ SentOrHeld'
    BY <1>4, TaskStepsPush, OthersKeepCycle DEF CycleInv
  <1>5. CASE UNCHANGED vars
    BY <1>5, OthersKeepCycle DEF vars, ghosts
  <1> QED BY <1>1, <1>2, <1>3, <1>4, <1>5 DEF Next

LEMMA CycleBound == CycleInv => OneTaskPerDueCycle
  <1> SUFFICES ASSUME CycleInv, NEW s \in Sources PROVE sent[s] <= 1 + outlived[s]
    BY DEF OneTaskPerDueCycle
  <1>1. /\ Cardinality(Holders(s)) \in Nat /\ sent[s] \in Nat /\ outlived[s] \in Nat
        /\ sent[s] + Cardinality(Holders(s)) <= 1 + outlived[s]
    BY HoldersRun DEF CycleInv, TypeOK, SentOrHeld
  <1> QED BY <1>1

\* A source gets one scrape_source task each time it falls due, and one more at most for
\* each execution that outlived its lock meanwhile (tasks.py:206-218, 229-242): for any
\* number of sources, tasks and executions, any frequencies, batch size and faults.
THEOREM OneTask == Spec => []OneTaskPerDueCycle
  <1>1. Init => CycleInv BY InitCycle
  <1>2. CycleInv /\ [Next]_vars => CycleInv' BY StepCycle
  <1> QED BY <1>1, <1>2, CycleBound, PTL DEF Spec

-----------------------------------------------------------------------------
(* No task is dropped in silence.                                          *)

\* A running task becomes free only by success, through the dead-letter queue or by
\* a fault.
Traced == \A t \in Tasks :
    task[t].st = "running" /\ task'[t].st = "free" =>
       \/ task[t].src \in dlq'
       \/ wait'[task[t].src] = task[t].freq
       \/ faults' > faults

LEMMA StepTraced == ASSUME TypeOK, [Next]_vars PROVE Traced
  <1> SUFFICES ASSUME NEW t \in Tasks, task[t].st = "running", task'[t].st = "free"
               PROVE  \/ task[t].src \in dlq'
                      \/ wait'[task[t].src] = task[t].freq
                      \/ faults' > faults
    BY DEF Traced
  <1>1. faults \in Nat /\ task[t].src \in Sources
    BY ScheduleAssumption DEF TypeOK
  <1>2. task' # task OBVIOUS
  <1>3. PICK u \in Tasks : TakeTask(u) \/ EndTask(u) \/ WorkerCrash(u)
                          \/ \E d \in Dispatchers, s \in Sources : SendTask(d, s, u)
    BY <1>2 DEF Next, vars, Tick, LockLapses, UserStep, CreateSource, UpdateFrequency,
       DeleteSource, AcquireLock, DispatchStep, SelectBatch, CommitBatch, CommitStale, BatchDone,
       DispatchAborts
  <1>4. u = t
    <2>1. \E m : task' = [task EXCEPT ![u] = m]
      BY <1>3 DEF TakeTask, StartTask, SourceNotFound, EndTask, TaskSucceeds, RetryTask,
         RetryLost, DeadLetter, DeadLetterFails, WorkerCrash, SendTask
    <2> QED BY <2>1 DEF TypeOK
  <1>5. TaskSucceeds(t) \/ DeadLetter(t) \/ faults' = faults + 1
    <2>1. ~RetryTask(t) BY DEF RetryTask, TypeOK
    <2>2. ~TakeTask(t) BY DEF TakeTask, StartTask, SourceNotFound
    <2>3. \A d \in Dispatchers, s \in Sources : ~SendTask(d, s, t) BY DEF SendTask
    <2> QED
      BY <1>3, <1>4, <2>1, <2>2, <2>3 DEF EndTask, RetryLost, DeadLetterFails, WorkerCrash
  <1>6. CASE TaskSucceeds(t) BY <1>1, <1>6 DEF TaskSucceeds, TypeOK
  <1>7. CASE DeadLetter(t) BY <1>7 DEF DeadLetter
  <1> QED BY <1>1, <1>5, <1>6, <1>7

\* No task is lost in silence (tasks.py:104-121, 156-176).
THEOREM NoDrop == Spec => NoSilentDrop
  <1>1. TypeOK /\ [Next]_vars => [Traced]_vars BY StepTraced
  <1> QED BY <1>1, TypeCorrect, PTL DEF Spec, NoSilentDrop, Traced

-----------------------------------------------------------------------------
(* The scheduler in the scraping system, where its tasks run scrapes beside     *)
(* those of manual jobs and a fault may be anybody's.                           *)

CONSTANTS Jobs, RealtimeEnabled, Hashes, MaxRevisions
VARIABLES active, job, runner, page, revs, outbox, run, overlapped, found

System == INSTANCE ScrapeSystem WITH None <- NoSource

\* A step of others leaves the scheduler alone and may be a fault.
Elsewhere ==
    /\ UNCHANGED <<tables, dispatch, task, dlq, ghosts>>
    /\ faults' = faults \/ (faults < MaxFaults /\ faults' = faults + 1)

\* A step of the scheduler within the system is one of its own steps.
LEMMA DispatchSteps ==
    /\ System!Schedule!Tick => Tick
    /\ System!Schedule!LockLapses => LockLapses
    /\ \A s \in Sources :
          /\ System!Schedule!CreateSource(s) => CreateSource(s)
          /\ System!Schedule!DeleteSource(s) => DeleteSource(s)
          /\ \A f \in Frequencies : System!Schedule!UpdateFrequency(s, f) => UpdateFrequency(s, f)
    /\ \A d \in Dispatchers :
          /\ System!Schedule!AcquireLock(d) => AcquireLock(d)
          /\ System!Schedule!DispatchStep(d) => DispatchStep(d)
          /\ System!Schedule!DispatchAborts(d) => DispatchAborts(d)
  <1> USE DEF System!Schedule!tables, tables, System!Schedule!dispatch, dispatch,
      System!Schedule!ghosts, ghosts,
      System!Schedule!Rows, Rows
  <1>1. System!Schedule!Due = Due /\ System!Schedule!NoPlan = NoPlan
        /\ System!Schedule!FreeTask = FreeTask
    BY DEF System!Schedule!Due, Due, System!Schedule!NoPlan, NoPlan,
       System!Schedule!FreeTask, FreeTask
  <1>2. ASSUME NEW s \in Sources, NEW f \in Frequencies
        PROVE  System!Schedule!UpdateFrequency(s, f) => UpdateFrequency(s, f)
    BY DEF System!Schedule!UpdateFrequency, UpdateFrequency
  <1>3. ASSUME NEW s \in Sources
        PROVE  /\ System!Schedule!CreateSource(s) => CreateSource(s)
               /\ System!Schedule!DeleteSource(s) => DeleteSource(s)
    BY DEF System!Schedule!CreateSource, CreateSource, System!Schedule!DeleteSource, DeleteSource
  <1>4. ASSUME NEW d \in Dispatchers
        PROVE  /\ System!Schedule!AcquireLock(d) => AcquireLock(d)
               /\ System!Schedule!DispatchAborts(d) => DispatchAborts(d)
    BY <1>1 DEF System!Schedule!AcquireLock, AcquireLock, System!Schedule!DispatchAborts,
       DispatchAborts
  <1>5. ASSUME NEW d \in Dispatchers
        PROVE  System!Schedule!DispatchStep(d) => DispatchStep(d)
    <2>1. System!Schedule!SelectBatch(d) => SelectBatch(d)
      <3>1. \A S : System!Schedule!Cardinality(S) = Cardinality(S)
        BY DEF System!Schedule!Cardinality, Cardinality
      <3> QED BY <1>1, <3>1 DEF System!Schedule!SelectBatch, SelectBatch
    <2>2. /\ System!Schedule!CommitBatch(d) => CommitBatch(d)
          /\ System!Schedule!CommitStale(d) => CommitStale(d)
      <3>1. \A S : System!Schedule!Cardinality(S) = Cardinality(S)
        BY DEF System!Schedule!Cardinality, Cardinality
      <3> QED BY <1>1, <3>1 DEF System!Schedule!CommitBatch, CommitBatch,
           System!Schedule!CommitStale, CommitStale
    <2>3. ASSUME NEW s \in Sources, NEW t \in Tasks
          PROVE  System!Schedule!SendTask(d, s, t) => SendTask(d, s, t)
      BY <1>1 DEF System!Schedule!SendTask, SendTask
    <2>4. System!Schedule!BatchDone(d) => BatchDone(d)
      BY DEF System!Schedule!BatchDone, BatchDone
    <2> QED BY <2>1, <2>2, <2>3, <2>4 DEF System!Schedule!DispatchStep, DispatchStep
  <1>6. (System!Schedule!Tick => Tick) /\ (System!Schedule!LockLapses => LockLapses)
    BY DEF System!Schedule!Tick, Tick, System!Schedule!LockLapses, LockLapses,
       System!Schedule!Running, Running
  <1> QED BY <1>2, <1>3, <1>4, <1>5, <1>6

LEMMA TaskSteps ==
    ASSUME NEW t \in Tasks
    PROVE  /\ System!Schedule!StartTask(t) => StartTask(t)
           /\ System!Schedule!SourceNotFound(t) => SourceNotFound(t)
           /\ System!Schedule!DeadLetter(t) => DeadLetter(t)
           /\ System!Schedule!WorkerCrash(t) => WorkerCrash(t)
           /\ System!Schedule!RetryTask(t) => RetryTask(t)
           /\ System!Schedule!RetryLost(t) => RetryLost(t)
           /\ System!Schedule!DeadLetterFails(t) => DeadLetterFails(t)
  <1> USE DEF System!Schedule!tables, tables, System!Schedule!dispatch, dispatch,
      System!Schedule!ghosts, ghosts,
      System!Schedule!Rows, Rows, System!Schedule!FreeTask, FreeTask
  <1>1. /\ System!Schedule!StartTask(t) => StartTask(t)
        /\ System!Schedule!SourceNotFound(t) => SourceNotFound(t)
        /\ System!Schedule!WorkerCrash(t) => WorkerCrash(t)
    BY DEF System!Schedule!StartTask, StartTask, System!Schedule!SourceNotFound, SourceNotFound,
       System!Schedule!WorkerCrash, WorkerCrash
  <1>2. /\ System!Schedule!RetryTask(t) => RetryTask(t)
        /\ System!Schedule!RetryLost(t) => RetryLost(t)
        /\ System!Schedule!DeadLetter(t) => DeadLetter(t)
        /\ System!Schedule!DeadLetterFails(t) => DeadLetterFails(t)
    BY DEF System!Schedule!RetryTask, RetryTask, System!Schedule!RetryLost, RetryLost,
       System!Schedule!DeadLetter, DeadLetter, System!Schedule!DeadLetterFails, DeadLetterFails
  <1> QED BY <1>1, <1>2

LEMMA SystemStep == [System!Next]_System!vars => Next \/ Elsewhere
  <1> SUFFICES ASSUME [System!Next]_System!vars PROVE Next \/ Elsewhere
    OBVIOUS
  <1>1. CASE UNCHANGED System!vars
    BY <1>1 DEF System!vars, System!schedule, Elsewhere, tables, dispatch, ghosts
  <1>2. CASE System!ScheduleAlone
    <2>1. \/ Tick \/ LockLapses
          \/ \E s \in Sources : CreateSource(s)
          \/ \E s \in Sources, f \in Frequencies : UpdateFrequency(s, f)
          \/ \E d \in Dispatchers : AcquireLock(d) \/ DispatchStep(d) \/ DispatchAborts(d)
          \/ \E t \in Tasks : SourceNotFound(t)
      BY <1>2, DispatchSteps, TaskSteps DEF System!ScheduleAlone
    <2> QED BY <2>1 DEF Next, UserStep, TakeTask
  <1>3. ASSUME NEW s \in Sources, System!DeleteSource(s) PROVE Next
    <2>1. DeleteSource(s) BY <1>3, DispatchSteps DEF System!DeleteSource
    <2> QED BY <2>1 DEF Next, UserStep
  <1>4. ASSUME \/ System!ManualAlone \/ System!ProcessRestart
               \/ \E s \in Sources : System!PageChanges(s)
               \/ \E j \in Jobs : System!StartJob(j) \/ System!JobRaised(j)
        PROVE  Elsewhere
    BY <1>4 DEF System!ManualAlone, System!ProcessRestart, System!PageChanges, System!StartJob,
       System!JobRaised, System!Manual!ToggleActive, System!Manual!Trigger,
       System!Manual!TriggerCutShort, System!Manual!Start, System!Manual!StartFails,
       System!Manual!Finish, System!Manual!FinishFails, System!Manual!ProcessRestart,
       System!Pipeline!PageChanges, System!schedule, Elsewhere, tables, dispatch, ghosts
  <1>5. ASSUME NEW r \in Tasks \cup Jobs, System!ScrapeStep(r) PROVE Elsewhere
    <2>1. /\ UNCHANGED <<tables, dispatch, task, dlq, ghosts>>
          /\ System!Pipeline!Step(r)
      BY <1>5 DEF System!ScrapeStep, System!schedule, tables, dispatch, ghosts
    <2> QED
      BY <2>1 DEF System!Pipeline!Step, System!Pipeline!Fetch, System!Pipeline!Compare,
         System!Pipeline!Analyze, System!Pipeline!FailBeforePersist, System!Pipeline!Persist,
         System!Pipeline!PersistFails, System!Pipeline!Notify, System!Pipeline!NotifyFails,
         System!Pipeline!CreateTicket, Elsewhere
  <1>6. ASSUME NEW t \in Tasks,
               System!StartTask(t) \/ System!TaskRaised(t) \/ System!WorkerCrash(t)
        PROVE  Next
    <2>1. \/ StartTask(t) \/ WorkerCrash(t) \/ RetryTask(t) \/ RetryLost(t)
          \/ DeadLetter(t) \/ DeadLetterFails(t)
      BY <1>6, TaskSteps DEF System!StartTask, System!TaskRaised, System!WorkerCrash
    <2> QED BY <2>1 DEF Next, TakeTask, EndTask
  <1> QED
    BY <1>1, <1>2, <1>3, <1>4, <1>5, <1>6 DEF System!Next

LEMMA SystemBegins == System!Init => Init
  BY DEF System!Init, System!Schedule!Init, Init, System!Schedule!NoPlan, NoPlan,
     System!Schedule!FreeTask, FreeTask

LEMMA ElsewhereTypes == TypeOK /\ Elsewhere => TypeOK'
  <1> SUFFICES ASSUME TypeOK, Elsewhere PROVE TypeOK'
    OBVIOUS
  <1>1. faults' \in 0..MaxFaults BY ScheduleAssumption DEF Elsewhere, TypeOK
  <1> QED BY <1>1 DEF Elsewhere, TypeOK, tables, dispatch, ghosts

LEMMA SystemKeepsTypes == TypeOK /\ [System!Next]_System!vars => TypeOK'
  BY SystemStep, StepTypeOK, ElsewhereTypes

LEMMA SystemKeepsCycle == CycleInv /\ [System!Next]_System!vars => CycleInv'
  <1> SUFFICES ASSUME CycleInv, [System!Next]_System!vars PROVE CycleInv'
    OBVIOUS
  <1>1. CASE Next BY <1>1, StepCycle
  <1>2. CASE Elsewhere
    BY <1>2, ElsewhereTypes, OthersKeepCycle DEF Elsewhere, CycleInv, tables, dispatch
  <1> QED BY <1>1, <1>2, SystemStep

\* However its tasks and manual jobs scrape, a source gets one task each time it falls due,
\* and one more at most for each execution that outlived its lock (tasks.py:206-218, 229-242).
THEOREM OneTaskInSystem == System!Spec => []OneTaskPerDueCycle
  <1>1. System!Init => CycleInv BY SystemBegins, InitCycle
  <1>2. CycleInv /\ [System!Next]_System!vars => CycleInv' BY SystemKeepsCycle
  <1> QED BY <1>1, <1>2, CycleBound, PTL DEF System!Spec

\* No task is lost in silence there: since no scrape returns, it is retried, goes through
\* the dead-letter queue or meets a fault (tasks.py:104-121, 156-176).
THEOREM NoDropInSystem == System!Spec => NoSilentDrop
  <1>1. System!Init => TypeOK BY SystemBegins, InitTypeOK
  <1>2. TypeOK /\ [System!Next]_System!vars => [Traced]_vars
    <2> SUFFICES ASSUME TypeOK, [System!Next]_System!vars PROVE [Traced]_vars
      OBVIOUS
    <2>1. CASE Next BY <2>1, StepTraced
    <2>2. CASE Elsewhere BY <2>2 DEF Elsewhere, Traced
    <2> QED BY <2>1, <2>2, SystemStep
  <1> QED BY <1>1, <1>2, SystemKeepsTypes, PTL DEF System!Spec, NoSilentDrop, Traced
=============================================================================
