---------------------- MODULE RevisionPipeline_proofs ----------------------
(***************************************************************************)
(* Proofs about RevisionPipeline, for any number of sources, scrapes,      *)
(* hashes, revisions and faults.                                           *)
(***************************************************************************)
EXTENDS RevisionPipeline, TLAPS

-----------------------------------------------------------------------------
(* Type correctness.                                                       *)

\* A scrape under way knows its source, and its hash from the fetch on.
Scrape(m) ==
    /\ m \in RunState
    /\ m.pc # "idle" => m.src \in Sources
    /\ m.pc \in {"compare", "analyze", "persist"} => m.hash \in Hashes

\* A step that leaves scrape r as m.
Leaves(r, m) ==
    /\ Scrape(m)
    /\ run' = [run EXCEPT ![r] = m]

\* The other variables keep their types.
RestTyped ==
    /\ page' \in [Sources -> Hashes]
    /\ revs' \in [Sources -> Seq(Revision)]
    /\ outbox' \in [Sources -> Seq(Nat)]
    /\ faults' \in 0..MaxFaults
    /\ overlapped' \subseteq Sources

LEMMA ScrapeStep ==
    ASSUME TypeOK, NEW r \in Runs, NEW m, Leaves(r, m), RestTyped
    PROVE  TypeOK'
  BY DEF TypeOK, Leaves, Scrape, RestTyped

LEMMA IdleIsScrape == Scrape(IdleRun) /\ IdleRun.pc = "idle"
  BY DEF Scrape, IdleRun, RunState, Phases

LEMMA RunIsScrape == ASSUME TypeOK, NEW r \in Runs PROVE Scrape(run[r])
  BY DEF TypeOK, Scrape

LEMMA InitTypeOK == Init => TypeOK
  <1> SUFFICES ASSUME Init PROVE TypeOK
    OBVIOUS
  <1>1. \A r \in Runs : Scrape(run[r]) BY IdleIsScrape DEF Init
  <1>2. run \in [Runs -> RunState] BY IdleIsScrape DEF Init, Scrape
  <1>3. revs \in [Sources -> Seq(Revision)] /\ outbox \in [Sources -> Seq(Nat)] BY DEF Init
  <1>4. faults \in 0..MaxFaults BY PipelineAssumption DEF Init
  <1> QED BY <1>1, <1>2, <1>3, <1>4 DEF Init, TypeOK, Scrape

LEMMA PageChangesTypes == ASSUME TypeOK, NEW s \in Sources, PageChanges(s) PROVE TypeOK'
  BY DEF TypeOK, PageChanges

LEMMA BeginTypes ==
    ASSUME TypeOK, NEW r \in Runs, NEW s \in Sources, Begin(r, s) PROVE TypeOK'
  <1> DEFINE m == [IdleRun EXCEPT !.pc = "fetch", !.src = s]
  <1>1. Scrape(m) BY DEF Scrape, IdleRun, RunState, Phases
  <1> HIDE DEF m
  <1>2. Leaves(r, m) BY <1>1 DEF Begin, Leaves, m
  <1>3. RestTyped BY DEF Begin, RestTyped, TypeOK
  <1> QED BY <1>2, <1>3, ScrapeStep

LEMMA FetchTypes == ASSUME TypeOK, NEW r \in Runs, Fetch(r) PROVE TypeOK'
  <1> DEFINE m == [run[r] EXCEPT !.pc = "compare", !.hash = page[run[r].src]]
  <1>1. run[r].src \in Sources /\ page[run[r].src] \in Hashes
    BY RunIsScrape DEF Fetch, Scrape, TypeOK
  <1>2. Scrape(m) BY <1>1, RunIsScrape DEF Fetch, Scrape, RunState, Phases
  <1>3. Leaves(r, m) BY <1>2 DEF Fetch, Leaves, TypeOK, RunState
  <1>4. RestTyped BY DEF Fetch, RestTyped, TypeOK
  <1> HIDE DEF m
  <1> QED BY <1>3, <1>4, ScrapeStep

LEMMA CompareTypes == ASSUME TypeOK, NEW r \in Runs, Compare(r) PROVE TypeOK'
  <1>1. run[r].src \in Sources /\ Len(revs[run[r].src]) \in Nat
    BY RunIsScrape DEF Compare, Scrape, TypeOK
  <1>2. PICK p \in {"persist", "analyze"} :
            run' = [run EXCEPT ![r].pc = p, ![r].last = Len(revs[run[r].src])]
    BY DEF Compare
  <1> DEFINE m == [run[r] EXCEPT !.pc = p, !.last = Len(revs[run[r].src])]
  <1>3. Scrape(m) BY <1>1, RunIsScrape DEF Compare, Scrape, RunState, Phases
  <1>4. Leaves(r, m) BY <1>2, <1>3 DEF Leaves, TypeOK, RunState
  <1>5. RestTyped BY DEF Compare, RestTyped, TypeOK
  <1> HIDE DEF m
  <1> QED BY <1>4, <1>5, ScrapeStep

LEMMA AnalyzeTypes == ASSUME TypeOK, NEW r \in Runs, Analyze(r) PROVE TypeOK'
  <1>1. PICK c \in BOOLEAN : run' = [run EXCEPT ![r].pc = "persist", ![r].changed = c]
    BY DEF Analyze
  <1> DEFINE m == [run[r] EXCEPT !.pc = "persist", !.changed = c]
  <1>2. Scrape(m) BY RunIsScrape DEF Analyze, Scrape, RunState, Phases
  <1>3. Leaves(r, m) BY <1>1, <1>2 DEF Leaves, TypeOK, RunState
  <1>4. RestTyped BY DEF Analyze, RestTyped, TypeOK
  <1> HIDE DEF m
  <1> QED BY <1>3, <1>4, ScrapeStep

\* The revision a scrape is about to commit.
NewRevision(r) == [hash |-> run[r].hash, prev |-> run[r].last, changed |-> run[r].changed]

LEMMA NewRevisionType ==
    ASSUME TypeOK, NEW r \in Runs, run[r].pc = "persist"
    PROVE  NewRevision(r) \in Revision /\ run[r].src \in Sources
  BY RunIsScrape DEF NewRevision, Revision, Scrape, RunState

\* What Persist does, in terms of NewRevision.
LEMMA PersistStep ==
    ASSUME TypeOK, NEW r \in Runs, Persist(r)
    PROVE  /\ run[r].pc = "persist" /\ run[r].src \in Sources
           /\ revs' = [revs EXCEPT ![run[r].src] = Append(@, NewRevision(r))]
           /\ run' = [run EXCEPT ![r].pc = IF HasDiff(NewRevision(r)) THEN "notify" ELSE "ticket",
                                 ![r].rev = Len(revs[run[r].src]) + 1]
           /\ UNCHANGED <<page, outbox, faults, overlapped>>
  BY NewRevisionType DEF Persist, NewRevision

LEMMA PersistTypes == ASSUME TypeOK, NEW r \in Runs, Persist(r) PROVE TypeOK'
  <1>1. NewRevision(r) \in Revision /\ run[r].src \in Sources
    BY NewRevisionType, PersistStep
  <1>2. Len(revs[run[r].src]) + 1 \in Nat BY <1>1 DEF TypeOK
  <1>3. PICK p \in {"notify", "ticket"} :
            run' = [run EXCEPT ![r].pc = p, ![r].rev = Len(revs[run[r].src]) + 1]
    BY PersistStep
  <1> DEFINE m == [run[r] EXCEPT !.pc = p, !.rev = Len(revs[run[r].src]) + 1]
  <1>4. Scrape(m) BY <1>1, <1>2, RunIsScrape DEF Scrape, RunState, Phases
  <1>5. Leaves(r, m) BY <1>3, <1>4 DEF Leaves, TypeOK, RunState
  <1>6. revs' \in [Sources -> Seq(Revision)]
    <2>1. revs \in [Sources -> Seq(Revision)] BY DEF TypeOK
    <2>2. Append(revs[run[r].src], NewRevision(r)) \in Seq(Revision) BY <1>1, <2>1
    <2>3. revs' = [revs EXCEPT ![run[r].src] = Append(@, NewRevision(r))] BY PersistStep
    <2> QED BY <1>1, <2>1, <2>2, <2>3
  <1>7. RestTyped BY <1>6, PersistStep DEF RestTyped, TypeOK
  <1> HIDE DEF m
  <1> QED BY <1>5, <1>7, ScrapeStep

LEMMA NotifyTypes == ASSUME TypeOK, NEW r \in Runs, Notify(r) PROVE TypeOK'
  <1> DEFINE m == [run[r] EXCEPT !.pc = "ticket"]
  <1>1. run[r].src \in Sources /\ run[r].rev \in Nat
    BY RunIsScrape DEF Notify, Scrape, RunState
  <1>2. Scrape(m) BY <1>1, RunIsScrape DEF Scrape, RunState, Phases
  <1>3. Leaves(r, m) BY <1>2 DEF Notify, Leaves, TypeOK, RunState
  <1>4. outbox' \in [Sources -> Seq(Nat)] BY <1>1 DEF Notify, TypeOK
  <1>5. RestTyped BY <1>4 DEF Notify, RestTyped, TypeOK
  <1> HIDE DEF m
  <1> QED BY <1>3, <1>5, ScrapeStep

\* The ends of a scrape: it raises, or it is forgotten.
Raises(r) == \/ FailBeforePersist(r) \/ PersistFails(r) \/ NotifyFails(r) \/ CreateTicket(r)
Forgets(r) == Release(r) \/ Crash(r)

LEMMA RaisesStep ==
    ASSUME TypeOK, NEW r \in Runs, Raises(r)
    PROVE  /\ run[r].pc \notin {"idle", "raised"}
           /\ run' = [run EXCEPT ![r] = [run[r] EXCEPT !.pc = "raised"]]
           /\ UNCHANGED <<page, revs, outbox, overlapped>>
           /\ faults' \in 0..MaxFaults
           /\ run[r].pc = "notify" => faults' > 0
  <1>1. faults \in Nat /\ faults \in 0..MaxFaults /\ (faults < MaxFaults => faults + 1 \in 0..MaxFaults)
    BY PipelineAssumption DEF TypeOK
  <1>2. run \in [Runs -> RunState]
    BY DEF TypeOK
  <1>3. CASE FailBeforePersist(r)
    BY <1>1, <1>2, <1>3 DEF FailBeforePersist, RunState
  <1>4. CASE PersistFails(r) \/ NotifyFails(r) \/ CreateTicket(r)
    BY <1>1, <1>2, <1>4 DEF PersistFails, NotifyFails, CreateTicket, RunState
  <1> QED BY <1>3, <1>4 DEF Raises

LEMMA RaisesTypes == ASSUME TypeOK, NEW r \in Runs, Raises(r) PROVE TypeOK'
  <1> DEFINE m == [run[r] EXCEPT !.pc = "raised"]
  <1>1. /\ run[r].pc \notin {"idle", "raised"}
        /\ run' = [run EXCEPT ![r] = m]
        /\ UNCHANGED <<page, revs, outbox, overlapped>>
        /\ faults' \in 0..MaxFaults
    BY RaisesStep
  <1>2. Scrape(m) BY <1>1, RunIsScrape DEF Scrape, RunState, Phases
  <1>3. Leaves(r, m) BY <1>1, <1>2 DEF Leaves
  <1>4. RestTyped BY <1>1 DEF RestTyped, TypeOK
  <1> HIDE DEF m
  <1> QED BY <1>3, <1>4, ScrapeStep

LEMMA ForgetsTypes == ASSUME TypeOK, NEW r \in Runs, Forgets(r) PROVE TypeOK'
  <1>1. Leaves(r, IdleRun) BY IdleIsScrape DEF Forgets, Release, Crash, Leaves
  <1>2. RestTyped BY PipelineAssumption DEF Forgets, Release, Crash, RestTyped, TypeOK
  <1> QED BY <1>1, <1>2, ScrapeStep

\* A step is a page that changes, or a step of one scrape.
LEMMA Steps ==
    ASSUME Next
    PROVE  \/ \E s \in Sources : PageChanges(s)
           \/ \E r \in Runs, s \in Sources : Begin(r, s)
           \/ \E r \in Runs : \/ Fetch(r) \/ Compare(r) \/ Analyze(r) \/ Persist(r) \/ Notify(r)
                              \/ Raises(r) \/ Forgets(r)
  BY DEF Next, Step, Raises, Forgets

LEMMA StepTypeOK == TypeOK /\ [Next]_vars => TypeOK'
  <1> SUFFICES ASSUME TypeOK, [Next]_vars PROVE TypeOK'
    OBVIOUS
  <1>1. CASE UNCHANGED vars BY <1>1 DEF vars, TypeOK
  <1>2. CASE Next
    BY <1>2, Steps, PageChangesTypes, BeginTypes, FetchTypes, CompareTypes, AnalyzeTypes,
       PersistTypes, NotifyTypes, RaisesTypes, ForgetsTypes
  <1> QED BY <1>1, <1>2

\* The tables, the queue and the scrapes keep their types (scraper_service.py).
THEOREM TypeCorrect == Spec => []TypeOK
  BY InitTypeOK, StepTypeOK, PTL DEF Spec

-----------------------------------------------------------------------------
(* Diffs and announcements.                                                *)

\* Revision i of s has a diff that waits to be announced.
Pending(s, i) ==
    /\ i \in 1..Len(revs[s]) /\ HasDiff(revs[s][i])
    /\ \A k \in 1..Len(outbox[s]) : outbox[s][k] # i

\* What a scrape remembers is still true of the history, which may have grown since.
Agrees(m) ==
    /\ m.pc \in {"fetch", "compare", "analyze"} => ~m.changed
    /\ m.pc \in {"analyze", "persist"} => m.last \in 0..Len(revs[m.src])
    /\ m.pc = "analyze" \/ (m.pc = "persist" /\ m.changed) =>
          (m.last # 0 => revs[m.src][m.last].hash # m.hash)
    /\ m.pc = "notify" => Pending(m.src, m.rev)

\* No two scrapes are about to announce the same revision.
OneAnnouncer ==
    \A r, q \in Runs :
        /\ run[r].pc = "notify" /\ run[q].pc = "notify"
        /\ run[r].src = run[q].src /\ run[r].rev = run[q].rev
        => r = q

FeedInv ==
    /\ TypeOK
    /\ DiffsAreReal
    /\ AnnouncedOnce
    /\ \A r \in Runs : Agrees(run[r])
    /\ OneAnnouncer

LEMMA IdleAgrees == Agrees(IdleRun)
  BY DEF Agrees, IdleRun

LEMMA InitFeed == Init => FeedInv
  <1> SUFFICES ASSUME Init PROVE FeedInv
    OBVIOUS
  <1>1. TypeOK BY InitTypeOK
  <1>2. \A s \in Sources : Len(revs[s]) = 0 /\ Len(outbox[s]) = 0 BY DEF Init
  <1>3. DiffsAreReal /\ AnnouncedOnce BY <1>2 DEF DiffsAreReal, AnnouncedOnce
  <1>4. \A r \in Runs : Agrees(run[r]) BY IdleAgrees DEF Init
  <1>5. OneAnnouncer BY IdleIsScrape DEF Init, OneAnnouncer
  <1> QED BY <1>1, <1>3, <1>4, <1>5 DEF FeedInv

\* A step that touches neither the history nor the queue, and brings no scrape to the
\* announcement.
LEMMA QuietStep ==
    ASSUME FeedInv, TypeOK', NEW r \in Runs, NEW m, run' = [run EXCEPT ![r] = m],
           Agrees(m), m.pc # "notify", UNCHANGED <<revs, outbox>>
    PROVE  FeedInv'
  <1>1. DiffsAreReal' /\ AnnouncedOnce' BY DEF FeedInv, DiffsAreReal, AnnouncedOnce
  <1>2. run'[r] = m /\ \A q \in Runs \ {r} : run'[q] = run[q] BY DEF FeedInv, TypeOK
  <1>3. \A q \in Runs : Agrees(run'[q])
    BY <1>2 DEF FeedInv
  <1>4. (\A q \in Runs : Agrees(run[q]))' BY <1>3 DEF Agrees, Pending
  <1>5. OneAnnouncer' BY <1>2 DEF FeedInv, OneAnnouncer
  <1> QED BY <1>1, <1>4, <1>5 DEF FeedInv

LEMMA BeginFeed ==
    ASSUME FeedInv, NEW r \in Runs, NEW s \in Sources, Begin(r, s) PROVE FeedInv'
  <1> DEFINE m == [IdleRun EXCEPT !.pc = "fetch", !.src = s]
  <1>1. Agrees(m) /\ m.pc # "notify" BY DEF Agrees, IdleRun
  <1>2. run' = [run EXCEPT ![r] = m] BY DEF Begin
  <1>3. TypeOK' BY BeginTypes DEF FeedInv
  <1> HIDE DEF m
  <1> QED BY <1>1, <1>2, <1>3, QuietStep DEF Begin

LEMMA FetchFeed == ASSUME FeedInv, NEW r \in Runs, Fetch(r) PROVE FeedInv'
  <1> DEFINE m == [run[r] EXCEPT !.pc = "compare", !.hash = page[run[r].src]]
  <1>1. run \in [Runs -> RunState] /\ Agrees(run[r]) BY DEF FeedInv, TypeOK
  <1>2. Agrees(m) /\ m.pc # "notify" BY <1>1 DEF Fetch, Agrees, RunState
  <1>3. run' = [run EXCEPT ![r] = m] BY <1>1 DEF Fetch, RunState
  <1>4. TypeOK' BY FetchTypes DEF FeedInv
  <1> HIDE DEF m
  <1> QED BY <1>2, <1>3, <1>4, QuietStep DEF Fetch

LEMMA CompareFeed == ASSUME FeedInv, NEW r \in Runs, Compare(r) PROVE FeedInv'
  <1> DEFINE s == run[r].src
             n == Len(revs[s])
             unchanged == revs[s] # <<>> /\ revs[s][n].hash = run[r].hash
             p == IF unchanged THEN "persist" ELSE "analyze"
             m == [run[r] EXCEPT !.pc = p, !.last = n]
  <1>1. run \in [Runs -> RunState] /\ Agrees(run[r]) /\ s \in Sources
    BY RunIsScrape DEF FeedInv, TypeOK, Compare, Scrape
  <1>2. run' = [run EXCEPT ![r].pc = p, ![r].last = n] BY DEF Compare
  <1>3. revs[s] \in Seq(Revision) /\ n \in Nat /\ (revs[s] = <<>> <=> n = 0)
    BY <1>1 DEF FeedInv, TypeOK
  <1> HIDE DEF n
  <1>4. m.pc # "notify" /\ m.src = s /\ m.last = n /\ m.hash = run[r].hash /\ ~m.changed
        /\ (m.pc = "persist" <=> unchanged) /\ m.pc \in {"persist", "analyze"}
    BY <1>1 DEF Compare, Agrees, RunState
  <1>5. Agrees(m) BY <1>3, <1>4 DEF Agrees, n
  <1>6. run' = [run EXCEPT ![r] = m] BY <1>1, <1>2 DEF RunState
  <1>7. TypeOK' BY CompareTypes DEF FeedInv
  <1> HIDE DEF m
  <1> QED BY <1>4, <1>5, <1>6, <1>7, QuietStep DEF Compare

LEMMA AnalyzeFeed == ASSUME FeedInv, NEW r \in Runs, Analyze(r) PROVE FeedInv'
  <1>1. PICK c \in BOOLEAN : run' = [run EXCEPT ![r].pc = "persist", ![r].changed = c]
    BY DEF Analyze
  <1> DEFINE m == [run[r] EXCEPT !.pc = "persist", !.changed = c]
  <1>2. run \in [Runs -> RunState] /\ Agrees(run[r]) BY DEF FeedInv, TypeOK
  <1>3. Agrees(m) /\ m.pc # "notify" BY <1>2 DEF Analyze, Agrees, RunState
  <1>4. run' = [run EXCEPT ![r] = m] BY <1>1, <1>2 DEF RunState
  <1>5. TypeOK' BY AnalyzeTypes DEF FeedInv
  <1> HIDE DEF m
  <1> QED BY <1>3, <1>4, <1>5, QuietStep DEF Analyze

LEMMA RaisesFeed == ASSUME FeedInv, NEW r \in Runs, Raises(r) PROVE FeedInv'
  <1> DEFINE m == [run[r] EXCEPT !.pc = "raised"]
  <1>1. TypeOK /\ run \in [Runs -> RunState] BY DEF FeedInv, TypeOK
  <1>2. run' = [run EXCEPT ![r] = m] /\ UNCHANGED <<page, revs, outbox, overlapped>>
    BY <1>1, RaisesStep
  <1>3. Agrees(m) /\ m.pc # "notify" BY <1>1 DEF Agrees, RunState
  <1>4. TypeOK' BY <1>1, RaisesTypes
  <1> HIDE DEF m
  <1> QED BY <1>2, <1>3, <1>4, QuietStep

LEMMA ForgetsFeed == ASSUME FeedInv, NEW r \in Runs, Forgets(r) PROVE FeedInv'
  <1>1. TypeOK' BY ForgetsTypes DEF FeedInv
  <1>2. run' = [run EXCEPT ![r] = IdleRun] /\ UNCHANGED <<revs, outbox>>
    BY DEF Forgets, Release, Crash
  <1> QED BY <1>1, <1>2, IdleAgrees, IdleIsScrape, QuietStep

\* The history after a commit.
LEMMA Appended ==
    ASSUME TypeOK, NEW r \in Runs, Persist(r)
    PROVE  LET s == run[r].src
               n == Len(revs[s])
           IN  /\ s \in Sources /\ n \in Nat /\ Len(revs'[s]) = n + 1
               /\ revs'[s][n + 1] = NewRevision(r)
               /\ \A i \in 1..n : revs'[s][i] = revs[s][i]
               /\ \A x \in Sources \ {s} : revs'[x] = revs[x]
  <1> DEFINE s == run[r].src
             n == Len(revs[s])
  <1>1. s \in Sources /\ NewRevision(r) \in Revision BY PersistStep, NewRevisionType
  <1>0. revs \in [Sources -> Seq(Revision)] BY DEF TypeOK
  <1>2. revs[s] \in Seq(Revision) BY <1>0, <1>1
  <1>5. revs' = [revs EXCEPT ![s] = Append(@, NewRevision(r))] BY PersistStep
  <1>3. revs'[s] = Append(revs[s], NewRevision(r)) BY <1>0, <1>1, <1>5
  <1>4. \A x \in Sources \ {s} : revs'[x] = revs[x] BY <1>0, <1>5
  <1> QED BY <1>1, <1>2, <1>3, <1>4

\* What a scrape commits is a real diff, if it is one.
LEMMA CommitsRealDiff ==
    ASSUME FeedInv, NEW r \in Runs, Persist(r)
    PROVE  /\ run[r].last \in 0..Len(revs[run[r].src])
           /\ NewRevision(r).prev = run[r].last
           /\ HasDiff(NewRevision(r)) =>
                 /\ run[r].last # 0
                 /\ revs[run[r].src][run[r].last].hash # NewRevision(r).hash
  <1>1. run[r].pc = "persist" /\ Agrees(run[r]) BY DEF Persist, FeedInv
  <1> QED BY <1>1 DEF Agrees, NewRevision, HasDiff

LEMMA PersistFeed == ASSUME FeedInv, NEW r \in Runs, Persist(r) PROVE FeedInv'
  <1>1. TypeOK /\ TypeOK' BY PersistTypes DEF FeedInv
  <1> PICK s : s = run[r].src OBVIOUS
  <1> PICK n : n = Len(revs[s]) OBVIOUS
  <1> PICK v : v = NewRevision(r) OBVIOUS
  <1>2. /\ s \in Sources /\ n \in Nat /\ Len(revs'[s]) = n + 1
        /\ revs'[s][n + 1] = v
        /\ \A i \in 1..n : revs'[s][i] = revs[s][i]
        /\ \A x \in Sources \ {s} : revs'[x] = revs[x]
    BY <1>1, Appended
  <1>3. /\ run[r].last \in 0..n /\ v.prev = run[r].last
        /\ HasDiff(v) => run[r].last # 0 /\ revs[s][run[r].last].hash # v.hash
    BY CommitsRealDiff
  <1>4. /\ run'[r].src = s /\ run'[r].rev = n + 1
        /\ run'[r].pc = IF HasDiff(v) THEN "notify" ELSE "ticket"
        /\ \A q \in Runs \ {r} : run'[q] = run[q]
        /\ UNCHANGED outbox
    <2>1. /\ run' = [run EXCEPT ![r].pc = IF HasDiff(v) THEN "notify" ELSE "ticket",
                               ![r].rev = n + 1]
          /\ UNCHANGED outbox
      BY <1>1, PersistStep
    <2> QED BY <1>1, <2>1 DEF TypeOK, RunState
  <1>5. \A x \in Sources : Len(revs[x]) \in Nat /\ Len(revs[x]) <= Len(revs'[x])
                          /\ \A i \in 1..Len(revs[x]) : revs'[x][i] = revs[x][i]
    <2> SUFFICES ASSUME NEW x \in Sources
                 PROVE  /\ Len(revs[x]) \in Nat /\ Len(revs[x]) <= Len(revs'[x])
                        /\ \A i \in 1..Len(revs[x]) : revs'[x][i] = revs[x][i]
      OBVIOUS
    <2>1. Len(revs[x]) \in Nat BY <1>1 DEF TypeOK
    <2>2. CASE x = s BY <1>2, <2>1, <2>2
    <2>3. CASE x # s BY <1>2, <2>1, <2>3
    <2> QED BY <2>2, <2>3
  <1>6. DiffsAreReal'
    <2> SUFFICES ASSUME NEW x \in Sources, NEW i \in 1..Len(revs'[x])
                 PROVE  /\ revs'[x][i].prev < i
                        /\ HasDiff(revs'[x][i]) =>
                              revs'[x][revs'[x][i].prev].hash # revs'[x][i].hash
      BY DEF DiffsAreReal
    <2>1. CASE i \in 1..Len(revs[x])
      <3>0. revs[x] \in Seq(Revision) /\ revs[x][i] \in Revision BY <1>1, <2>1 DEF TypeOK
      <3>1. /\ revs[x][i].prev < i /\ revs[x][i].prev \in Nat
            /\ HasDiff(revs[x][i]) => revs[x][revs[x][i].prev].hash # revs[x][i].hash
        BY <2>1, <3>0 DEF FeedInv, DiffsAreReal, Revision
      <3>2. revs'[x][i] = revs[x][i] BY <1>5, <2>1
      <3>3. HasDiff(revs[x][i]) => revs[x][i].prev \in 1..Len(revs[x])
        BY <1>5, <2>1, <3>1 DEF HasDiff
      <3>4. HasDiff(revs[x][i]) => revs'[x][revs[x][i].prev] = revs[x][revs[x][i].prev]
        BY <1>5, <3>3
      <3> QED BY <3>1, <3>2, <3>4
    <2>2. CASE i \notin 1..Len(revs[x])
      <3>1. x = s /\ i = n + 1 BY <1>2, <2>2
      <3>2. revs'[x][i] = v BY <1>2, <3>1
      <3>3. v.prev < i BY <1>2, <1>3, <3>1
      <3>4. ASSUME HasDiff(v) PROVE revs'[x][v.prev].hash # v.hash
        <4>1. v.prev \in 1..n BY <1>2, <1>3, <3>4
        <4>2. revs'[x][v.prev] = revs[s][v.prev] BY <1>2, <3>1, <4>1
        <4> QED BY <1>3, <3>4, <4>2
      <3> QED BY <3>2, <3>3, <3>4
    <2> QED BY <2>1, <2>2
  <1>7. AnnouncedOnce'
    <2> SUFFICES ASSUME NEW x \in Sources PROVE
            /\ \A k \in 1..Len(outbox[x]) :
                  outbox[x][k] \in 1..Len(revs'[x]) /\ HasDiff(revs'[x][outbox[x][k]])
            /\ \A k, l \in 1..Len(outbox[x]) : outbox[x][k] = outbox[x][l] => k = l
      BY <1>4 DEF AnnouncedOnce
    <2>1. /\ \A k \in 1..Len(outbox[x]) :
                outbox[x][k] \in 1..Len(revs[x]) /\ HasDiff(revs[x][outbox[x][k]])
          /\ \A k, l \in 1..Len(outbox[x]) : outbox[x][k] = outbox[x][l] => k = l
      BY DEF FeedInv, AnnouncedOnce
    <2>2. /\ Len(revs[x]) \in Nat /\ Len(revs[x]) <= Len(revs'[x])
          /\ \A i \in 1..Len(revs[x]) : revs'[x][i] = revs[x][i]
      BY <1>5
    <2>3. Len(revs'[x]) \in Nat BY <1>1 DEF TypeOK
    <2>4. \A i \in 1..Len(revs[x]) : i \in 1..Len(revs'[x]) BY <2>2, <2>3
    <2> QED BY <2>1, <2>2, <2>4
  <1>8. \A q \in Runs \ {r} : run[q].pc = "notify" =>
            /\ run[q].src \in Sources
            /\ run[q].rev \in 1..Len(revs[run[q].src])
    BY <1>1, RunIsScrape DEF FeedInv, Agrees, Pending, Scrape
  <1>9. (\A q \in Runs : Agrees(run[q]))'
    <2> SUFFICES ASSUME NEW q \in Runs PROVE Agrees(run[q])'
      OBVIOUS
    <2>1. CASE q = r
      <3>1. HasDiff(v) => Pending(s, n + 1)'
        <4>1. \A k \in 1..Len(outbox[s]) : outbox[s][k] \in 1..n
          BY <1>2 DEF FeedInv, AnnouncedOnce
        <4>2. \A k \in 1..Len(outbox[s]) : outbox[s][k] # n + 1
          <5>1. n \in Nat BY <1>2
          <5> QED BY <4>1, <5>1
        <4>3. /\ n + 1 \in 1..Len(revs'[s]) /\ revs'[s][n + 1] = v /\ UNCHANGED outbox
          BY <1>2, <1>4
        <4> QED BY <4>2, <4>3 DEF Pending
      <3> QED BY <1>4, <2>1, <3>1 DEF Agrees
    <2>2. CASE q # r
      <3>1. run'[q] = run[q] /\ Agrees(run[q]) BY <1>4, <2>2 DEF FeedInv
      <3>2. run[q].pc # "idle" => run[q].src \in Sources BY <1>1 DEF TypeOK
      <3>3. CASE run[q].pc = "idle" BY <3>1, <3>3 DEF Agrees
      <3>4. CASE run[q].pc # "idle"
        <4> DEFINE x == run[q].src
        <4>1. /\ Len(revs[x]) \in Nat /\ Len(revs[x]) <= Len(revs'[x])
              /\ \A i \in 1..Len(revs[x]) : revs'[x][i] = revs[x][i]
          BY <1>5, <3>2, <3>4
        <4>2. Len(revs'[x]) \in Nat BY <1>1, <3>2, <3>4 DEF TypeOK
        <4>3. Pending(x, run[q].rev) => Pending(x, run[q].rev)'
          BY <1>4, <3>1, <4>1, <4>2 DEF Pending
        <4>4. run[q].last \in 0..Len(revs[x]) => run[q].last \in 0..Len(revs'[x])
          BY <4>1, <4>2
        <4>5. run[q].last \in 0..Len(revs[x]) /\ run[q].last # 0 =>
                 revs'[x][run[q].last] = revs[x][run[q].last]
          BY <4>1
        <4> QED BY <3>1, <4>3, <4>4, <4>5 DEF Agrees
      <3> QED BY <3>3, <3>4
    <2> QED BY <2>1, <2>2
  <1>10. OneAnnouncer'
    <2>1. \A q \in Runs \ {r} : run[q].pc = "notify" /\ run[q].src = s => run[q].rev # n + 1
      BY <1>2, <1>8
    <2> QED BY <1>4, <2>1 DEF FeedInv, OneAnnouncer
  <1> QED BY <1>1, <1>6, <1>7, <1>9, <1>10 DEF FeedInv

\* The queue after an announcement.
LEMMA Queued ==
    ASSUME FeedInv, NEW r \in Runs, Notify(r)
    PROVE  LET s == run[r].src
               n == Len(outbox[s])
           IN  /\ s \in Sources /\ n \in Nat /\ Len(outbox'[s]) = n + 1
               /\ Pending(s, run[r].rev)
               /\ outbox'[s][n + 1] = run[r].rev
               /\ \A k \in 1..n : outbox'[s][k] = outbox[s][k]
               /\ \A x \in Sources \ {s} : outbox'[x] = outbox[x]
               /\ run'[r].pc = "ticket"
               /\ \A q \in Runs \ {r} : run'[q] = run[q]
               /\ UNCHANGED revs
  <1> DEFINE s == run[r].src
             n == Len(outbox[s])
  <1>1. TypeOK /\ run[r].pc = "notify" /\ Agrees(run[r]) BY DEF FeedInv, Notify
  <1>2. s \in Sources /\ run[r].rev \in Nat BY <1>1, RunIsScrape DEF Scrape, RunState
  <1>3. outbox[s] \in Seq(Nat) BY <1>1, <1>2 DEF TypeOK
  <1>4. outbox'[s] = Append(outbox[s], run[r].rev) BY <1>1, <1>2 DEF Notify, TypeOK
  <1>5. \A x \in Sources \ {s} : outbox'[x] = outbox[x] BY <1>1, <1>2 DEF Notify, TypeOK
  <1>6. run'[r].pc = "ticket" /\ (\A q \in Runs \ {r} : run'[q] = run[q]) /\ UNCHANGED revs
    BY <1>1 DEF Notify, TypeOK, RunState
  <1>7. Pending(s, run[r].rev) BY <1>1 DEF Agrees
  <1>8. /\ n \in Nat /\ Len(outbox'[s]) = n + 1 /\ outbox'[s][n + 1] = run[r].rev
        /\ \A k \in 1..n : outbox'[s][k] = outbox[s][k]
    BY <1>2, <1>3, <1>4
  <1> QED BY <1>2, <1>5, <1>6, <1>7, <1>8

LEMMA NotifyFeed == ASSUME FeedInv, NEW r \in Runs, Notify(r) PROVE FeedInv'
  <1> PICK s : s = run[r].src OBVIOUS
  <1> PICK n : n = Len(outbox[s]) OBVIOUS
  <1>1. TypeOK /\ TypeOK' BY NotifyTypes DEF FeedInv
  <1>2. /\ s \in Sources /\ n \in Nat /\ Len(outbox'[s]) = n + 1
        /\ Pending(s, run[r].rev)
        /\ outbox'[s][n + 1] = run[r].rev
        /\ \A k \in 1..n : outbox'[s][k] = outbox[s][k]
        /\ \A x \in Sources \ {s} : outbox'[x] = outbox[x]
        /\ run'[r].pc = "ticket"
        /\ \A q \in Runs \ {r} : run'[q] = run[q]
        /\ UNCHANGED revs
    BY Queued
  <1>3. DiffsAreReal' BY <1>2 DEF FeedInv, DiffsAreReal
  <1>4. AnnouncedOnce'
    <2> SUFFICES ASSUME NEW x \in Sources PROVE
            /\ \A k \in 1..Len(outbox'[x]) :
                  outbox'[x][k] \in 1..Len(revs[x]) /\ HasDiff(revs[x][outbox'[x][k]])
            /\ \A k, l \in 1..Len(outbox'[x]) : outbox'[x][k] = outbox'[x][l] => k = l
      BY <1>2 DEF AnnouncedOnce
    <2>1. CASE x # s BY <1>2, <2>1 DEF FeedInv, AnnouncedOnce
    <2>2. CASE x = s
      <3>1. \A k \in 1..Len(outbox'[s]) : k \in 1..n \/ k = n + 1 BY <1>2
      <3>2. /\ \A k \in 1..n : outbox[s][k] \in 1..Len(revs[s]) /\ HasDiff(revs[s][outbox[s][k]])
            /\ \A k, l \in 1..n : outbox[s][k] = outbox[s][l] => k = l
        <4>1. s \in Sources BY <1>2
        <4> QED BY <4>1 DEF FeedInv, AnnouncedOnce
      <3>3. /\ run[r].rev \in 1..Len(revs[s]) /\ HasDiff(revs[s][run[r].rev])
            /\ \A k \in 1..n : outbox[s][k] # run[r].rev
        BY <1>2 DEF Pending
      <3>4. ASSUME NEW k \in 1..Len(outbox'[s])
            PROVE  outbox'[s][k] \in 1..Len(revs[s]) /\ HasDiff(revs[s][outbox'[s][k]])
        <4>1. CASE k \in 1..n
          <5>1. outbox'[s][k] = outbox[s][k] BY <1>2, <4>1
          <5> QED BY <3>2, <4>1, <5>1
        <4>2. CASE k = n + 1
          <5>1. outbox'[s][k] = run[r].rev BY <1>2, <4>2
          <5> QED BY <3>3, <5>1
        <4> QED BY <3>1, <4>1, <4>2
      <3>5. ASSUME NEW k \in 1..Len(outbox'[s]), NEW l \in 1..Len(outbox'[s]),
                   outbox'[s][k] = outbox'[s][l]
            PROVE  k = l
        <4>1. CASE k \in 1..n /\ l \in 1..n BY <1>2, <3>2, <3>5, <4>1
        <4>2. CASE k \in 1..n /\ l = n + 1 BY <1>2, <3>3, <3>5, <4>2
        <4>3. CASE k = n + 1 /\ l \in 1..n BY <1>2, <3>3, <3>5, <4>3
        <4> QED BY <3>1, <4>1, <4>2, <4>3
      <3> QED BY <2>2, <3>4, <3>5
    <2> QED BY <2>1, <2>2
  <1>5. OneAnnouncer' BY <1>2 DEF FeedInv, OneAnnouncer
  <1>6. (\A q \in Runs : Agrees(run[q]))'
    <2> SUFFICES ASSUME NEW q \in Runs PROVE Agrees(run[q])'
      OBVIOUS
    <2>1. CASE q = r BY <1>2, <2>1 DEF Agrees
    <2>2. CASE q # r
      <3>1. run'[q] = run[q] /\ Agrees(run[q]) BY <1>2, <2>2 DEF FeedInv
      <3>2. run[q].pc = "notify" => run[q].src \in Sources BY <1>1 DEF TypeOK
      <3>3. run[q].pc = "notify" /\ run[q].src = s => run[q].rev # run[r].rev
        BY <2>2 DEF FeedInv, OneAnnouncer, Notify
      <3>4. run[q].pc = "notify" => Pending(run[q].src, run[q].rev)'
        <4> SUFFICES ASSUME run[q].pc = "notify" PROVE Pending(run[q].src, run[q].rev)'
          OBVIOUS
        <4>1. Pending(run[q].src, run[q].rev) BY <3>1 DEF Agrees
        <4>2. CASE run[q].src # s
          <5>1. /\ run'[q] = run[q] /\ UNCHANGED revs
                /\ outbox'[run[q].src] = outbox[run[q].src]
            BY <1>2, <3>1, <3>2, <4>2
          <5> QED BY <4>1, <5>1 DEF Pending
        <4>3. CASE run[q].src = s
          <5>1. \A k \in 1..Len(outbox'[s]) : k \in 1..n \/ k = n + 1 BY <1>2
          <5>2. \A k \in 1..Len(outbox'[s]) : outbox'[s][k] # run[q].rev
            BY <1>2, <3>3, <4>1, <4>3, <5>1 DEF Pending
          <5>3. run'[q] = run[q] /\ UNCHANGED revs BY <1>2, <3>1
          <5> QED BY <4>1, <4>3, <5>2, <5>3 DEF Pending
        <4> QED BY <4>2, <4>3
      <3> QED BY <1>2, <3>1, <3>4 DEF Agrees
    <2> QED BY <2>1, <2>2
  <1> QED BY <1>1, <1>3, <1>4, <1>5, <1>6 DEF FeedInv

LEMMA PageChangesFeed == ASSUME FeedInv, NEW s \in Sources, PageChanges(s) PROVE FeedInv'
  <1>1. TypeOK' BY PageChangesTypes DEF FeedInv
  <1>2. UNCHANGED <<revs, outbox, run>> BY DEF PageChanges
  <1> QED
    BY <1>1, <1>2 DEF FeedInv, DiffsAreReal, AnnouncedOnce, Agrees, Pending, OneAnnouncer

LEMMA StepFeed == FeedInv /\ [Next]_vars => FeedInv'
  <1> SUFFICES ASSUME FeedInv, [Next]_vars PROVE FeedInv'
    OBVIOUS
  <1>1. CASE UNCHANGED vars
    <2>1. TypeOK' BY <1>1, StepTypeOK DEF FeedInv
    <2> QED
      BY <1>1, <2>1
      DEF vars, FeedInv, DiffsAreReal, AnnouncedOnce, Agrees, Pending, OneAnnouncer
  <1>2. CASE Next
    BY <1>2, Steps, PageChangesFeed, BeginFeed, FetchFeed, CompareFeed, AnalyzeFeed,
       PersistFeed, NotifyFeed, RaisesFeed, ForgetsFeed
  <1> QED BY <1>1, <1>2

\* A diff relates two committed revisions of a source whose pages differ, the older
\* first, however many scrapes of it run at once (scraper_service.py:124-205).
THEOREM RealDiffs == Spec => []DiffsAreReal
  <1>1. FeedInv => DiffsAreReal BY DEF FeedInv
  <1> QED BY <1>1, InitFeed, StepFeed, PTL DEF Spec

\* Notifications are queued at most once for a revision, and only for a diff
\* (scraper_service.py:207-213).
THEOREM Announcements == Spec => []AnnouncedOnce
  <1>1. FeedInv => AnnouncedOnce BY DEF FeedInv
  <1> QED BY <1>1, InitFeed, StepFeed, PTL DEF Spec

-----------------------------------------------------------------------------
(* The pipeline implements the feed of changes.                            *)

LEMMA PersistRecords ==
    ASSUME FeedInv, NEW r \in Runs, Persist(r)
    PROVE  Feed!Record(run[r].src)
  <1> DEFINE s == run[r].src
             v == NewRevision(r)
  <1>1. TypeOK /\ s \in Sources /\ v \in Revision
    BY PersistStep, NewRevisionType DEF FeedInv
  <1>2. v = [hash |-> v.hash, prev |-> v.prev, changed |-> v.changed]
        /\ v.hash \in Hashes /\ v.changed \in BOOLEAN
    BY <1>1 DEF NewRevision, Revision
  <1>3. v.prev \in 0..Len(revs[s]) /\ (HasDiff(v) => revs[s][v.prev].hash # v.hash)
    BY CommitsRealDiff
  <1>4. revs' = [revs EXCEPT ![s] = Append(@, v)] /\ UNCHANGED outbox BY <1>1, PersistStep
  <1>5. Feed!HasDiff(v) <=> HasDiff(v) BY DEF HasDiff, Feed!HasDiff
  <1> HIDE DEF s, v
  <1>6. Feed!Record(s)
    BY <1>2, <1>3, <1>4, <1>5 DEF Feed!Record
  <1> QED BY <1>6 DEF s

LEMMA NotifyAnnounces ==
    ASSUME FeedInv, NEW r \in Runs, Notify(r)
    PROVE  run[r].src \in Sources /\ Feed!Announce(run[r].src)
  <1>1. /\ run[r].src \in Sources /\ Pending(run[r].src, run[r].rev)
        /\ outbox' = [outbox EXCEPT ![run[r].src] = Append(@, run[r].rev)]
        /\ UNCHANGED revs
    BY Queued DEF Notify
  <1> QED BY <1>1 DEF Feed!Announce, Pending, HasDiff, Feed!HasDiff

LEMMA StepImplements == FeedInv /\ [Next]_vars => [Feed!Next]_Feed!feed
  <1> SUFFICES ASSUME FeedInv, Next PROVE Feed!Next \/ UNCHANGED <<revs, outbox>>
    BY DEF vars, Feed!feed
  <1>1. ASSUME NEW r \in Runs, Persist(r) PROVE Feed!Next
    BY <1>1, PersistRecords, PersistStep DEF FeedInv, Feed!Next
  <1>2. ASSUME NEW r \in Runs, Notify(r) PROVE Feed!Next
    BY <1>2, NotifyAnnounces DEF Feed!Next
  <1>3. ASSUME NEW r \in Runs,
               Fetch(r) \/ Compare(r) \/ Analyze(r) \/ Raises(r) \/ Forgets(r)
        PROVE  UNCHANGED <<revs, outbox>>
    BY <1>3 DEF Fetch, Compare, Analyze, Raises, FailBeforePersist, PersistFails, NotifyFails,
       CreateTicket, Forgets, Release, Crash
  <1>4. ASSUME NEW s \in Sources, PageChanges(s) \/ \E r \in Runs : Begin(r, s)
        PROVE  UNCHANGED <<revs, outbox>>
    BY <1>4 DEF PageChanges, Begin
  <1> QED BY <1>1, <1>2, <1>3, <1>4, Steps

\* Scrapes that overlap, fail, retry and crash amount to the feed of changes: nothing
\* committed is rewritten, each diff is real and announced once at most.
THEOREM Implements == Spec => ImplementsFeed
  <1>1. Init => Feed!Init BY DEF Init, Feed!Init
  <1> QED BY <1>1, InitFeed, StepFeed, StepImplements, PTL DEF Spec, ImplementsFeed, Feed!Spec

-----------------------------------------------------------------------------
(* No diff is forgotten while nothing fails.                               *)

\* The diff is announced, or a scrape is about to announce it.
Handled(s, i) ==
    \/ i \in Announced(s)
    \/ \E r \in Runs : run[r].pc = "notify" /\ run[r].src = s /\ run[r].rev = i

LEMMA ForgottenStep ==
    ASSUME FeedInv, NoDiffForgotten, Next, faults' = 0
    PROVE  NoDiffForgotten'
  <1>1. TypeOK /\ faults \in Nat BY PipelineAssumption DEF FeedInv, TypeOK
  <1>2. \A s \in Sources : \A i \in 1..Len(revs[s]) : faults = 0 /\ HasDiff(revs[s][i]) => Handled(s, i)
    BY DEF NoDiffForgotten, Handled
  <1> SUFFICES ASSUME NEW s \in Sources, NEW i \in 1..Len(revs'[s]), HasDiff(revs'[s][i])
               PROVE  Handled(s, i)'
    BY DEF NoDiffForgotten, Handled
  <1>3. ASSUME UNCHANGED <<revs, outbox>>, faults = 0,
               \A r \in Runs : run[r].pc = "notify" => run'[r] = run[r]
        PROVE  Handled(s, i)'
    BY <1>2, <1>3 DEF Handled, Announced
  <1>4. CASE \E x \in Sources : PageChanges(x)
    BY <1>3, <1>4 DEF PageChanges
  <1>5. ASSUME NEW r \in Runs,
               \/ \E x \in Sources : Begin(r, x)
               \/ Fetch(r) \/ Compare(r) \/ Analyze(r)
        PROVE  Handled(s, i)'
    <2>1. run[r].pc # "notify" /\ UNCHANGED <<revs, outbox, faults>>
      BY <1>5 DEF Begin, Fetch, Compare, Analyze
    <2>2. \A q \in Runs \ {r} : run'[q] = run[q]
      BY <1>1, <1>5 DEF Begin, Fetch, Compare, Analyze, TypeOK
    <2> QED BY <1>3, <2>1, <2>2
  <1>6. ASSUME NEW r \in Runs, Raises(r) PROVE Handled(s, i)'
    <2>1. /\ run[r].pc # "notify" /\ UNCHANGED <<revs, outbox, faults>>
          /\ \A q \in Runs \ {r} : run'[q] = run[q]
      BY <1>1, <1>6 DEF Raises, FailBeforePersist, PersistFails, NotifyFails, CreateTicket, TypeOK
    <2> QED BY <1>3, <2>1
  <1>7. ASSUME NEW r \in Runs, Forgets(r) PROVE Handled(s, i)'
    <2>1. /\ run[r].pc # "notify" /\ UNCHANGED <<revs, outbox, faults>>
          /\ \A q \in Runs \ {r} : run'[q] = run[q]
      BY <1>1, <1>7 DEF Forgets, Release, Crash, TypeOK
    <2> QED BY <1>3, <2>1
  <1>8. ASSUME NEW r \in Runs, Persist(r) PROVE Handled(s, i)'
    <2> PICK x : x = run[r].src OBVIOUS
    <2> PICK n : n = Len(revs[x]) OBVIOUS
    <2> PICK v : v = NewRevision(r) OBVIOUS
    <2>1. /\ x \in Sources /\ n \in Nat /\ Len(revs'[x]) = n + 1
          /\ revs'[x][n + 1] = v
          /\ \A j \in 1..n : revs'[x][j] = revs[x][j]
          /\ \A y \in Sources \ {x} : revs'[y] = revs[y]
      BY <1>1, <1>8, Appended
    <2>2. /\ run' = [run EXCEPT ![r].pc = IF HasDiff(v) THEN "notify" ELSE "ticket",
                               ![r].rev = n + 1]
          /\ run[r].pc = "persist" /\ UNCHANGED <<outbox, faults>>
      BY <1>1, <1>8, PersistStep
    <2>3. /\ run'[r].src = x /\ run'[r].rev = n + 1
          /\ HasDiff(v) => run'[r].pc = "notify"
          /\ \A q \in Runs \ {r} : run'[q] = run[q]
      BY <1>1, <2>2 DEF TypeOK, RunState
    <2>4. CASE s = x /\ i = n + 1
      BY <2>1, <2>3, <2>4 DEF Handled
    <2>5. CASE ~(s = x /\ i = n + 1)
      <3>1. i \in 1..Len(revs[s]) /\ revs'[s][i] = revs[s][i] BY <2>1, <2>5
      <3>2. Handled(s, i) BY <1>2, <2>2, <3>1
      <3> QED BY <2>2, <2>3, <3>2 DEF Handled, Announced
    <2> QED BY <2>4, <2>5
  <1>9. ASSUME NEW r \in Runs, Notify(r) PROVE Handled(s, i)'
    <2> PICK x : x = run[r].src OBVIOUS
    <2> PICK n : n = Len(outbox[x]) OBVIOUS
    <2>1. /\ x \in Sources /\ n \in Nat /\ Len(outbox'[x]) = n + 1
          /\ outbox'[x][n + 1] = run[r].rev
          /\ \A k \in 1..n : outbox'[x][k] = outbox[x][k]
          /\ \A y \in Sources \ {x} : outbox'[y] = outbox[y]
          /\ \A q \in Runs \ {r} : run'[q] = run[q]
          /\ UNCHANGED revs
      BY <1>9, Queued
    <2>2. UNCHANGED faults BY <1>9 DEF Notify
    <2>3. Handled(s, i) BY <1>2, <2>1, <2>2
    <2>4. \A y \in Sources : Announced(y) \subseteq Announced(y)'
      <3> SUFFICES ASSUME NEW y \in Sources PROVE Announced(y) \subseteq Announced(y)'
        OBVIOUS
      <3>1. CASE y = x BY <2>1, <3>1 DEF Announced
      <3>2. CASE y # x BY <2>1, <3>2 DEF Announced
      <3> QED BY <3>1, <3>2
    <2>5. run[r].rev \in Announced(x)'
      <3>1. n + 1 \in 1..Len(outbox'[x]) BY <2>1
      <3> QED BY <2>1, <3>1 DEF Announced
    <2> QED BY <2>1, <2>3, <2>4, <2>5 DEF Handled
  <1> QED BY <1>4, <1>5, <1>6, <1>7, <1>8, <1>9, Steps

\* As long as nothing crashes and the broker takes every task, each diff is announced
\* or about to be (scraper_service.py:205-210).
THEOREM Remembered == Spec => []NoDiffForgotten
  <1>1. Init => NoDiffForgotten
    <2> SUFFICES ASSUME Init, NEW s \in Sources, NEW i \in 1..Len(revs[s]) PROVE FALSE
      BY DEF NoDiffForgotten
    <2> QED BY DEF Init
  <1>2. FeedInv /\ NoDiffForgotten /\ [Next]_vars => NoDiffForgotten'
    <2> SUFFICES ASSUME FeedInv, NoDiffForgotten, [Next]_vars PROVE NoDiffForgotten'
      OBVIOUS
    <2>1. CASE UNCHANGED vars
      BY <2>1 DEF vars, NoDiffForgotten, Announced
    <2>2. CASE Next /\ faults' = 0
      BY <2>2, ForgottenStep
    <2>3. CASE faults' # 0
      BY <2>3 DEF NoDiffForgotten
    <2> QED BY <2>1, <2>2, <2>3
  <1> QED BY <1>1, <1>2, InitFeed, StepFeed, PTL DEF Spec

-----------------------------------------------------------------------------
(* A history without overlaps is a chain.                                  *)

\* While no two scrapes of a source overlapped: its history is a chain, one scrape at
\* most has yet to commit, and what that one compared with is still the latest.
Chained(s) ==
    /\ \A i \in 1..Len(revs[s]) : revs[s][i].prev = i - 1
    /\ \A r, q \in Uncommitted(s) : r = q
    /\ \A r \in Uncommitted(s) :
          run[r].pc \in {"analyze", "persist"} => run[r].last = Len(revs[s])

ChainInv == TypeOK /\ \A s \in Sources \ overlapped : Chained(s)

LEMMA InitChain == Init => ChainInv
  <1> SUFFICES ASSUME Init, NEW s \in Sources PROVE Chained(s)
    BY InitTypeOK DEF ChainInv
  <1>1. Uncommitted(s) = {} BY IdleIsScrape DEF Init, Uncommitted
  <1> QED BY <1>1 DEF Init, Chained

\* A step of scrape r that commits nothing, and leaves what r compared with, if r has
\* compared and not yet committed, as the latest revision.
LEMMA ChainStep ==
    ASSUME ChainInv, TypeOK', NEW r \in Runs, UNCHANGED <<revs, overlapped>>,
           \A q \in Runs \ {r} : run'[q] = run[q],
           \A s \in Sources : r \in Uncommitted(s)' => r \in Uncommitted(s),
           \A s \in Sources \ overlapped :
              r \in Uncommitted(s)' /\ run'[r].pc \in {"analyze", "persist"} =>
                 run'[r].last = Len(revs[s])
    PROVE  ChainInv'
  <1> SUFFICES ASSUME NEW s \in Sources \ overlapped PROVE Chained(s)'
    BY DEF ChainInv
  <1>1. Uncommitted(s)' \subseteq Uncommitted(s) BY DEF Uncommitted
  <1>2. \A q \in Uncommitted(s)' : q \in Runs BY DEF Uncommitted
  <1> QED BY <1>1, <1>2 DEF ChainInv, Chained

LEMMA StepChain == ChainInv /\ [Next]_vars => ChainInv'
  <1> SUFFICES ASSUME ChainInv, [Next]_vars PROVE ChainInv'
    OBVIOUS
  <1>1. TypeOK /\ TypeOK' BY StepTypeOK DEF ChainInv
  <1>2. CASE UNCHANGED <<revs, run, overlapped>>
    BY <1>1, <1>2 DEF ChainInv, Chained, Uncommitted
  <1>3. ASSUME NEW r \in Runs, NEW x \in Sources, Begin(r, x) PROVE ChainInv'
    <2>1. /\ run[r].pc = "idle" /\ run'[r].pc = "fetch" /\ run'[r].src = x
          /\ \A q \in Runs \ {r} : run'[q] = run[q]
      BY <1>1, <1>3 DEF Begin, TypeOK, IdleRun
    <2>2. /\ UNCHANGED revs /\ overlapped \subseteq overlapped'
          /\ x \notin overlapped' => Uncommitted(x) = {}
      BY <1>3 DEF Begin
    <2> SUFFICES ASSUME NEW s \in Sources \ overlapped' PROVE Chained(s)'
      BY <1>1 DEF ChainInv
    <2>3. Chained(s) BY <2>2 DEF ChainInv
    <2>4. CASE s = x
      <3>1. Uncommitted(s)' = {r} BY <2>1, <2>2, <2>4 DEF Uncommitted
      <3> QED BY <2>1, <2>2, <2>3, <3>1 DEF Chained
    <2>5. CASE s # x
      <3>1. Uncommitted(s)' = Uncommitted(s) /\ r \notin Uncommitted(s)
        BY <2>1, <2>5 DEF Uncommitted
      <3>2. \A q \in Uncommitted(s) : run'[q] = run[q] BY <2>1, <3>1 DEF Uncommitted
      <3> QED BY <2>2, <2>3, <3>1, <3>2 DEF Chained
    <2> QED BY <2>4, <2>5
  <1>4. ASSUME NEW r \in Runs, Fetch(r) \/ Compare(r) \/ Analyze(r) PROVE ChainInv'
    <2>1. /\ UNCHANGED <<revs, overlapped>> /\ \A q \in Runs \ {r} : run'[q] = run[q]
          /\ run[r].pc \in {"fetch", "compare", "analyze"} /\ run'[r].src = run[r].src
      BY <1>1, <1>4 DEF Fetch, Compare, Analyze, TypeOK, RunState
    <2>2. \A s \in Sources : r \in Uncommitted(s)' => r \in Uncommitted(s)
      BY <2>1 DEF Uncommitted
    <2>3. ASSUME NEW s \in Sources \ overlapped, r \in Uncommitted(s)',
                 run'[r].pc \in {"analyze", "persist"}
          PROVE  run'[r].last = Len(revs[s])
      <3>1. run[r].src = s /\ r \in Uncommitted(s) BY <2>1, <2>3 DEF Uncommitted
      <3>2. CASE Fetch(r) BY <1>1, <2>3, <3>2 DEF Fetch, TypeOK, RunState
      <3>3. CASE Compare(r) BY <1>1, <3>1, <3>3 DEF Compare, TypeOK, RunState
      <3>4. CASE Analyze(r)
        <4>1. run[r].last = Len(revs[s]) BY <3>1, <3>4 DEF ChainInv, Chained, Analyze
        <4>2. run'[r].last = run[r].last BY <1>1, <3>4 DEF Analyze, TypeOK, RunState
        <4> QED BY <4>1, <4>2
      <3> QED BY <1>4, <3>2, <3>3, <3>4
    <2> QED BY <1>1, <2>1, <2>2, <2>3, ChainStep
  <1>5. ASSUME NEW r \in Runs, Notify(r) \/ Raises(r) \/ Forgets(r) PROVE ChainInv'
    <2>1. /\ UNCHANGED <<revs, overlapped>> /\ \A q \in Runs \ {r} : run'[q] = run[q]
          /\ run'[r].pc \in {"ticket", "raised", "idle"}
      BY <1>1, <1>5, IdleIsScrape
      DEF Notify, Raises, FailBeforePersist, PersistFails, NotifyFails, CreateTicket, Forgets,
          Release, Crash, TypeOK, RunState
    <2>2. \A s \in Sources : r \notin Uncommitted(s)' BY <2>1 DEF Uncommitted
    <2> QED BY <1>1, <2>1, <2>2, ChainStep
  <1>6. ASSUME NEW r \in Runs, Persist(r) PROVE ChainInv'
    <2> PICK x : x = run[r].src OBVIOUS
    <2> PICK n : n = Len(revs[x]) OBVIOUS
    <2>1. /\ x \in Sources /\ n \in Nat /\ Len(revs'[x]) = n + 1
          /\ revs'[x][n + 1] = NewRevision(r)
          /\ \A i \in 1..n : revs'[x][i] = revs[x][i]
          /\ \A y \in Sources \ {x} : revs'[y] = revs[y]
      BY <1>1, <1>6, Appended
    <2>2. /\ run[r].pc = "persist" /\ run'[r].pc \in {"notify", "ticket"}
          /\ \A q \in Runs \ {r} : run'[q] = run[q]
          /\ UNCHANGED overlapped
      <3>1. PICK p \in {"notify", "ticket"} :
                run' = [run EXCEPT ![r].pc = p, ![r].rev = Len(revs[run[r].src]) + 1]
        BY <1>1, <1>6, PersistStep
      <3>2. run[r].pc = "persist" /\ UNCHANGED overlapped BY <1>1, <1>6, PersistStep
      <3> QED BY <1>1, <3>1, <3>2 DEF TypeOK, RunState
    <2> SUFFICES ASSUME NEW s \in Sources \ overlapped PROVE Chained(s)'
      BY <1>1, <2>2 DEF ChainInv
    <2>3. Chained(s) BY DEF ChainInv
    <2>4. Uncommitted(s)' = Uncommitted(s) \ {r} BY <2>2 DEF Uncommitted
    <2>5. CASE s = x
      <3>1. r \in Uncommitted(s) BY <2>2, <2>5 DEF Uncommitted
      <3>2. Uncommitted(s)' = {} BY <2>3, <2>4, <3>1 DEF Chained
      <3>3. NewRevision(r).prev = n BY <2>2, <2>3, <2>5, <3>1 DEF Chained, NewRevision
      <3>4. \A i \in 1..Len(revs'[s]) : revs'[s][i].prev = i - 1
        <4> SUFFICES ASSUME NEW i \in 1..Len(revs'[s]) PROVE revs'[s][i].prev = i - 1
          OBVIOUS
        <4>1. CASE i \in 1..n
          <5>1. revs[s][i].prev = i - 1 BY <2>3, <2>5, <4>1 DEF Chained
          <5> QED BY <2>1, <2>5, <4>1, <5>1
        <4>2. CASE i = n + 1
          <5>1. revs'[s][i] = NewRevision(r) BY <2>1, <2>5, <4>2
          <5> QED BY <2>1, <3>3, <4>2, <5>1
        <4>3. i \in 1..n \/ i = n + 1 BY <2>1, <2>5
        <4> QED BY <4>1, <4>2, <4>3
      <3> QED BY <3>2, <3>4 DEF Chained
    <2>6. CASE s # x
      <3>1. revs'[s] = revs[s] BY <2>1, <2>6
      <3>2. \A q \in Uncommitted(s)' : q \in Uncommitted(s) /\ run'[q] = run[q]
        BY <2>2, <2>4 DEF Uncommitted
      <3> QED BY <2>3, <3>1, <3>2 DEF Chained
    <2> QED BY <2>5, <2>6
  <1>7. CASE Next
    <2>1. ASSUME NEW s \in Sources, PageChanges(s) PROVE ChainInv'
      BY <1>2, <2>1 DEF PageChanges
    <2> QED BY <1>3, <1>4, <1>5, <1>6, <1>7, <2>1, Steps
  <1> QED BY <1>2, <1>7 DEF vars

\* As long as the scrapes of a source never overlap, each revision is compared with
\* the one before it: one baseline, and no change recorded twice
\* (scraper_service.py:124-205).  Nothing in the code keeps them from overlapping.
THEOREM Chain == Spec => []ChainUnlessOverlap
  <1>1. ChainInv => ChainUnlessOverlap BY DEF ChainInv, Chained, ChainUnlessOverlap
  <1> QED BY <1>1, InitChain, StepChain, PTL DEF Spec

-----------------------------------------------------------------------------
(* The scrapes in the scraping system, where tasks and jobs begin and end them, *)
(* several at once when a process restarts, and a fault may be anybody's.       *)

CONSTANTS Tasks, Jobs, Dispatchers, Frequencies, Backoff, MaxRetries, BatchSize,
          MaxOutlived, RealtimeEnabled
VARIABLES row, freq, wait, lock, dpc, plan, task, dlq, sent, outlived,
          active, job, runner, found

System == INSTANCE ScrapeSystem

\* The caller of a scrape that has raised is done with it; a fault may end any scrapes, or
\* be none of theirs.
Elsewhere ==
    /\ \E over \in SUBSET Runs :
          /\ run' = [r \in Runs |-> IF r \in over THEN IdleRun ELSE run[r]]
          /\ \A r \in over : run[r].pc = "raised" \/ faults' # faults
    /\ faults' = faults \/ (faults < MaxFaults /\ faults' = faults + 1)
    /\ UNCHANGED <<page, revs, outbox, overlapped>>

LEMMA NothingElsewhere ==
    ASSUME TypeOK, UNCHANGED <<page, revs, outbox, run, overlapped>>,
           faults' = faults \/ (faults < MaxFaults /\ faults' = faults + 1)
    PROVE  Elsewhere
  <1>1. run' = [r \in Runs |-> IF r \in {} THEN IdleRun ELSE run[r]] BY DEF TypeOK
  <1>2. {} \in SUBSET Runs OBVIOUS
  <1> QED BY <1>1, <1>2 DEF Elsewhere

LEMMA OneEndsElsewhere ==
    ASSUME TypeOK, NEW r \in Runs, run' = [run EXCEPT ![r] = IdleRun],
           UNCHANGED <<page, revs, outbox, overlapped>>,
           \/ faults' = faults /\ run[r].pc = "raised"
           \/ faults < MaxFaults /\ faults' = faults + 1
    PROVE  Elsewhere
  <1>1. PICK over \in SUBSET Runs : over = {r} OBVIOUS
  <1>2. run' = [q \in Runs |-> IF q \in over THEN IdleRun ELSE run[q]] BY <1>1 DEF TypeOK
  <1>3. faults' # faults \/ run[r].pc = "raised" BY PipelineAssumption DEF TypeOK
  <1> QED BY <1>1, <1>2, <1>3 DEF Elsewhere

\* A runner's job is about a source.
JobsKnowSources ==
    /\ job \in [Jobs -> [status : {"none", "PENDING", "IN_PROGRESS", "COMPLETED", "FAILED"},
                         src : Sources \cup {None}]]
    /\ runner \in [Jobs -> {"none", "spawned", "scraping"}]
    /\ \A j \in Jobs : runner[j] # "none" => job[j].src \in Sources

LEMMA SystemKeepsSources == JobsKnowSources /\ [System!Next]_System!vars => JobsKnowSources'
  <1> SUFFICES ASSUME JobsKnowSources, [System!Next]_System!vars PROVE JobsKnowSources'
    OBVIOUS
  <1>1. CASE UNCHANGED <<job, runner>>
    BY <1>1 DEF JobsKnowSources
  <1>2. ASSUME NEW j \in Jobs, NEW s \in Sources,
               System!Manual!Trigger(j, s) \/ System!Manual!TriggerCutShort(j, s)
        PROVE  JobsKnowSources'
    <2>1. /\ job' = [job EXCEPT ![j] = [status |-> "PENDING", src |-> s]]
          /\ runner' = runner \/ runner' = [runner EXCEPT ![j] = "spawned"]
      BY <1>2 DEF System!Manual!Trigger, System!Manual!TriggerCutShort
    <2>2. job' \in [Jobs -> [status : {"none", "PENDING", "IN_PROGRESS", "COMPLETED", "FAILED"},
                            src : Sources \cup {None}]]
          /\ runner' \in [Jobs -> {"none", "spawned", "scraping"}]
      BY <2>1 DEF JobsKnowSources
    <2>3. job'[j].src = s /\ \A k \in Jobs \ {j} : job'[k] = job[k] /\ runner'[k] = runner[k]
      BY <2>1 DEF JobsKnowSources
    <2> QED BY <2>2, <2>3 DEF JobsKnowSources
  <1>3. ASSUME NEW j \in Jobs,
               \/ System!Manual!Start(j) \/ System!Manual!StartFails(j)
               \/ System!Manual!Finish(j, "FAILED") \/ System!Manual!FinishFails(j)
        PROVE  JobsKnowSources'
    BY <1>3 DEF JobsKnowSources, System!Manual!Start, System!Manual!StartFails,
       System!Manual!Finish, System!Manual!FinishFails
  <1>4. CASE System!Manual!ProcessRestart
    BY <1>4 DEF JobsKnowSources, System!Manual!ProcessRestart
  <1>5. CASE System!ManualAlone
    BY <1>1, <1>2, <1>3, <1>5 DEF System!ManualAlone, System!Manual!ToggleActive
  <1>6. ASSUME NEW j \in Jobs, System!StartJob(j) \/ System!JobRaised(j)
        PROVE  JobsKnowSources'
    BY <1>3, <1>6 DEF System!StartJob, System!JobRaised
  <1>7. ASSUME \/ System!ScheduleAlone \/ UNCHANGED System!vars
               \/ \E s \in Sources : System!DeleteSource(s) \/ System!PageChanges(s)
               \/ \E r \in Tasks \cup Jobs : System!ScrapeStep(r)
               \/ \E t \in Tasks : System!StartTask(t) \/ System!TaskRaised(t) \/ System!WorkerCrash(t)
        PROVE  UNCHANGED <<job, runner>>
    BY <1>7 DEF System!ScheduleAlone, System!DeleteSource, System!PageChanges,
       System!ScrapeStep, System!StartTask, System!TaskRaised, System!WorkerCrash,
       System!vars, System!manual
  <1> QED BY <1>1, <1>4, <1>5, <1>6, <1>7 DEF System!Next, System!ProcessRestart

\* A step of a scrape within the system is one of its own steps.
LEMMA ScrapeSteps ==
    /\ \A s \in Sources : System!Pipeline!PageChanges(s) => PageChanges(s)
    /\ \A r \in Runs : System!Pipeline!Step(r) => Step(r)
  <1>1. ASSUME NEW r \in Runs
        PROVE  /\ System!Pipeline!Fetch(r) => Fetch(r)
               /\ System!Pipeline!Compare(r) => Compare(r)
               /\ System!Pipeline!Analyze(r) => Analyze(r)
               /\ System!Pipeline!FailBeforePersist(r) => FailBeforePersist(r)
               /\ System!Pipeline!PersistFails(r) => PersistFails(r)
               /\ System!Pipeline!Notify(r) => Notify(r)
               /\ System!Pipeline!NotifyFails(r) => NotifyFails(r)
               /\ System!Pipeline!CreateTicket(r) => CreateTicket(r)
    BY DEF System!Pipeline!Fetch, Fetch, System!Pipeline!Compare, Compare,
       System!Pipeline!Analyze, Analyze, System!Pipeline!FailBeforePersist, FailBeforePersist,
       System!Pipeline!PersistFails, PersistFails, System!Pipeline!Notify, Notify,
       System!Pipeline!NotifyFails, NotifyFails, System!Pipeline!CreateTicket, CreateTicket
  <1>2. \A r \in Runs : System!Pipeline!Persist(r) => Persist(r)
    BY DEF System!Pipeline!Persist, Persist, System!Pipeline!HasDiff, HasDiff
  <1>3. \A s \in Sources : System!Pipeline!PageChanges(s) => PageChanges(s)
    BY DEF System!Pipeline!PageChanges, PageChanges
  <1> QED BY <1>1, <1>2, <1>3 DEF System!Pipeline!Step, Step

\* The scrapes of the system are those of its tasks and jobs.
LEMMA SystemStep ==
    ASSUME Runs = Tasks \cup Jobs, TypeOK, JobsKnowSources, [System!Next]_System!vars
    PROVE  Next \/ Elsewhere
  <1>0. System!Pipeline!IdleRun = IdleRun BY DEF System!Pipeline!IdleRun, IdleRun
  <1>1. ASSUME NEW r \in Runs, NEW s \in Sources, System!Pipeline!Begin(r, s) PROVE Next
    <2>1. Begin(r, s)
      BY <1>0, <1>1 DEF System!Pipeline!Begin, Begin, System!Pipeline!Uncommitted, Uncommitted
    <2> QED BY <2>1 DEF Next
  <1>2. CASE UNCHANGED System!vars
    BY <1>2, NothingElsewhere DEF System!vars, System!pipeline
  <1>3. CASE System!ScheduleAlone
    <2>1. /\ UNCHANGED <<page, revs, outbox, run, overlapped>>
          /\ faults' = faults \/ (faults < MaxFaults /\ faults' = faults + 1)
      BY <1>3 DEF System!ScheduleAlone, System!pipeline, System!Schedule!Tick,
         System!Schedule!LockLapses, System!Schedule!CreateSource,
         System!Schedule!UpdateFrequency, System!Schedule!AcquireLock,
         System!Schedule!DispatchStep, System!Schedule!SelectBatch, System!Schedule!CommitBatch,
         System!Schedule!CommitStale, System!Schedule!SendTask, System!Schedule!BatchDone, System!Schedule!DispatchAborts,
         System!Schedule!SourceNotFound
    <2> QED BY <2>1, NothingElsewhere
  <1>4. CASE System!ManualAlone
    <2>1. /\ UNCHANGED <<page, revs, outbox, run, overlapped>>
          /\ faults' = faults \/ (faults < MaxFaults /\ faults' = faults + 1)
      BY <1>4 DEF System!ManualAlone, System!pipeline, System!Manual!ToggleActive,
         System!Manual!Trigger, System!Manual!TriggerCutShort, System!Manual!StartFails
    <2> QED BY <2>1, NothingElsewhere
  <1>5. ASSUME NEW s \in Sources, System!DeleteSource(s) PROVE Elsewhere
    BY <1>5, NothingElsewhere DEF System!DeleteSource, System!Schedule!DeleteSource,
       System!pipeline
  <1>6. ASSUME NEW s \in Sources, System!PageChanges(s) PROVE Next
    BY <1>6, ScrapeSteps DEF System!PageChanges, Next
  <1>7. ASSUME NEW r \in Tasks \cup Jobs, System!ScrapeStep(r) PROVE Next
    BY <1>7, ScrapeSteps DEF System!ScrapeStep, Next
  <1>8. ASSUME NEW t \in Tasks, System!StartTask(t) PROVE Next
    <2>1. task[t].src \in Sources /\ System!Pipeline!Begin(t, task[t].src)
      BY <1>8 DEF System!StartTask, System!Schedule!StartTask, System!Schedule!Rows
    <2> QED BY <1>1, <2>1
  <1>9. ASSUME NEW j \in Jobs, System!StartJob(j) PROVE Next
    <2>1. job[j].src \in Sources /\ System!Pipeline!Begin(j, job[j].src)
      BY <1>9 DEF System!StartJob, System!Manual!Start, JobsKnowSources
    <2> QED BY <1>1, <2>1
  <1>10. ASSUME NEW t \in Tasks, System!TaskRaised(t) \/ System!WorkerCrash(t) PROVE Elsewhere
    <2>1. /\ run' = [run EXCEPT ![t] = IdleRun] /\ UNCHANGED <<page, revs, outbox, overlapped>>
          /\ \/ faults' = faults /\ run[t].pc = "raised"
             \/ faults < MaxFaults /\ faults' = faults + 1
      BY <1>0, <1>10 DEF System!TaskRaised, System!WorkerCrash, System!ScrapeEnds,
         System!Pipeline!Crash, System!Schedule!RetryTask, System!Schedule!RetryLost,
         System!Schedule!DeadLetterFails, System!Schedule!DeadLetter
    <2> QED BY <2>1, OneEndsElsewhere
  <1>11. ASSUME NEW j \in Jobs, System!JobRaised(j) PROVE Elsewhere
    <2>1. /\ run' = [run EXCEPT ![j] = IdleRun] /\ UNCHANGED <<page, revs, outbox, overlapped>>
          /\ run[j].pc = "raised"
          /\ faults' = faults \/ (faults < MaxFaults /\ faults' = faults + 1)
      BY <1>0, <1>11 DEF System!JobRaised, System!ScrapeEnds, System!Manual!Finish,
         System!Manual!FinishFails
    <2> QED BY <2>1, OneEndsElsewhere
  <1>12. CASE System!ProcessRestart
    <2>1. /\ run' = [r \in Runs |-> IF r \in Jobs THEN IdleRun ELSE run[r]]
          /\ UNCHANGED <<page, revs, outbox, overlapped>>
          /\ faults < MaxFaults /\ faults' = faults + 1
      BY <1>0, <1>12 DEF System!ProcessRestart, System!Manual!ProcessRestart
    <2>2. Jobs \in SUBSET Runs OBVIOUS
    <2>3. faults \in Nat BY PipelineAssumption DEF TypeOK
    <2> QED BY <2>1, <2>2, <2>3 DEF Elsewhere
  <1> QED
    BY <1>2, <1>3, <1>4, <1>5, <1>6, <1>7, <1>8, <1>9, <1>10, <1>11, <1>12 DEF System!Next

LEMMA SystemBegins ==
    ASSUME Runs = Tasks \cup Jobs, System!Init
    PROVE  Init /\ JobsKnowSources
  <1>1. Init BY DEF System!Init, System!Pipeline!Init, Init, System!Pipeline!IdleRun, IdleRun
  <1>2. JobsKnowSources
    BY DEF System!Init, System!Manual!Init, System!Manual!NoJob, JobsKnowSources
  <1> QED BY <1>1, <1>2

\* What Elsewhere does to a scrape.
LEMMA Ended ==
    ASSUME TypeOK, Elsewhere
    PROVE  /\ TypeOK'
           /\ UNCHANGED <<page, revs, outbox, overlapped>>
           /\ \A r \in Runs :
                 \/ run'[r] = run[r]
                 \/ run'[r] = IdleRun /\ run'[r].pc = "idle" /\ (faults' # 0 \/ run[r].pc = "raised")
           /\ faults' = 0 => faults = 0
  <1>1. PICK over \in SUBSET Runs :
            /\ run' = [r \in Runs |-> IF r \in over THEN IdleRun ELSE run[r]]
            /\ \A r \in over : run[r].pc = "raised" \/ faults' # faults
    BY DEF Elsewhere
  <1>2. faults \in Nat /\ faults' \in 0..MaxFaults /\ faults <= faults'
        /\ (faults' # faults => faults' # 0)
    BY PipelineAssumption DEF TypeOK, Elsewhere
  <1>3. UNCHANGED <<page, revs, outbox, overlapped>> BY DEF Elsewhere
  <1>4. \A r \in Runs : Scrape(run'[r]) BY <1>1, RunIsScrape, IdleIsScrape
  <1>5. run' \in [Runs -> RunState] BY <1>1, <1>4 DEF Scrape
  <1>6. TypeOK' BY <1>2, <1>3, <1>4, <1>5 DEF TypeOK, Scrape
  <1>7. ASSUME NEW r \in Runs
        PROVE  \/ run'[r] = run[r]
               \/ run'[r] = IdleRun /\ run'[r].pc = "idle" /\ (faults' # 0 \/ run[r].pc = "raised")
    BY <1>1, <1>2, IdleIsScrape
  <1> QED BY <1>2, <1>3, <1>6, <1>7

LEMMA ElsewhereFeed == ASSUME FeedInv, Elsewhere PROVE FeedInv'
  <1>1. /\ TypeOK' /\ UNCHANGED <<revs, outbox>>
        /\ \A r \in Runs : run'[r] = run[r] \/ (run'[r] = IdleRun /\ run'[r].pc = "idle")
    BY Ended DEF FeedInv
  <1>2. DiffsAreReal' /\ AnnouncedOnce' BY <1>1 DEF FeedInv, DiffsAreReal, AnnouncedOnce
  <1>3. \A r \in Runs : Agrees(run'[r]) BY <1>1, IdleAgrees DEF FeedInv
  <1>4. (\A r \in Runs : Agrees(run[r]))' BY <1>1, <1>3 DEF Agrees, Pending
  <1>5. OneAnnouncer' BY <1>1 DEF FeedInv, OneAnnouncer
  <1> QED BY <1>1, <1>2, <1>4, <1>5 DEF FeedInv

LEMMA ElsewhereForgets == ASSUME FeedInv, NoDiffForgotten, Elsewhere PROVE NoDiffForgotten'
  <1> SUFFICES ASSUME faults' = 0, NEW s \in Sources, NEW i \in 1..Len(revs'[s]),
                      HasDiff(revs'[s][i])
               PROVE  Handled(s, i)'
    BY DEF NoDiffForgotten, Handled
  <1>1. /\ UNCHANGED <<revs, outbox>> /\ faults = 0
        /\ \A r \in Runs : run[r].pc = "notify" => run'[r] = run[r]
    BY Ended DEF FeedInv
  <1>2. Handled(s, i) BY <1>1 DEF NoDiffForgotten, Handled
  <1> QED BY <1>1, <1>2 DEF Handled, Announced

LEMMA ElsewhereChain == ASSUME ChainInv, Elsewhere PROVE ChainInv'
  <1>1. /\ TypeOK' /\ UNCHANGED <<revs, overlapped>>
        /\ \A r \in Runs : run'[r] = run[r] \/ run'[r].pc = "idle"
    BY Ended DEF ChainInv
  <1> SUFFICES ASSUME NEW s \in Sources \ overlapped PROVE Chained(s)'
    BY <1>1 DEF ChainInv
  <1>2. \A r \in Uncommitted(s)' : r \in Uncommitted(s) /\ run'[r] = run[r]
    BY <1>1 DEF Uncommitted
  <1> QED BY <1>1, <1>2 DEF ChainInv, Chained

\* All that is proved of the scrapes by themselves.
PipelineInv == FeedInv /\ NoDiffForgotten /\ ChainInv

LEMMA InitPipeline == Init => PipelineInv
  <1> SUFFICES ASSUME Init PROVE NoDiffForgotten
    BY InitFeed, InitChain DEF PipelineInv
  <1> SUFFICES ASSUME NEW s \in Sources, NEW i \in 1..Len(revs[s]) PROVE FALSE
    BY DEF NoDiffForgotten
  <1> QED BY DEF Init

LEMMA SystemKeepsPipeline ==
    ASSUME Runs = Tasks \cup Jobs
    PROVE  PipelineInv /\ JobsKnowSources /\ [System!Next]_System!vars => PipelineInv'
  <1> SUFFICES ASSUME PipelineInv, JobsKnowSources, [System!Next]_System!vars PROVE PipelineInv'
    OBVIOUS
  <1>1. CASE Next
    <2>1. FeedInv' /\ ChainInv' BY <1>1, StepFeed, StepChain DEF PipelineInv
    <2>2. NoDiffForgotten'
      <3>1. CASE faults' = 0 BY <1>1, <3>1, ForgottenStep DEF PipelineInv
      <3>2. CASE faults' # 0 BY <3>2 DEF NoDiffForgotten
      <3> QED BY <3>1, <3>2
    <2> QED BY <2>1, <2>2 DEF PipelineInv
  <1>2. CASE Elsewhere
    BY <1>2, ElsewhereFeed, ElsewhereForgets, ElsewhereChain DEF PipelineInv
  <1> QED BY <1>1, <1>2, SystemStep DEF PipelineInv, FeedInv

\* Scrapes run by tasks that are retried and by jobs that die with their process amount to
\* the same feed of changes; in it each diff is real and announced once at most
\* (scraper_service.py:124-213, called in tasks.py:102 and scrape_job_service.py:56).
THEOREM FeedInSystem ==
    ASSUME Runs = Tasks \cup Jobs
    PROVE  System!Spec => ImplementsFeed /\ [](DiffsAreReal /\ AnnouncedOnce)
  <1>1. System!Init => PipelineInv /\ JobsKnowSources BY SystemBegins, InitPipeline
  <1>2. PipelineInv /\ JobsKnowSources /\ [System!Next]_System!vars => PipelineInv'
    BY SystemKeepsPipeline
  <1>3. JobsKnowSources /\ [System!Next]_System!vars => JobsKnowSources' BY SystemKeepsSources
  <1>4. System!Init => Feed!Init BY SystemBegins DEF Init, Feed!Init
  <1>5. PipelineInv /\ JobsKnowSources /\ [System!Next]_System!vars => [Feed!Next]_Feed!feed
    <2> SUFFICES ASSUME PipelineInv, JobsKnowSources, [System!Next]_System!vars
                 PROVE  [Feed!Next]_Feed!feed
      OBVIOUS
    <2>1. CASE Next BY <2>1, StepImplements DEF PipelineInv
    <2>2. CASE Elsewhere BY <2>2 DEF Elsewhere, Feed!feed
    <2> QED BY <2>1, <2>2, SystemStep DEF PipelineInv, FeedInv
  <1>6. PipelineInv => DiffsAreReal /\ AnnouncedOnce BY DEF PipelineInv, FeedInv
  <1> QED
    BY <1>1, <1>2, <1>3, <1>4, <1>5, <1>6, PTL DEF System!Spec, ImplementsFeed, Feed!Spec

\* Without a fault anywhere in the system, each diff is announced or about to be; where a
\* source's scrapes never overlapped, its history is one chain (scraper_service.py:124-213).
THEOREM HistoryInSystem ==
    ASSUME Runs = Tasks \cup Jobs
    PROVE  System!Spec => [](NoDiffForgotten /\ ChainUnlessOverlap)
  <1>1. System!Init => PipelineInv /\ JobsKnowSources BY SystemBegins, InitPipeline
  <1>2. PipelineInv /\ JobsKnowSources /\ [System!Next]_System!vars => PipelineInv'
    BY SystemKeepsPipeline
  <1>3. JobsKnowSources /\ [System!Next]_System!vars => JobsKnowSources' BY SystemKeepsSources
  <1>4. PipelineInv => NoDiffForgotten /\ ChainUnlessOverlap
    BY DEF PipelineInv, ChainInv, Chained, ChainUnlessOverlap
  <1> QED BY <1>1, <1>2, <1>3, <1>4, PTL DEF System!Spec
=============================================================================
