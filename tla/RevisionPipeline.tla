-------------------------- MODULE RevisionPipeline --------------------------
(***************************************************************************)
(* One scrape of a source, ScraperService.execute_scrape_job               *)
(* (src/app/api/modules/v1/scraping/service/scraper_service.py): fetch the *)
(* page, compare it with the latest revision, let the AI judge the change, *)
(* commit the new revision with its diff, queue the notifications and open *)
(* a ticket.  Any number of scrapes of one source may run at once: Celery  *)
(* tasks, their retries and manual jobs take no lock on it.                *)
(*                                                                         *)
(* A page is known by its content hash.  Archiving, text extraction and    *)
(* the AI are the nondeterminism they leave: they fail, or they answer.    *)
(***************************************************************************)
EXTENDS Naturals, Sequences

CONSTANTS
    Sources,      \* sources being scraped
    None,         \* the source and the hash of a scrape that has none yet
    Runs,         \* executions of execute_scrape_job that may exist at once
    Hashes,       \* the content hashes a page can have
    MaxRevisions, \* bound on the revisions of a source
    MaxFaults     \* bound on crashes and on failures after the commit

ASSUME PipelineAssumption ==
    /\ None \notin Sources \cup Hashes
    /\ Hashes # {}
    /\ MaxRevisions \in Nat
    /\ MaxFaults \in Nat

VARIABLES
    page,      \* content hash of each source's page, as the web serves it now
    revs,      \* data_revisions and change_diff of a source, in commit order; the code
               \* orders them by scraped_at, which is taken just before the insert
    outbox,    \* send_revision_notifications tasks queued, as revision numbers
    run,       \* the scrapes
    faults,    \* faults that have happened
    overlapped \* ghost: sources two scrapes of which have been under way at once

vars == <<page, revs, outbox, run, faults, overlapped>>

\* prev is the revision the scrape compared with, 0 when it found none; the
\* revision has a ChangeDiff row exactly if HasDiff.
Revision == [hash : Hashes, prev : Nat, changed : BOOLEAN]
HasDiff(v) == v.changed /\ v.prev # 0

Phases == {"idle", "fetch", "compare", "analyze", "persist", "notify", "ticket", "raised"}

\* What a scrape holds: the page it fetched, the last_revision it read, the AI's
\* verdict and, once committed, the number of its revision (0 before).
IdleRun == [pc |-> "idle", src |-> None, hash |-> None, last |-> 0,
            changed |-> FALSE, rev |-> 0]
RunState == [pc : Phases, src : Sources \cup {None}, hash : Hashes \cup {None},
             last : Nat, changed : BOOLEAN, rev : Nat]

\* The scrapes of s that have begun and not yet committed or given up.
Uncommitted(s) ==
    {r \in Runs : run[r].src = s /\ run[r].pc \in {"fetch", "compare", "analyze", "persist"}}

TypeOK ==
    /\ page \in [Sources -> Hashes]
    /\ revs \in [Sources -> Seq(Revision)]
    /\ outbox \in [Sources -> Seq(Nat)]
    /\ run \in [Runs -> RunState]
    /\ \A r \in Runs : run[r].pc # "idle" => run[r].src \in Sources
    /\ \A r \in Runs : run[r].pc \in {"compare", "analyze", "persist"} => run[r].hash \in Hashes
    /\ faults \in 0..MaxFaults
    /\ overlapped \subseteq Sources

Init ==
    /\ page \in [Sources -> Hashes]
    /\ revs = [s \in Sources |-> <<>>]
    /\ outbox = [s \in Sources |-> <<>>]
    /\ run = [r \in Runs |-> IdleRun]
    /\ faults = 0
    /\ overlapped = {}

-----------------------------------------------------------------------------
\* The monitored site publishes something else.
PageChanges(s) ==
    /\ \E h \in Hashes : h # page[s] /\ page' = [page EXCEPT ![s] = h]
    /\ UNCHANGED <<revs, outbox, run, faults, overlapped>>

\* A caller starts a scrape of s and it finds the source's row.
Begin(r, s) ==
    /\ run[r].pc = "idle"
    /\ run' = [run EXCEPT ![r] = [IdleRun EXCEPT !.pc = "fetch", !.src = s]]
    /\ overlapped' = IF Uncommitted(s) # {} THEN overlapped \cup {s} ELSE overlapped
    /\ UNCHANGED <<page, revs, outbox, faults>>

\* The page is fetched, its raw bytes are archived and its text is extracted.
Fetch(r) ==
    /\ run[r].pc = "fetch"
    /\ run' = [run EXCEPT ![r].pc = "compare", ![r].hash = page[run[r].src]]
    /\ UNCHANGED <<page, revs, outbox, faults, overlapped>>

\* Mutants of Compare: equal hashes go to the AI too; the revisions are read in
\* ascending order.
CompareWithoutHash(r) ==
    /\ run[r].pc = "compare"
    /\ run' = [run EXCEPT ![r].pc = "analyze", ![r].last = Len(revs[run[r].src])]
    /\ UNCHANGED <<page, revs, outbox, faults, overlapped>>
CompareWithOldest(r) ==
    LET history == revs[run[r].src]
        unchanged == history # <<>> /\ history[1].hash = run[r].hash
    IN  /\ run[r].pc = "compare"
        /\ run' = [run EXCEPT ![r].pc = IF unchanged THEN "persist" ELSE "analyze",
                              ![r].last = IF history = <<>> THEN 0 ELSE 1]
        /\ UNCHANGED <<page, revs, outbox, faults, overlapped>>

\* The latest revision is read; an equal hash skips the AI.
Compare(r) ==
    LET history == revs[run[r].src]
        unchanged == history # <<>> /\ history[Len(history)].hash = run[r].hash
    IN  /\ run[r].pc = "compare"
        /\ run' = [run EXCEPT ![r].pc = IF unchanged THEN "persist" ELSE "analyze",
                              ![r].last = Len(history)]
        /\ UNCHANGED <<page, revs, outbox, faults, overlapped>>

\* AI extraction and semantic comparison: whether the change is material is theirs to say.
Analyze(r) ==
    /\ run[r].pc = "analyze"
    /\ \E changed \in BOOLEAN :
          run' = [run EXCEPT ![r].pc = "persist", ![r].changed = changed]
    /\ UNCHANGED <<page, revs, outbox, faults, overlapped>>

\* An exception before the try block (fetch, archive, AI) reaches the caller with
\* the session as it was.
FailBeforePersist(r) ==
    /\ run[r].pc \in {"fetch", "compare", "analyze"}
    /\ run' = [run EXCEPT ![r].pc = "raised"]
    /\ UNCHANGED <<page, revs, outbox, faults, overlapped>>

\* Mutants of Persist: a change found without a last revision is announced; nothing
\* is announced before the ticket; an unchanged page overwrites the last revision.
PersistAnnouncesFirst(r) ==
    LET s == run[r].src
        revision == [hash |-> run[r].hash, prev |-> run[r].last, changed |-> run[r].changed]
    IN  /\ run[r].pc = "persist"
        /\ Len(revs[s]) < MaxRevisions
        /\ revs' = [revs EXCEPT ![s] = Append(@, revision)]
        /\ run' = [run EXCEPT ![r].pc = IF run[r].changed THEN "notify" ELSE "ticket",
                              ![r].rev = Len(revs[s]) + 1]
        /\ UNCHANGED <<page, outbox, faults, overlapped>>
PersistThenTicket(r) ==
    LET s == run[r].src
        revision == [hash |-> run[r].hash, prev |-> run[r].last, changed |-> run[r].changed]
    IN  /\ run[r].pc = "persist"
        /\ Len(revs[s]) < MaxRevisions
        /\ revs' = [revs EXCEPT ![s] = Append(@, revision)]
        /\ run' = [run EXCEPT ![r].pc = "ticket", ![r].rev = Len(revs[s]) + 1]
        /\ UNCHANGED <<page, outbox, faults, overlapped>>
PersistOverwrites(r) ==
    LET s == run[r].src
        revision == [hash |-> run[r].hash, prev |-> run[r].last, changed |-> run[r].changed]
    IN  /\ run[r].pc = "persist"
        /\ Len(revs[s]) < MaxRevisions
        /\ revs' = [revs EXCEPT ![s] = IF @ = <<>> THEN <<revision>>
                                       ELSE [@ EXCEPT ![Len(@)] = revision]]
        /\ run' = [run EXCEPT ![r].pc = IF HasDiff(revision) THEN "notify" ELSE "ticket",
                              ![r].rev = Len(revs[s]) + 1]
        /\ UNCHANGED <<page, outbox, faults, overlapped>>

\* Revision and diff are committed together.
Persist(r) ==
    LET s == run[r].src
        revision == [hash |-> run[r].hash, prev |-> run[r].last, changed |-> run[r].changed]
    IN  /\ run[r].pc = "persist"
        /\ Len(revs[s]) < MaxRevisions
        /\ revs' = [revs EXCEPT ![s] = Append(@, revision)]
        /\ run' = [run EXCEPT ![r].pc = IF HasDiff(revision) THEN "notify" ELSE "ticket",
                              ![r].rev = Len(revs[s]) + 1]
        /\ UNCHANGED <<page, outbox, faults, overlapped>>

\* The insert or the commit fails: rolled back and raised.
PersistFails(r) ==
    /\ run[r].pc = "persist"
    /\ run' = [run EXCEPT ![r].pc = "raised"]
    /\ UNCHANGED <<page, revs, outbox, faults, overlapped>>

\* send_revision_notifications_task.delay for a change from a known revision.
Notify(r) ==
    /\ run[r].pc = "notify"
    /\ outbox' = [outbox EXCEPT ![run[r].src] = Append(@, run[r].rev)]
    /\ run' = [run EXCEPT ![r].pc = "ticket"]
    /\ UNCHANGED <<page, revs, faults, overlapped>>

\* The broker refuses the task, or the refresh before it fails: the rollback finds
\* nothing left to undo.
NotifyFails(r) ==
    /\ run[r].pc = "notify"
    /\ faults < MaxFaults
    /\ faults' = faults + 1
    /\ run' = [run EXCEPT ![r].pc = "raised"]
    /\ UNCHANGED <<page, revs, outbox, overlapped>>

\* create_auto_ticket is awaited whether or not there is a change.  Without one
\* ticket_service was never assigned (UnboundLocalError); with one the service reads
\* jurisdiction.project.organization_id, and Project has org_id (AttributeError).
\* Either way the except branch rolls back and raises: the return is not reached.
CreateTicket(r) ==
    /\ run[r].pc = "ticket"
    /\ run' = [run EXCEPT ![r].pc = "raised"]
    /\ UNCHANGED <<page, revs, outbox, faults, overlapped>>

\* The caller has dealt with the exception.
Release(r) ==
    /\ run[r].pc = "raised"
    /\ run' = [run EXCEPT ![r] = IdleRun]
    /\ UNCHANGED <<page, revs, outbox, faults, overlapped>>

\* The process dies: an open transaction is lost, a committed one stays.
Crash(r) ==
    /\ run[r].pc # "idle"
    /\ faults < MaxFaults
    /\ faults' = faults + 1
    /\ run' = [run EXCEPT ![r] = IdleRun]
    /\ UNCHANGED <<page, revs, outbox, overlapped>>

Step(r) ==
    \/ Fetch(r) \/ Compare(r) \/ Analyze(r) \/ FailBeforePersist(r)
    \/ Persist(r) \/ PersistFails(r) \/ Notify(r) \/ NotifyFails(r) \/ CreateTicket(r)

Next ==
    \/ \E s \in Sources : PageChanges(s)
    \/ \E r \in Runs, s \in Sources : Begin(r, s)
    \/ \E r \in Runs : Step(r) \/ Release(r) \/ Crash(r)

Spec == Init /\ [][Next]_vars
FairSpec == Spec /\ \A r \in Runs : WF_vars(Step(r))

-----------------------------------------------------------------------------
(* Properties.                                                             *)

Announced(s) == {outbox[s][k] : k \in 1..Len(outbox[s])}

\* A diff always relates two committed revisions of one source, the older first,
\* whose pages really differ -- though the comparison was made against a revision
\* read long before the commit, and others may have been committed meanwhile.
DiffsAreReal ==
    \A s \in Sources : \A i \in 1..Len(revs[s]) :
        /\ revs[s][i].prev < i
        /\ HasDiff(revs[s][i]) => revs[s][revs[s][i].prev].hash # revs[s][i].hash

\* As long as the scrapes of a source never overlapped, its history is one chain:
\* each revision was compared with the one before it, so the first alone is a
\* baseline and no change is recorded twice.
ChainUnlessOverlap ==
    \A s \in Sources \ overlapped :
        \A i \in 1..Len(revs[s]) : revs[s][i].prev = i - 1

\* Notifications go out at most once for a revision, and only for a diff.
AnnouncedOnce ==
    \A s \in Sources :
        /\ \A k \in 1..Len(outbox[s]) :
              outbox[s][k] \in 1..Len(revs[s]) /\ HasDiff(revs[s][outbox[s][k]])
        /\ \A k, l \in 1..Len(outbox[s]) : outbox[s][k] = outbox[s][l] => k = l

\* Without a crash or a broker failure, each diff is announced or about to be.
NoDiffForgotten ==
    faults = 0 =>
        \A s \in Sources : \A i \in 1..Len(revs[s]) :
            HasDiff(revs[s][i]) =>
               \/ i \in Announced(s)
               \/ \E r \in Runs : run[r].pc = "notify" /\ run[r].src = s /\ run[r].rev = i

\* The scrapes, their failures and crashes amount to the feed of changes that
\* ChangeFeed promises to its readers.
Feed == INSTANCE ChangeFeed WITH history <- revs, announced <- outbox
ImplementsFeed == Feed!Spec

\* "Returns: Dict[str, Any]: A summary of the scrape execution including status and
\* changes" (scraper_service.py:59): a scrape whose revision is committed ends in an
\* exception only if something failed.
CommittedScrapeReturns ==
    \A r \in Runs : run[r].pc = "raised" /\ run[r].rev # 0 => faults > 0
=============================================================================
