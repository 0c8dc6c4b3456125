# Legal Watch Dog: TLA+ models, checks and proofs

Legal Watch Dog watches the web sources of a jurisdiction: a scheduler scrapes each
source, an AI judges whether a change matters, revisions and diffs are stored, project
members are notified and tickets opened. Around that core stand accounts, organizations,
projects, billing and public forms. The program is a FastAPI service with an async SQLAlchemy
session per request (Postgres), Celery workers and Celery beat (Redis as broker), Redis for
locks, tokens, counters and realtime events, MinIO for archived pages, and Stripe, Gemini,
SMTP and three OAuth providers outside.

Paths below are relative to `src/app/api/modules/v1/` unless they start with `src/`.

## 1. Inventory

| Component | State | Operations | Interacts with |
|---|---|---|---|
| Scrape scheduler (`scraping/service/tasks.py`, `src/app/celery_app.py`) | `sources.next_scrape_time`, the Redis lock, Celery messages, the Redis dead-letter list | `dispatch_due_sources` each minute, `scrape_source` with retries | sources API (same rows), pipeline (call) |
| Scrape pipeline (`scraping/service/scraper_service.py`) and its back ends | `data_revisions`, `change_diff`, MinIO objects | `execute_scrape_job`; fetching, extraction, two AI calls | called by tasks and jobs; queues notifications; opens tickets |
| Manual jobs (`scraping/routes/scrape_routes.py`, `scraping/service/scrape_job_service.py`) | `scrape_jobs` with a partial unique index, asyncio tasks | trigger, background run, three reads | pipeline (call), realtime events |
| Revision notifications (`notifications/service/`) | `revision_notifications`, mailboxes | the Celery task with retries; read, update, delete | projects (membership), SMTP, realtime events |
| Projects and sources (`projects/`, `scraping/service/source_service.py`) | `projects`, `project_users`, `sources` | create, archive, delete with cascades; create, bulk create, accept, update, delete sources | scheduler, jobs, jurisdictions |
| Jurisdictions (`jurisdictions/`) | a forest of rows with soft deletion | create, move, rename, archive and restore subtrees and projects | projects, pipeline (prompts) |
| Realtime events (`src/app/api/events`, `src/app/api/ws`) | a Redis channel, the sockets of each process | publish, relay, connect, subscribe, drop | jobs, notifications |
| Sessions (`auth/service/login_service.py`, `logout_service.py`, `src/app/api/utils/cookie_helper.py`) | refresh tokens, denylist, failure counters in Redis; cookies in the browser (section 6) | login, refresh, logout | every protected route |
| Registration, password reset (`auth/service/`) | pending credentials, codes, reset tokens in Redis; `users` | register, verify, resend, reset | sessions, invitations |
| OAuth sign-in (`auth/service/google_oauth_service.py`, `oauth_microsoft.py`, `apple_auth.py`) | `oauth_state` keys, `users` | send out, call back, find or create the user | sessions |
| Billing and Stripe webhooks (`billing/`) | account, mirror in the organization, invoices, cards, plans; processed events in Redis | checkout, change plan, cancel, cards, webhook handlers, seeding of plans | Stripe, organizations |
| Organizations (`organization/service/`) | organizations, memberships, roles, invitations | create, invite, accept, cancel, change role, deactivate, remove, delete | users, every permission check |
| Forms (`waitlist/`, `contact_us/`, `hire_specialists/`) | three tables, two rate limits in Redis | sign up, contact, request | SMTP |
| API keys, tickets, rate limiter, search, source discovery, profile pictures | - | section 6 | - |

Where it is hard:

- **Concurrency.** Nothing takes a lock on a source: Celery tasks, their retries and manual
  jobs may scrape it at the same time, each with its own session. Dispatcher executions are
  kept apart by a Redis key that only expires. Users change rows a task has loaded.
- **Partial failure.** Commits and side effects alternate: schedule commit then `send_task`;
  revision commit then notification task then ticket; e-mails then commit then events.
- **Crashes.** Celery acknowledges early, so a task that is running when its worker dies is
  lost; a manual job lives in the memory of the API process.
- **Retries.** The scrape task is retried up to `SCRAPE_MAX_RETRIES` times and runs the whole
  pipeline anew; the notification task up to three times and mails anew.
- **Check then act.** Codes and reset tokens (`get`, `delete`), counters (`incr`, `expire`),
  webhook idempotency (`exists`, handler, `set`), roles and rows read before they are written,
  the URL of a source, the parent of a jurisdiction, the members of an organization that is
  being deleted: nothing is locked in between, a constraint decides where there is one.
- **Delivery.** Stripe repeats events and sends them in any order; a Redis subscription loses
  what is published while nobody listens; a client vanishes in the middle of a broadcast.
- **Dirty columns.** A session writes the columns that differ from what *it* read, so two
  requests or two servers can each do the right thing and leave a mixture.

What makes each part correct: a due source has a task sent for it, once, and in the end; a failing scrape
leaves a trace; a diff relates two real, different revisions and is announced once; its archive
is the page its hash is of; a source has one active job and each job is finished; members are
told, and not over and over; a Stripe event is processed once in effect and an old one does not
undo a newer; a code is used once and not wasted; a change is only reported where
the data changed; a locked account lets nobody guess; a logout ends every
session; a person has one account; an organization keeps its Owner, a removed member stays
removed; a subtree is archived whole and stays a tree; a source keeps its jurisdiction;
customers are offered the plans of one release. `PROJECT.json` lists the hazards line by line,
with the properties that cover them.

## 2. Modules

| Module | Models | Role |
|---|---|---|
| `ScrapeSchedule` | `tasks.py`, the sources API where it touches the schedule | component |
| `RevisionPipeline` | `scraper_service.py`, the call of `create_auto_ticket` | component |
| `ChangeFeed` | what the pipeline promises to readers of the history | abstract specification |
| `ScrapeJobs` | trigger, runner and job rows | component |
| `ScrapeSystem` | the three components together | composition |
| `RevisionNotifications` | the notification task, the users' operations, membership | component |
| `Billing` | one organization's account, cards and invoice, and Stripe | component |
| `Accounts` | one address: registration, sign-in, sessions, reset | component |
| `LoginLockout` | the counters and the lock in front of a password | component |
| `OAuthSignIn` | one person with Google, Microsoft and Apple | component |
| `Identity` | the three above, side by side | composition |
| `Membership` | one organization: roles, invitations, removal, deletion | component |
| `Projects` | one project: its users, jurisdictions and sources | component |
| `Jurisdictions` | one project's forest | component |
| `PageCapture` | fetching, archiving and the AI's calls, for one source | component |
| `Realtime` | websockets and the event relay | component |
| `Forms` | waitlist, contact form, specialist requests | component |
| `Plans` | the billing plans that servers seed | component |
| `Workspace` | the seven above, side by side | composition |
| `MC...` | symmetry and view for TLC | model checking |
| `*_proofs` | theorems and their proofs, of one component or (`Identity_proofs`, `Workspace_proofs`) of all parts of a composition | proofs |

Each component has one action per operation or, where an operation can be interrupted, one per
stretch of code between two points at which another actor can see or change shared state (a
commit, a broker call, the end of the process). The `map` of `PROJECT.json` gives the lines.
Operators called "Mutant of ..." stand beside the action they distort; no specification uses
them. Each shows, when it takes the action's place, that a property can fail.

**ScrapeSchedule.** `wait[s]` is `next_scrape_time` as the hours that are left, 0 when it has
passed or is NULL; `Tick` is one hour. `dpc` and `plan` are a dispatcher execution:
`AcquireLock` (`SET NX EX`), then per turn of its loop `SelectBatch`, `CommitBatch`,
`SendTask` for each source, `BatchDone`; `DispatchAborts` is a crash or an exception in any of
these. `LockLapses` is the key's expiry: no code deletes or renews it, so it may go while its
execution is still running; the ghost `outlived` counts these since a source fell due. An UPDATE
of one row alone that has been deleted raises (`CommitStale`); among several it goes unnoticed. A `scrape_source` message is
queued, then running with the frequency it loaded (`StartTask`), and ends through
`TaskSucceeds`, `RetryTask`, `DeadLetter`, their failing variants or `WorkerCrash`. The
query of the dispatcher reads neither `is_active` nor `is_deleted`, so a source that is
switched off or softly deleted goes on being scraped; the columns are therefore not in this
module, and soft deletion is no step of it. Nor are `last_error` and `last_scraped_at`, which
only users read. Intervals are symbolic: `Frequencies` and `Backoff` only have to be positive.
A dispatch takes seconds to minutes, so no hour passes inside one (the guard of `Tick`).

**RevisionPipeline.** A page is its content hash. A scrape goes fetch, compare, analyze,
persist, notify, ticket, and between any two of them other scrapes of the source may do
anything. `last` is the latest revision it *read*; by the time of the commit it may not be
the latest any more. The AI's verdict is a free choice. `CreateTicket` always ends in an
exception, as the code does (section 4); hence no scrape returns, and `raised` is the only
way out. Revisions are in
commit order; the code orders them by `scraped_at`, taken just before the insert, and two
scrapes that commit in the opposite order of their clocks are not distinguished.

**ChangeFeed.** Two variables, two actions: a revision is added (if with a diff, then against
an earlier revision with other content), a diff is announced that was not before. The
refinement mapping is the identity on `revs` and `outbox`.

**ScrapeJobs.** `job` is the table, `runner` the asyncio task of a job, gone after a
restart. `Trigger` is the whole endpoint: the 409 of the partial unique index and the 400 of
an inactive source are its guards. `TriggerCutShort` is the same request ending after its
commit and before the runner is spawned.

**ScrapeSystem.** Instances of the three components over a shared fault budget. A task or a job
names its scrape; `StartTask`, `TaskRaised`, `WorkerCrash`, `StartJob`, `JobRaised` and
`ProcessRestart` are joint steps of caller and scrape. The end of a scrape
that has raised is `ScrapeEnds`, not `RevisionPipeline!Release`: its caller may fail in the same
step, which counts as a fault. A source with revisions or jobs cannot
be deleted hard (foreign keys).

**RevisionNotifications.** An attempt loads members and rows (`Load`), mails the batch in any
order (`Email`, or `EmailUnconfirmed` when the server took the message and the connection
broke), writes all rows in one commit (`Commit`; `CommitStale` when a user deleted one of
them meanwhile) and publishes (`Publish`). `AttemptFails` leads to a retry, `WorkerCrash` to
nothing. Users read, edit and delete their rows at any time, and the membership changes.

**Billing.** `Stripe` (external) emits subscription, checkout, card, invoice and intent events;
`owed` are those it has had no 200 for. A worker takes one (`Deliver`, or `DeliverAgain` after
the answer) and goes `look` (which rows there are), `attach`, `update`, `refresh`, `sync`,
`mark`, `answer`, one for each commit or await of the handler. `Checkout`, `ChangePlan` and
`CancelPlan` call Stripe first and write later. The ghosts `version` and `overtaken` tell when
an older value was written over a newer.

**Accounts.** A secret (code, reset token, token pair) is the index of its entry in `issued`. Each
call to Redis or commit is a step, so two requests may hold one code. The row of `users`
and the keys expire or are deleted separately. Ghosts follow a secret: `used` once it has had its
effect, `lapsed`, `lost` to a failure, `swept` with the request that deleted it in place of its own
(the key of a code has one name, whichever code it holds). `root` is the sign-in a pair goes back
to. Redis's errors go two ways, as in the code: most are logged and the request goes on or is
answered with success (`RevokeLost`, `DenyLost`, `InvalidateLost`, the `...Unstored`), the rest end
it (`Fails`). A logout whose scan or deletion fails is answered with success, so it counts as one:
its sign-ins are `closed`, and those it left are `spared`.

**LoginLockout.** Check of the lock, check of the address, comparison of the password and
the counter's increments are steps of each attempt; all three keys expire.

**OAuthSignIn.** A callback is a sequence of awaits on Redis, the provider and the database.
`account` are the rows one person may come to have. Google's profile update writes over the
provider's id of whoever the row belongs to; that and two callbacks at once are the only ways
to a second account for Apple's user.

**Membership.** A request reads caller, roles and row (`UpdateMemberRole` ...) and commits later
(`CommitChange` writes the columns that differ from what was read). `CanManage` compares the
*names* of the roles, as the code does: only Owners can manage anybody. A removed row keeps
`is_active`, and with it its permissions.

**Projects.** `request` holds what was checked; the commit may meet a foreign key. A project's
deletion takes users and jurisdictions along, sources hold it back.

**Jurisdictions.** An update commits the row, reads the tree again and archives or restores the
subtree in a commit of its own; a move walks up before its commit. `outdated` are requests whose
read another commit has passed, `raced` two moves that walked at the same time.

**PageCapture.** What `RevisionPipeline` takes for granted: fast path and browser, the archive
named after the second, the hash that decides whether the AI is asked, what it is asked (`Extract`,
`Judge`), how often, and what a failed comparison counts as. A scrape keeps the revision it has read
(`last`) through all of it, while others commit. A text stands for its hash; what the AI
finds in a text is a free choice of `Facts`, also for a text it has read before.

**Realtime.** `Take`, then `Send` or `SendFails` for each recipient, then `Drop`. The bridge
can die of an unreadable event and comes back with a restart of the server.

**Forms.** A visit is one request with its background tasks, which run after an error too.

**Plans.** `StartServer` reads all rows, `SeedPlans` is the one commit of the columns that
differ from what was read; `Clashes` is the unique key, which ends the process.

**Identity, Workspace.** Their components share no state that one would not take from the other as
a move of its own (that an address is changed, that a jurisdiction is archived). A behaviour
chooses one part and moves it: all behaviours of each part, no products of them. They
exist so that TLC checks all parts under one specification.

## 3. Runs

| Run | Checks | Bounds, and why they suffice |
|---|---|---|
| `schedule` | `OneTaskPerDueCycle`, `NoSilentDrop`, `DueIsDispatched`, `TaskTerminates` | One source, two executions, batches of one, two task slots, two frequencies, one retry, one fault, one lock that lapses under its execution in each due cycle (`MaxOutlived`). The hazards need two executions, or an execution and a task that outlives the interval, on one source; sources do not interact except through the batch size. 157 thousand states, with four temporal properties, 90 s |
| `pipeline` | `DiffsAreReal`, `ChainUnlessOverlap`, `AnnouncedOnce`, `NoDiffForgotten`, `ImplementsFeed` | One source, two scrapes at once, two hashes, three revisions, one fault: enough for a stale comparison, a page that changes back, and a revision committed between read and commit |
| `jobs` | `OneActiveJob`, `RunnerOwnsActiveJob`, `FinalIsFinal`, `JobFinishes` | Two sources, three jobs (two compete for one source), one fault |
| `system` | `RetriesFindOneChange` | One source, one task slot, one job, one retry, two hashes, three revisions, one fault, no lock that lapses under its execution (a second dispatcher is the matter of `schedule`); a view drops what is only written. 745 thousand states, 60 s |
| `notifications` | `OneEmailPerAttempt`, `NoMemberForgotten`, `EventsAfterCommit`, `TaskEnds` | Two users, one retry, one fault; a deleted row gives a second reason to retry |
| `billing` | `UsageWithinPeriods`, `AnsweredWasApplied`, `FollowsStripe`, `CardsKept` | Two workers, subscriptions, customers, prices and cards, two events besides those of a request, one failure or repetition: two handlers, or a handler and a request, on one account, in either order, one of them failing. 1.2 million states, 90 s |
| `identity` | `OneTimeUse`, `NothingSpentInVain`, `LogoutEndsSessions`; `GuessesBounded`; `OneAppleAccount` | Two requests at a time in each part; three secrets and one failure; a limit of two passwords and two failing calls; three rows of users. Each hazard is a race of two requests or of one with an expiry or a failure. 1.6 million states, 140 s |
| `workspace` | `OwnerRemains`, `DeletedAlone`, `RemovedStaysRemoved`; `SourcesHaveAHome`, `OneSourcePerUrl`; `Acyclic`, `SubtreeTogether`; `ArchiveMatchesHash`, `ChangesAreFound`; `EventsArrive`; `WaitlistKeepsItsWord`; `CatalogueOfOneRelease` | Two requests at a time in each part; the creator and one user with two invitations; two jurisdictions and two sources of one URL; three jurisdictions in the forest (a circle through a third); two seconds, two revisions, two texts, two answers of the AI, one retry; two sockets, two events, one restart; one visitor; two servers and three plans of two releases. 355 thousand states, 170 s |
| `pipeline_returns`, `jobs_stuck`, `notifications_retry`, `accounts_refresh` | one property each, violated | section 4 |

What they show:

- Every due source has a task sent for it in the end, unless it is deleted, though the lock is
  never released by its holder, and though a batch may be dropped between its commit and its
  sends: then the source is due again when the time it was pushed by is over. It gets one task
  each time it falls due, and one more at most for each execution that outlived its lock
  meanwhile. The lock lives for 60 seconds by default, batches have up to 1000 sources, and
  nothing renews it, so such executions cannot be excluded; what the property says is that
  nothing else doubles a task: no crash, no lock left behind, no task that rewrites the column.
- Diffs are real and announced once at most, under any overlap of scrapes. A single chain of
  revisions is only kept while scrapes do not overlap; nothing in the code prevents overlap,
  and then two revisions can record the same change (two diffs, two notifications).
- The retries that follow each scrape (section 4) do not multiply its notification: the
  revision committed by the first attempt makes the second find an equal hash.
- The task of a revision ends, and tells every member, with one e-mail at most for each
  attempt. A user's deletion of a notification during the e-mails makes everybody in the
  batch get another one: the bound is per attempt and not lower.

- Billing: usage is never allowed outside a trial or a paid period; every subscription event
  that was answered has been applied; account and mirror end at what Stripe said last, *unless*
  an older event was written after a newer, which the code does not notice; one default card,
  unless two handlers recorded one at once.
- Accounts: what has had its effect, a code, a reset token or a refresh token, can be taken up by no
  later request, though all are read and deleted in two calls; the one exception is a refresh that
  goes on when Redis failed to delete the key. Requests that took it up together may all use it:
  the code allows that. No mailed code and no reset token goes for nothing: until it expires or is
  replaced it is there, or it is spent, lost to a failure, or deleted by a request that spends
  another of its kind, whose key has the same name. After a logout nothing from
  before can be refreshed, nor what an overlapping refresh hands out, *unless* Redis
  failed the logout, which is answered with success all the same. A person has one account, with the
  exceptions named in `OneAppleAccount`. The lock holds up to one guess for each request that
  was past its check.
- Workspace: the creator stays Owner, because only Owners pass the comparison of names; an
  invitation cannot bring back a removed member; an organization is deleted with nobody else in
  it but those who joined during the deletion. A source keeps its jurisdiction. The forest
  has no circle unless two moves walked it at once; a subtree follows its root unless another
  request committed in between. The archive is the page of the hash, unless two scrapes fall
  in one second. A reported change is found in the data, against the revision the scrape read,
  whatever the AI answered how often and whatever was committed meanwhile; an equal page
  keeps its data. A client gets each event it was owed in order, over other clients'
  failures and a restart. The plans are those of the release seeded last, after any deployments and
  rollbacks, unless two releases seeded at once; the next start repairs that.

Exceptions are part of a property's statement only where the code has the race; each was put
there by a counterexample of TLC.

`NoDiffForgotten` and `JobFinishes` speak of executions without faults, by their statement:
after a crash the code has no recovery for them.

Deadlock is checked in every run but `workspace`, where the bounded inputs run out: no more
seconds, events and revisions are left, and nothing is to be done.

**Fairness.** `ScrapeSchedule!Fairness`: beat fires the dispatcher every minute, so some
execution tries the lock again and again (weak fairness of `AcquireLock`); Redis expires keys;
an execution that has begun goes on; each message is taken and each running task ends (a
worker pool, and calls that time out or raise). Hours go by: `Tick` waits for executions that are
under way, and between two of them it is possible again and again, so strong fairness says no
more than that a clock does not stop. Nothing is assumed of users, faults or the outcome of a scrape. `ScrapeJobs!FairSpec`: the event loop runs each asyncio task.
`RevisionNotifications!FairSpec`: a worker takes the message and goes on with it.

## 4. Disagreements between the code and what it says

- `pipeline_returns`. `execute_scrape_job` promises a summary ("Returns: Dict[str, Any]: A
  summary of the scrape execution including status and changes"), yet awaits
  `ticket_service.create_auto_ticket` also when no change was found and `ticket_service` was
  not assigned; with a change, `create_auto_ticket` reads `jurisdiction.project.organization_id`,
  which `Project` does not have. Every scrape therefore ends in an exception after its commit:
  scheduled ones go through all retries into the dead-letter queue, manual ones end FAILED.
- `jobs_stuck`. A job is said to be tracked "from creation through completion or failure", and
  errors to be handled "gracefully". The commit of IN_PROGRESS and its publication are outside
  the inner `try`, and a restart loses the runner: the row stays active and its unique index
  refuses every later trigger.
- `notifications_retry`. "Send emails with retry logic": an e-mail that fails does not fail the
  attempt, so the task completes and the e-mail is not sent again.
- `accounts_refresh`. "Token rotation: Generate new access + refresh tokens, revoke old refresh
  token": `_refresh_access_token` stores a random `jti` instead of the one in the token it hands
  out, so the next refresh of the session is refused.

Seen while modelling and part of `Membership` (`NameOrder`), without a run of its own:
`can_manage_role` is documented for levels ("Can only manage roles at lower levels",
`src/app/api/utils/role_hierarchy.py:55`) and `validate_role_hierarchy` gives it role names (lines
189 and 200), so the order is alphabetical. Owners manage everybody else, as intended; an Admin,
who has the permission, manages nobody.

## 5. Proofs

Every invariant and action property of the passing runs, and the refinement, is a theorem for
every value of the constants: any number of sources, tasks, workers, users, requests, rows and
faults. What is assumed of the constants are the named `...Assumption`s, all facts of the code's
types: counts are natural numbers, a placeholder (`None`, `NoSource`, `"none"` of `Projects`)
is no value it stands for, the intervals of `ScrapeFrequency` and the time billing is observed
for are positive, scheduled tasks are no manual jobs. No theorem has another hypothesis.

The argument has one shape: types first, then an invariant that says what a *stored decision* (the
locals of a scrape, a request, a handler, a session) still knows of the shared state, with a
lemma for each kind of step.

| Module | Components | Theorems |
|---|---|---|
| `ScrapeSchedule_proofs` | the scheduler | `TypeCorrect`, `OneTask`, `NoDrop`; `OneTaskInSystem`, `NoDropInSystem` |
| `RevisionPipeline_proofs` | the pipeline, `ChangeFeed` | `TypeCorrect`, `RealDiffs`, `Announcements`, `Implements`, `Remembered`, `Chain`; `FeedInSystem`, `HistoryInSystem` |
| `ScrapeJobs_proofs` | manual jobs | `TypeCorrect`, `OneActive`, `Owned`, `Final`; `OneActiveInSystem`, `FinalInSystem` |
| `ScrapeSystem_proofs` | the three together | `SystemInvHolds`, `RetriesAnnounceOnce` |
| `RevisionNotifications_proofs` | the notification task | `TypeCorrect`, `EmailsBounded`, `NobodyForgotten`, `CommitThenEvent` |
| `Billing_proofs` | account and webhooks | `BillingKeepsTypes`, `UsageIsWithinPeriods`, `CardsAreKept`, `AnsweredEventsWereApplied`, `AccountsFollowStripe` |
| `Identity_proofs` | `LoginLockout`, `OAuthSignIn`, `Accounts`, then `Identity` | `GuessesAreBounded`, `AppleAccountsAreOne`, `SecretsWorkOnce`, `LogoutsEndSessions`, `NoCodeIsWasted`; `ConcernsBehave`, `IdentityTypes`, `IdentityKeepsItsPromises` |
| `Workspace_proofs` | `Membership`, `Forms`, `Plans`, `Projects`, `PageCapture`, `Realtime`, `Jurisdictions`, then `Workspace` | `FounderStays`, `RemovalIsFinal`, `NobodyLeftBehind`; `WordKept`; `OneRelease`; `SourcesAreAtHome`, `SourcesAreOnePerUrl`; `ArchivesMatch`, `ChangesAreGrounded`; `EventsDoArrive`; `ForestInvHolds`, `NoCirclesForm`, `SubtreesStayTogether`; the types of the first three; `PartsBehave`, `WorkspaceTypes`, `WorkspaceKeepsItsPromises` |

**Scraping.**

- Scheduler. `NoDrop` follows from the actions. For `OneTask`, `Locked`: the executions under way
  are no more than the lock and the locks they outlived. `SentOrHeld`: no task has been
  sent for a source that is due, and the tasks sent since it fell due, together with the executions
  that have selected it and not sent yet, keep within the bound. The count of tasks alone is not
  inductive, since `SendTask` does not look at the row. A new execution selects a source only while
  it is due, when nothing has been sent.
- Pipeline. `FeedInv`: `last` is an index of the committed history, and a verdict was only asked
  for if the hash of that revision differs. History only grows, so what a scrape read stays true
  of the prefix. `RealDiffs`, `Announcements` and the refinement `Implements` follow.
  `Remembered` carries along who still has to announce. `Chain` adds that, without overlap, at
  most one scrape is uncommitted and `last` is the end of the history.
- Jobs. `OneActive` needs `Owned`: `Start` and `Finish` write a status without looking at
  the old one, so uniqueness rests on each runner's job being active already.
- The system. `SystemInv` gives each caller its scrape (`Partners`: on the task's source), keeps
  scrapes of a never overlapped source alone until they commit (`Lonely`), says what they judged
  of the latest revision (`Judgements`), and that once an attempt has committed the page as it is,
  revision and every fetched hash agree with the page (`FoundOnce`). So the next attempt finds its
  hash and no diff.
- The components *in* the system (`...InSystem`). Their specifications are not implied as they
  stand: the faults are one budget, a restart ends several scrapes at once, a failing caller ends
  one. Each step of the system is a step of the component or one of the steps `Elsewhere`
  describes, which leave its tables alone; the component's invariant is shown to survive both. So
  the scheduler's, the jobs' and the feed's promises hold of the composition, the refinement of
  `ChangeFeed` included, though TLC checks them on the components.

**Notifications.** `MailInv` counts e-mails by attempts, the current one included once the loop
has visited the user. `RowInv` relates committed rows, the session's copies and the inboxes.

**Billing.** `BillingTypes` says of each worker what its step is about (a handler of a
subscription event has an event of that kind, ...), and that a paid period was announced by some
event; `UsageIsWithinPeriods` needs no more. `CardsSafe`: as long as recordings did not overlap,
one worker at most is past its look at the cards, what it looked for is still absent, and it clears
the default before it inserts. `FollowInv` is about versions. Whatever is written carries the number
of the event it is from, and no answer is given before account and mirror are at least that far.
Until an older event is written over a newer, whoever has the last version has its values, in
the tables or in a handler's snapshot. Answered events are applied because the marking follows
the writing, and because a repetition finds the mark or writes again.

**Accounts and sessions.**

- `LockoutInv` weighs guesses against the failures counted, the requests between the comparison
  and the counter, and the calls that failed; once the lock is up, against the requests that were
  past its check. `OneMoves` says how the number of requests at a place changes.
- OAuth: `AppleRows` says that Apple's user has one row, with Apple's id, as long as neither race
  happened; `CallbacksOK` what a callback holds at each await.
- `Accounts`: `SpentOnce` strengthens `OneTimeUse`: neither what has had its effect is to be had,
  nor what a request is past the deletion of and about to give its effect. Keys only
  come with new secrets, so nothing spent comes back. `LoggedOut` rests on `Rooted`: every
  key is that of a sign-in, since the key a refresh stores is no token's (section 4); so what the scan
  of a logout has not seen is younger than the logout. `NoneWasted`: each mailed secret is
  accounted for, and a request about to delete the code's key has used its own token, so that
  what it sweeps away has its place.

**Workspace.**

- Membership: what a request decided on is old when it commits. `FounderStays`: no stored change is
  about the creator's row, since no role's name comes after "Owner" in the order the names are
  compared in, and whoever manages anybody has a row, so the creator has theirs.
  `RemovalIsFinal`: no stored change clears `deleted`, and who joins had no row.
  `NobodyLeftBehind`: the count finds the caller alone, the creator is always counted, and
  who joins from then on is noted.
- Forms: an address being confirmed is listed, and rows are never taken out; so no failure after
  the insertion can make a promise false. Plans: a row a starting server has read is there at its
  commit, which writes, column by column, the release's value, or nothing when the row had it already.
- Projects: a jurisdiction has its project and a source its jurisdiction, held by the foreign keys
  at the commit and not by the earlier look (`HomesHaveAProject`). A pair of jurisdiction and URL
  with two sources is among those a race, an edit or one bulk request has made
  (`DoublesTolerated`).
- PageCapture: the name of an object is the second of the fetch. `NamesCounted`: a name counted
  once has one holder, a scrape or a revision; `PagesArchived`: its object is that holder's page
  from the moment it is stored. No other write can be under that name. `DataGrounded`: while a scrape
  has the AI look at a page, the page differs from the revision it has read; revisions are only
  added, so what it was compared with stays what it was.
- Realtime: what a client received, the event being sent and those in the channel are in
  order, and what it is owed and did not receive is on its way (`EventsInOrder`,
  `EventBeingSent`, `DebtsPaid`). A failing send moves no other client's event.
- Jurisdictions: `ForestInv` keeps a walk up (`StillAbove`) and a subtree that was read
  (`StillSubtree`) true of the forest as it is, unless another commit came in between, and one
  mover past its walk unless two raced. The rows above a row (`Up`) and below one (`Descent`) are
  values of recursive functions of the depth. That they are closed, that a walk of as many levels as
  there are rows reaches all, and that a move of a row under one that is not below it closes
  no circle, is argued by the least depth at which it would fail (`LeastNumber`, from the well-founded
  order of the numbers), and by sets that cannot grow more often than they have elements.

**Compositions.** `Workspace` and `Identity` move one part at a time. `PartsBehave` and
`ConcernsBehave` show that a behaviour of the composition is one of each part, so
`WorkspaceKeepsItsPromises` and `IdentityKeepsItsPromises` state all properties of the runs
`workspace` and `identity` of the very specifications TLC runs.

**Only model-checked:** the liveness properties `DueIsDispatched`, `TaskTerminates`,
`JobFinishes` and `TaskEnds`. Fairness is about ENABLED, which the prover does not handle. The
provers cannot instantiate the library's induction schemes, which take an operator, nor use SMT
beside `RECURSIVE` definitions; the models therefore write recursion as functions, and the
proofs use least counterexamples where one would use induction.

## 6. Not modelled

- **Cookies.** The tokens travel in cookies, host cookies or cookies of the domain, that a browser
  keeps by rules of its own: which of two people's cookies stand side by side is decided there.
- What a page, a summary or an e-mail says; names, titles, settings and profile fields; lists,
  searches and other reads.
- **Tickets, participants, guests.** `create_manual_ticket` reads `revision.change_diffs`, which no
  model defines (`tickets/service/ticket_service.py:152`), and automatic tickets always fail
  (section 4): no ticket ever exists, so nothing of this component can run.
- **API keys.** Every key-management route calls `.get` on a `User`
  (`src/app/api/utils/permissions.py:78-81`) and ends in an error. Keys only come from
  `POST /webhooks/onboard`; they cannot be revoked, and the hourly rotation finds none with
  `rotation_enabled`. The external routes read.
- **Rate limiter.** `src/main.py:121-126` excludes the path `/`, and exclusion is by prefix: no
  request is counted.
- **Source discovery, search, profile pictures.** One call or one upload for each request, no
  state that another operation reads.
- Functions no route, task or module calls: among them `verify_otp`, `store_otp` of
  `redis_service`, `logout_service`, `resend_invitation`, `sync_subscription_from_stripe`,
  `set_default_payment_method`, `billing/tasks.py`, and the guard of paid usage, whose first
  line returns.
- Seen on the way and not stated as properties, because no document of the repository says
  otherwise: the waitlist's confirmation is sent twice; the contact form's e-mails go out when
  the row could not be saved; audit rows of failed sign-ins are rolled back with them; an error of
  Redis ends the relay until the server restarts; a removed member keeps its permissions and its
  place in projects; a password reset leaves the sessions open; a logout is answered with success
  though Redis failed to invalidate the refresh tokens (`auth/service/login_service.py:485`, `:521`);
  the dispatcher's lock is not renewed (`scraping/service/tasks.py:237`); a request may delete
  a newer code than the one it was made with (`auth/service/reset_password.py:81`).

## 7. Plan

1. The types of `Projects`, `PageCapture`, `Realtime` and of each part of `Identity` are lemmas of the
   invariants and stated for the compositions only.
2. An abstract specification of what an account promises (a code works once), with `Accounts`
   shown to implement it outside of its exceptions.
3. The consumer of the feed: the queue of `RevisionPipeline` as the source of the messages of
   `RevisionNotifications`, so that "a diff is announced once" and "a member is told" become one
   property of both.
