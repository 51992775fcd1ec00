# A verification of kyc-compliance-desk

TLA+ modules that follow the code of the repository, TLC configurations that check
them on small instances, and theorems that TLAPS proves for every size of them.
Source paths below are relative to the repository's root.

## 1. The system

Two services share one Postgres and speak only through it.

* **web** (`web/src`, Next.js): the applicant's pages, the vendor's webhook route, the
  review desk, the seeder's tick, statistics and health pages.
* **worker** (`worker`, Python): takes rows of the `jobs` table and runs their handlers,
  as a loop (`worker/main.py`) or as a bounded drain of a serverless function
  (`api/drain.py` over `worker/batch.py`). In production drains are started by cron and
  by a *nudge* from the web service, so several may be alive at once.

The worker's connection is in autocommit mode (`worker/db.py`): a statement outside
`conn.transaction()` commits by itself. Everything runs at READ COMMITTED, so a plain
SELECT locks nothing and what it read may be stale when it is used. The database itself
carries rules: triggers and constraints of `db/migrations`.

### Inventory

| component | state it keeps | operations | interacts with | what is hard |
|---|---|---|---|---|
| job queue (`worker/jobs.py`, `runner.py`, `web/src/lib/jobs.ts`, migrations 008, 011, 016) | rows of `jobs`: status, attempts, run_after, locked_at | enqueue, claim, complete, fail, reclaim | every handler; both services insert | several workers; death between any two statements; a lease that is shorter than the job; one statement over many rows under a partial unique index |
| worker runtimes (`worker/main.py`, `batch.py`, `api/drain.py`) | phase, job held, jobs served | start, ensure recurring jobs, reap, claim, stop, die | job queue | kills, overlapping drains |
| retention (`worker/retention.py`) | none of its own | delete old done rows, schedule the successor | job queue | a recurring job that inserts a row of its own type while it runs |
| application life cycle (`worker/lifecycle.py`, `result_handler.py`, migrations 010, 017, 027) | `applications.status`, vendor columns | apply or refuse a vendor result | webhooks, sweep, screening | order of results, stale reads |
| verification sessions and webhooks (`web/src/lib/validation.ts`, `applications.ts`, `verification.ts`, `didit.ts`, the webhook route, `worker/vendor.py`) | applications, vendor sessions, stored events | apply, start a session, receive an event, ask the vendor | the vendor, job queue, connection pool | lost, late, repeated, concurrent, reordered deliveries; a session made and not recorded |
| connection pool and simulated vendor (`web/src/lib/db.ts`, `mock-vendor.ts`, `api/mock-vendor`) | connections lent, the vendor's results | connect, commit, roll back, conclude, notify | every request of the instance | a request that calls a route of its own instance while both draw on one pool |
| sweeper (`worker/sweeper.py`) | not-found answers (audit rows) | ask about waiting cases, close, expire | life cycle, vendor | it competes with webhooks; fairness among many cases |
| screening and routing (`worker/screening_handler.py`, migrations 020, 022) | risk columns, screening results | search, score, refer or decide | list, desk | seconds between read and write |
| review desk and synthetic reviewer (`web/src/lib/decisions.ts`, `desk/[id]/actions.ts`, `api/seed/tick/route.ts`, migrations 007, 023, 026) | rows of `decisions` | decide | screening | a choice made on what was read before the lock |
| sanctions list loading (`worker/screening/sources.py`, `load_sanctions.py`, `store.py`, migrations 018, 019) | snapshots, entries, names, tokens | register, load, force, take the active snapshot | screening | overlapping loads, a load that dies |
| name matching (`worker/screening`) | none (pure) | align name parts, compare identifiers | screening | greedy alignment, a pre-filter that may disagree |
| risk scoring (`worker/scoring.py`) | none (pure) | signals, score, routing | screening | thresholds, overriding rules |
| staff sessions and login (`web/src/lib/session.ts`, `login/actions.ts`) | a cookie, failed attempts per client | sign in, sign out, expire | the desk | a window that starts anew, a restart |
| pages and statistics (`desk`, `desk/[id]`, `status/[id]`, `stats`) | what a browser shows | load, filter, move a cursor, refresh | all tables | several queries, each of its own snapshot; pages that are old when used |
| audit log (`worker/audit.py`, `web/src/lib/audit.ts`, migrations 005, 006, 024) | rows of `audit_events` | append | every writer; read by the pages | a row without its change, or the other way round |
| seeding (`api/seed/tick`, `worker/seed.py`, `trickle.py`) | none of its own | tick: create, verify, review | all of web | one failing step among several, an overlapping tick |
| nudge (`web/src/lib/nudge.ts`) | none | call the drain after a commit | job queue | it may be refused, lost or slow |
| schema migrations (`db/migrate.py`) | applied versions | up, `--only` | the roll-out of both services | constraints that old code breaks |
| scripts (`web/scripts`, `scripts`) and data | | replay a webhook, demonstrate, download | webhook route | |

What makes each correct:

* *queue*: a job is executed by one worker at a time, its effects land once, a job that
  fails or kills its worker is given up after a bounded number of attempts, every job
  settles, recurring jobs recur for ever;
* *case*: a result never replaces a newer one, a case in screening is never left without
  a screening to come, it gets one verdict on evidence that does not change afterwards,
  and every waiting case comes to an end without any webhook;
* *list*: screening searches whole lists and never an older one than before;
* *intake*: a message that is answered 200 is stored with its one job, only sound messages
  are stored, requests cannot exhaust the pool by waiting for each other, and the trail of
  an application tells what happened to it;
* *desk*: an officer's verdict is recorded on the score that was shown, however old the
  page; the applicant is told one story that never goes back; what pages and statistics
  say agrees with the tables; old referrals are reviewed;
* *login*: the number of failures in the time of a window is bounded;
* *scoring*: the system alone decides nobody with a sanctions hit, and refuses nobody for
  one reason.

## 2. Modules

| module | what it is | lines of code it stands for |
|---|---|---|
| `Delivery` | abstract: what the queue promises whoever enqueues | |
| `JobQueue` | the jobs table, loops, drains, recurring jobs, retention | `worker/jobs.py`, `runner.py`, `main.py`, `batch.py`, `retention.py`, `sweeper.py` (its successor), `api/drain.py` |
| `JobQueueProofs` | theorems about `JobQueue` | |
| `Adjudication` | abstract: what the record of a case promises an auditor | |
| `CaseFile` | one application and all that changes it | life cycle, webhooks, sweep, screening, desk, reviewer, triggers |
| `CaseFileProofs` | theorems about `CaseFile`, with the order of results | |
| `Scoring` | `CaseFile` with the rules that score an applicant | `worker/scoring.py` |
| `Dossier` | the pages that explain a decision by the matches on record, over `Scoring` (operators) | `desk/[id]` (its matches), `desk/rulesets` |
| `DossierProofs` | theorems about `Scoring` and `Dossier`, over the invariant of `CaseFileProofs` | |
| `ListLoader` | loading the versions of a list | `sources.py`, `load_sanctions.py`, `store.py` |
| `ListLoaderProofs` | theorems about `ListLoader` | |
| `Selection` | what a query keeps of a sequence (operators): WHERE, in the order of the rows | |
| `BoundedSets` | lemmas that several proofs use: the greatest of a bounded set, the n-th in an order, what `Selection` keeps | |
| `Intake` | the requests of one web instance, their pool, the vendor and its simulator | `apply`, `verify/[id]`, webhook route, `mock-vendor`, `db.ts`, `didit.ts`, `validation.ts`, `verification.ts`, `nudge.ts`, the seed tick, `replay-webhook.ts`, `demo-flow.ts` |
| `IntakeProofs` | theorems about `Intake` | |
| `Pages` | what the pages make of the rows they read (operators) | `desk`, `desk/[id]`, `status/[id]`, `stats` |
| `Login` | signing in, the cookie, the window of failures | `session.ts`, `login` |
| `Sweeper` | the sweep over many applications | `sweeper.py`, `vendor.py`, the batch's part of `lifecycle.py` |
| `SweeperProofs` | the theorem about `Sweeper` | |
| `Desk` | `Pages`, `Login` and `Sweeper` with the people in front of them and the tables behind | `desk`, `decisions.ts`, `auto-refresh.tsx`, the tick's reviewer, triggers |
| `DeskProofs` | theorems about `Desk` and `Login` | |
| `MCJobQueue`, `MCCaseFile`, `MCListLoader`, `MCIntake`, `MCDesk`, `MCSweeper` | instances for TLC | |

`JobQueue` and `CaseFile` compose by contract rather than by state. `JobQueue` leaves
open what a handler does (commit, raise either kind of error, die); `CaseFile` takes from
it that a job is pending until it is done or parked, that its effects commit with it,
that it is tried at most `MaxAttempts` times, and that it is claimed in the end.
`ListLoader` gives `CaseFile` the active list, which only moves forward unless
`--force` is used; `CaseFile` assumes that it is not. `Intake` ends where `CaseFile` begins:
it enqueues the job of a stored webhook and hands a result to the vendor's record, and
`CaseFile` runs the one and asks for the other. `Desk` implements `Adjudication` too, for
every one of its cases: it takes the worker's transactions as single steps, since
`CaseFile` has their interleavings, and adds what `CaseFile` has not, several cases at once
and people who act on what they read some time ago.

### JobQueue

`status`, `attempts`, `stale` (locked_at older than `STALE_SECONDS`) and `aged`
(completed_at older than the retention) are the rows; `turn` is the rank of `run_after`
among the rows that are due, kept dense so that it is bounded (rows not due yet have rank
0 and one action, `RunAfterPasses`, puts them at the end: backoff and schedule are delays
of unknown length). A slot of `Jobs` is reused after retention deleted its row. `phase`,
`held`, `seen` (the worker's copy of `attempts`) and `served` are the processes; that a
drain never claims more than its limit is part of `TypeOK`.

A statement is an action (`Enqueue`, `Claim`, `Reap`, `Retry` and `Park` under `FailJob`),
and the transaction of `run_job` (handler's writes and `complete_job`) is `Commit`.
`Die` is a process killed at any point: an open transaction leaves nothing. `FailJob`
writes by id and the worker's own attempt number, as `fail_job` does, and so may hit a row
that is not its own any more when `Overrun` is allowed. `ReapRefused` is the reclaim that
breaks the unique index: a drain answers 500, a loop goes round.

Left out: `last_error`, `locked_by`, logging, the cap of 5,000 rows per run of retention,
a failure of `ensure_recurring` at the start of the loop (it is logged only), the check
for a sanctions list at the start of the loop, HTTP authentication.

### CaseFile

`row` is the application, `decisions` its decisions in order, `reported` what the vendor
has said in the order of the vendor's clock (a result is named by its position, which is
also its time), `inbox` the webhook job of each result, `screens` the screening jobs,
`run` the handler executions between their read and their commit: the row each has `seen`,
the vendor's `answer`, the assessment it `found`. `list` and `ruleset` are the versions in
force, `missing` and `anHourOn` the not-found answers on record, `pick` the synthetic
reviewer's choice, `heard` a history variable: the result that was applied last.

A handler's read, its answer and its write are separate steps, so everything else may
happen in between; the write is one step because its first statement locks the row until
the commit. `recordDecision` takes the row lock before it reads and is one step. The
triggers and constraints appear as guards: `Permits` (017), `Unfrozen` (020),
`EvidenceStuck` (023), `Scored` (022); where one refuses, the execution fails
(`FailAsking`, `FailScreening`), which is also what a crash or an unreachable vendor is.

What a score depends on is the constant `Finding` (of vendor status, list and ruleset)
with `Score` and `Routing`; `Found` are the hits it is made of. `matches` are the rows of
`screening_results`: storing an assessment stores its hits in the same transaction, one row
for each entry of the list, and the first one stays (`MatchesWith`), so that the rows of
several screenings gather there. Left out of a row: its second key (`source`; there is one)
and the columns that repeat the entry of the list.

A sweep is what it does to this one application; whom it takes into its batch is
`Sweeper`'s subject. Left out: audit rows (but the count of not-found answers), which
`Intake` and `Desk` have.

### Scoring

A profile is a country's standing, the vendor's status and the hits of the list search in
order. `MatchSignal`, `score_document_check`, `score_country` and `Candidates` are the
rules, `score_application` puts them together. `ScoringAssumption` ties them to `CaseFile`:
what screening may find is what `score_application` makes of some profile, with its score
and routing. A hit names the entry of the list that was found, which costs nothing and is
what `Dossier` needs. So `AutomaticVerdictsStand` speaks of the decisions of the running system and
not of the function alone. `MCCaseFile` gives profiles: a list on which the applicant
appears later, three times (the same name with another date of birth, a similar name, a
politician), a third list on which somebody else took the place of the similar name, which
does not show in the signals, and a ruleset that counts the country. Declined documents and
a counted country add up to 80 exactly, so that the property meets the threshold. Left out: which of the
identifiers conflict (a hit is contradicted or not), and the sentences.

### Dossier

`MatchesPanel` is what the case page makes of the matches, `RulesetsPage` the page on which
an auditor looks up what was decided under a version of the rules, with the lists of each
case. `DecisionsAreBacked` relates the three places a decision is explained in: the score
that was frozen with it, the matches, which go on growing, and the list that both pages
name. Left out: how a ruleset's country lists were sourced, and the page's limit of 200
decisions.

### ListLoader

`snapshots` are the registered versions in the order of `downloaded_at`, `stamped` those
with `entries_loaded_at`, `rows` the committed rows in each of the three tables, `ids` the
id of a version's entries, `lock` the advisory lock, `loader` the runs of
`load_sanctions.py`. One entry stands for all entries of a version. `Unstamp`, `Register`
and `FindLoaded`/`FindMissing` are statements in autocommit; `BeginLoad` to
`StampAndCommit` is one transaction, whose COPYs nobody sees before it commits. Left out:
download and parsing, `setval` of the sequences.

### Intake

A request of `req` is a process: its `kind`, where it is (`at`), on whose behalf (`by`),
and its answer (`got`). `lent` are the requests that have a connection of the pool,
`size` what the rest of the service leaves of it. A transaction is one step at its commit,
with the connection taken before (`Connect`) and given back with it; the webhook's alone
is three (`InsertEvent`, `CommitEvent`, `AnswerEvent`), because its INSERT makes a second
delivery of the same event wait (`Conflicts`). A call to the simulated vendor is a request
of its own that the caller waits for, and so is the webhook that the simulator sends.
`sessions`, `results` and `sent` are the vendor's, `Messages` the ways in which a copy of a
message may arrive (signature, age, body), at any time and any number of times.
`Restart` ends every request at any step; `ConnectTimesOut`, `CallFails` and `RollBack` are
the failures the code handles. `MovesOn` stands for the worker, which takes an application
on. The form's dates are translated with what JavaScript does to a day the month does not
have. Left out: the HMAC itself (a message's signature is valid or not), the other fields
of the form, the markup.

### Sweeper

`file` and `vendor` are the status of each application and what the vendor says of its
session, `due` those that have waited for `SWEEP_STUCK_MINUTES`, in the order of
`updated_at`, `asked` the order of `last_asked` (a set for each sweep, since the rows of
one transaction carry one time), `answers` and `hourOld` the not-found answers, `monthOld`
how many applications are older than `ABANDONED_EXPIRY_DAYS`, `sweep` the batch under way.
`Line` is the ORDER BY of `_stuck_applications`. A sweep is one transaction: it reads at
`SweepStarts`, asks about one application after the other (`SweepAsks`) and what it wrote
is there at `SweepCommits`, or not at all: an answer that `except VendorError` does not
catch ends it (`SweepRaises`), and so does a trigger or a death (`SweepIsLost`). Webhooks,
applicants and the vendor act at any moment between. Left out: the order of results and
the times they carry, two sweeps at once (`CaseFile` has both), the row locks a sweep holds
while it goes on, the `sweep.completed` event.

### Pages, Login and Desk

`Pages` has one operator for what a query or a component computes, over a record of the
rows of one application. `Desk` has the tables (`cases`), the order of the queue, the
officer's browser (`tab`), the applicant's (`phone`) and the tick (`tick`). A page that
loads collects in `seen` each version of its case that is committed meanwhile, and is
built from any choice of one version for each of its queries (`Render`, `Refreshed`). An
officer's `Decide` is `recordDecision` on what the table then holds. One of its scenes is
the sweep of `Sweeper`, another the login: they share the run, not the tables.

`Login` counts with a history variable, a stopwatch that is started at any moment. Left
out: the medians, charts and sample labels of the statistics, the page of rulesets, the
health page, search by name beyond one row.

## 3. Runs

| run | shows | bounds |
|---|---|---|
| `queue_safety` | exclusive claims, effects exactly once, no endless retry, the queue implements `Delivery`, for jobs that keep their lease; at most 2 × MaxAttempts − 1 claims for those that do not | 1 one-off and 2 recurring slots, one of which may outlive its lease, a loop and a drain of 2 jobs, 3 attempts, any handler may fail or kill |
| `queue_liveness` | every job settles, the recurring job runs again and again | 1 one-off and 3 recurring slots; the one-off job may fail or kill for ever |
| `queue_rescue` | **violation**, finding 1 | drains only |
| `case_safety` | one verdict, frozen evidence, nothing stranded, reviews fit, automatic verdicts stand, decisions are backed by the matches shown, the case implements `Adjudication` | 2 executions, 1 result, 3 lists, 2 rulesets, 2 attempts |
| `case_liveness` | every waiting case ends, all webhooks lost if need be, the vendor saying "In Review" first, 2 not-found answers, jobs parked at the first failure | 1 execution, 2 results |
| `case_race` | **violation**, finding 2 | 2 executions, 2 results |
| `case_correction` | **violation**, finding 3 | 1 execution, 2 results |
| `list_safety` | whole lists, repeatable loads, no id collisions, never an older list | 2 loaders, 3 versions, force allowed |
| `list_force` | **violation**, finding 4 | 1 loader, 2 versions |
| `intake` | stored once and soundly, the pool is not exhausted by waiting, results are on record before their news, the trail is whole, adults only, every call is answered | 2 requests of any kind, 1 application, 2 sessions, 1 message, 1 result, a pool of 1 or 2, six ways a message may arrive |
| `desk` | shown is decided, told once, counted once, the record agrees, cases keep their promise, old referrals are reviewed, failures are limited, what nobody will finish is closed | six scenes: three queued cases and an officer; one case with an officer, or an applicant, and all that changes it; two with the reviewer's tick; the login with 3 attempts and a window of 3; a sweep of 2 over 3 applications, closing after 2 answers |
| `sweep_starved` | **violation**, finding 5 | 3 applications, two with a status the worker does not know, a sweep of 2 |

Why the bounds are enough for what is asked: two attempts distinguish "tried again" from
"given up" (`MaxAttempts` is 5 in the schema and nothing looks at another value than the
last); two workers are enough for a race on a row, a loop and a drain because their code
differs; three recurring slots give a running job, its successor and one that a racing
start inserts; two executions are enough for a stale read, two results for an order; three
applications and a batch of two for a line longer than the batch; a second list and a second ruleset are enough for a
re-screening that finds something else, and a third list for one that finds somebody else
and charges the same; two requests are enough for one that waits for the
other, and for two deliveries of one message; a pool of one is the least with which any
request can work, of two the least with which both hold a connection; three rows of a queue
are enough for a first, a last and one between; the scenes of `MCDesk` keep apart the
people whose pages do not depend on each other, and each is met by everything that changes
the tables. `MaxReviews` is 1 and `MinForStats` 1, where the code has 4 and 20, so that two
cases fill a batch. `CHECK_DEADLOCK FALSE` stands in the case, intake and desk runs: a case
that is decided or closed is at its end, the bounds of intake end with its messages, and a
scene ends with its cases.

`Runs` are interchangeable (`RunSymmetry`), so are loaders and versions, and the
requests of `Intake`; symmetry is used in safety runs only.

`Overrun` exists because the code admits it: `_check_timeouts` in `worker/main.py` only
warns when `STALE_SECONDS` is less than the longest job may take. Exclusivity and
exactly-once are lost for such a job; the run shows that its retries end all the same
(`OverrunsEnd`), and that the jobs beside it keep their guarantees.

### Fairness

* `JobQueue`: the scheduler starts drains again and again and the platform restarts
  loops; a running process takes its next statement; a claimed job ends, since vendor
  calls have timeouts and functions a time limit; time passes. A loop looks at its reap
  timer before each claim: strong fairness of `Reap` and `Claim` there.
* `CaseFile`: that jobs are claimed and the sweep recurs is what `queue_liveness` shows; a
  step that is repeated for ever succeeds at some time (strong fairness of `Ask` and of
  the writes); the vendor concludes; an hour passes. Nothing is assumed of webhooks, the
  applicant, officers or the reviewer.
* `Sweeper`: the sweep recurs, as a job of `JobQueue`, and its calls end, since they have a
  timeout (weak fairness of its steps); a sweep that ends again and again commits at some
  time (strong fairness of `SweepCommits`); time passes. Nothing is assumed of the vendor,
  webhooks and applicants, so what keeps a sweep from the forsaken is in the property:
  `CrowdedOut` (as many silent ones as a batch has places) and `OneHangs`. That the sweep
  reaches the case of `CaseFile` presumes that neither holds.
* `Desk`: days pass; the scheduler starts ticks again and again and a tick that runs ends
  (weak fairness of `TickLists` and `TickEnds`); a review that stays due succeeds at some
  time, though single ticks may die (strong fairness of `TickDecides`). Officers, applicants
  and the worker are free to do nothing.

## 4. Proofs

All theorems hold for any constants that satisfy the modules' assumptions, and the
assumptions say what a constant is (a finite set, a number above zero, a part of the legal
status changes) and what ties one module's constants to another's (`ScoringAssumption`);
where a theorem has a hypothesis of its own, it is named below. Every invariant and every action property that a passing run checks is a theorem.

| module | theorems |
|---|---|
| `JobQueueProofs` | `TypeCorrect`, `ClaimIsExclusive`, `EffectsExactlyOnce`, `RetriesAreBounded`, `QueueDelivers`, `OverrunsAreBounded` |
| `CaseFileProofs` | `TypeCorrect`, `OneVerdict`, `EvidenceStaysFrozen`, `ReviewsFit`, `NothingIsStranded`, `CaseIsAdjudicated`, `SerialResultsInOrder` |
| `DossierProofs` | `SystemVerdictsStand`, `DecisionsStayBacked` |
| `ListLoaderProofs` | `TypeCorrect`, `ListsAreSearchedWhole`, `LoadsAreWhole`, `IdsDoNotCollide`, `ListsMoveForward` |
| `IntakeProofs` | `IInvCorrect`, `TypeCorrect`, `TakenOnceCorrect`, `OnlySoundCorrect`, `LentCorrect`, `NewsCorrect`, `AnswersCorrect`, `TrailCorrect`, `AdultsCorrect` |
| `SweeperProofs` | `SweepAsksOnce` |
| `DeskProofs` | `DeskTypeCorrect`, `ShownCorrect`, `RecordCorrect`, `ReportsCorrect`, `PromiseCorrect`, `CountsCorrect`, `ToldCorrect`, `FailuresCorrect`; of the login alone `LoginTypeCorrect`, `WindowHolds` |
| `BoundedSets` | lemmas only |

* **`JobQueueProofs`**. `TypeCorrect` needs nothing else. The others speak of the jobs of
  `Leased`, for every choice of `Overrun`: what outlives its lease does no harm to what
  keeps it. That none outlives it is what the comment on `STALE_SECONDS` asks of an
  operator. `ExclusiveClaim` is not inductive: that a claim cannot take a held job needs
  that a held row is `running`, that a reclaim cannot take it needs that stale rows have
  no holder, and that a retry does not start beyond the limit needs that the worker's copy
  of `attempts` is the row's. `IInv` collects these (`OwnsRow`, `NoSharing`,
  `StaleIsOrphaned`, `HoldsWhileRunning`, `SlotsStartFresh`) with exactly-once and the
  retry bound. `ClaimIsExclusive`, `EffectsExactlyOnce` and `RetriesAreBounded` follow;
  `QueueDelivers` shows that every step maps to a step of `Delivery` or a stutter.
  `OverrunsAreBounded` is about every job, leased or not. A reclaim ends with the attempts,
  so beyond `MaxAttempts` only a worker with an earlier attempt number puts the row back,
  and it loses its hold by that. No two workers of a row have the same number
  (`AttemptsDiffer`), hence at most `MaxAttempts - 1` such workers remain when the attempts
  are used up, and each further claim costs one of them (`RetriesLeft`).
* **`CaseFileProofs`** needs `CaseFileAssumption` only: any scoring, any routing, any
  number of executions, results, lists and rulesets. `TInv` is the typing layer: a queued
  job has an attempt left, an execution belongs to a job that is there, knows an answer
  the vendor has given, and stores only what it found for a case it read in screening.
  `CInv` is the rest:
  * `ScoredIsRouted`: a case has a score exactly when it has a decision, and then the
    referral or verdict that its score calls for. Without it a screening that runs again
    could record something: `_store_assessment` compares score and signals and not the
    ruleset, so the freeze trigger does not stop a second screening with the same finding;
    what does is that `_route` finds its decision there.
  * `ReadsAreOld`: what an execution read of score and screening is still so; a handler's
    unlocked read is harmless here because neither goes back.
  * `JobsHeld`, `Kept`: a screening execution has its running job for itself, and a case in
    screening without a referral has a job not taken yet or an execution that read it in
    screening. `NeverStranded` alone is not inductive: the one job left might be run by an
    execution that read the case too early and skips it.
  * `PickFits`: the reviewer's choice fits the score, which is frozen by the referral.

  `OneVerdict`, `EvidenceStaysFrozen`, `ReviewsFit` and `NothingIsStranded` follow.
  `CaseIsAdjudicated` maps every step to `Adjudication`: `StoreScreening` of an open case
  to `Refer` or `DecideAutomatically`, `RecordDecision` to `DecideReferral` (a case with a
  score and no verdict was referred), a move to an off-ramp to `CloseWithoutFinding` (a
  case that can still move has no decision), everything else to a stutter.
* **`SerialResultsInOrder`** of `CaseFileProofs` assumes `Serial`: one execution at a time, and answers that carry
  their time, as the simulator's do. `ResultNeverOlder` compares the result that is written
  with the last one; what carries it is that the time on the row is that of the result
  applied last (`heard = row.resultAt`), which holds because an execution that is under way
  has read that very time, and because what it applies is a result and not "Not Started": a
  webhook's session has one, and a sweep's case does not go back (`InOrder`). Finding 2 shows
  that `Serial` is needed.
* **`ListLoaderProofs`** needs `ListLoader`'s assumptions only. The invariant adds to the
  properties that the advisory lock has one holder (`LockHeld`), that an id reserved under
  it is greater than any committed one (`IdIsNew`, `IdsBounded`, over the lemma of
  `BoundedSets` since the id is the maximum of a set), and that a loader at work has a
  version (`BusyHasVersion`). `ListsAreSearchedWhole`, `LoadsAreWhole`, `IdsDoNotCollide`
  and `ListsMoveForward` follow; the last excepts the step in which `--force` takes a stamp off.
* **`SystemVerdictsStand`** of `DossierProofs` shows `AutomaticVerdictsStand` for every profile: any number of hits
  in any order, any documents, any country. `RoutingStands` is the arithmetic: without a
  sanctions hit a total of 80 takes two rules at least, since the dearest costs 40, and a
  total below 20 leaves out documents that failed and a call for action. `ReferralStands` is
  the other side: a total of 20 has a charge behind it, and one below 80 cannot be made of
  declined documents and a call for action, which cost 80. `SystemObeys` is
  what the running system adds: a decision by the system carries the routing of the very
  assessment it is recorded with. Its induction rests on `TInv` of `CaseFileProofs` (an
  execution stores only what it found).
* **`DecisionsStayBacked`** of `DossierProofs` shows `DecisionsAreBacked` for every profile, list and ruleset.
  `ChargesTheStrongest` is the part about scoring: the hits of the signals are among those
  found, and no hit of their type is stronger. The rest is an induction over `CInv`: before
  the first decision there are no matches (`MatchesBack`), because the transaction that stores
  an assessment also refers or decides; it brings the matches of its own score. A screening
  that comes later is stored only when it finds what is on record, so what it adds is no
  stronger than what was charged (`FoundIsScored` ties the finding it carries to the hits it
  would store).
* **`IntakeProofs`** needs `IntakeAssumption` only: any number of requests, applications,
  sessions and messages, a pool of any size, any dates. None of the properties is inductive.
  `IInv` is made of
  * `Shapes`: what a request knows where it is. One that answers for another is at a step
    of that answer; one that is to record a session has one the vendor made for this
    application; one that is to store a message holds a copy that was sound.
  * `Linked` and `Heard`: a request that waits for a route of its own instance has exactly
    one request that answers it, and that one answers nobody else. `Restart` ends them
    all together, a time-out or a failure only hands over its answer: this is where a
    caller could be left without anybody to answer it.
  * `Lent`: a connection is with a request in a transaction. Hence `LentCorrect`.
  * `OnceOnly`: of the requests that store a message only one is past the INSERT, and no
    stored message has such a one. `TakenOnce` alone is not inductive, since the job is
    enqueued one step after the row is claimed.
  * `Written`: what is sent is about a result that was given, and only what was sent is
    stored (`NewsCorrect`).
  * `Registered`: the trail of each application beside its row. It begins with the
    creation, only its second event may have moved it, and it ends with the session that
    is on the row. Two concurrent starts of a verification each append an event, and only
    the first finds the row in `started`.

  `AdultsCorrect` is arithmetic besides (`AgeIsTheCalendars`). TLC checks `IInv` on the
  instance of the `intake` run in 639,175 states.
* **`SweeperProofs`** needs `SweeperAssumption`. Its one theorem is `SweeperTypeOK`, which
  says that what is due and what was disowned are applications that wait, together with
  `AsksOnce`: a batch has nobody twice and nobody in it is answered for already. The second
  carries the first, since a commit takes the applications of `told` out of both lines, and
  needs itself that `Line` is a permutation of `due`: the n-th in an order exists and is one
  (`BoundedSets`). `Desk` and its proofs rest on this theorem.
* **`DeskProofs`** needs `DeskAssumption` and those of `Login` and `Sweeper`: any
  applications, scenes, findings and limits. `DInv` says what a case is and
  what people may have seen of it:
  * `Sound`: a referral comes before a verdict, each decision carries the score of the
    case, and status and verdict agree (`Shape`); the trail has an event for each decision
    and each closing, and of no others (`Tells`); at most one event tells the applicant an
    ending, and there is one only when the case is over (`Ends`).
  * `Precedes`, between two states of the same case: trail and decisions only grow, a score
    stays once it is there, the step never goes back, an end is an end. Every action on a
    case is shown to lead to a later state (`StepChanges`).
  * `Watches`: a page that loads has seen states that precede the present one. A page built
    of any mixture of them is then bounded by the present: `TabShows` for the officer's (a
    page that names the ruleset shows the score the case has now) and `Behind` for the
    applicant's (what it tells is the beginning of what there is to tell, also of what the
    next page has seen already).

  `ShownCorrect` follows from `TabShows`: a decision is recorded with the score of the row.
  `RecordCorrect` follows from `Tells`, and `PromiseCorrect` maps every step to
  `Adjudication` by the stage, verdict and basis read off `Sound` rows. `CountsCorrect`
  partitions the applications by their status, and the rows of the decisions table by who
  gave them; that rows and verdicts are as many is `OneVerdictEach`. `ReportsCorrect` is
  inductive beside the type invariant: a tick's `decided` and `reported` move together with
  the rows they count. `ToldCorrect` needs one fact more, `TellsTrue`: a page tells one
  ending at most, and its label allows it, although label and history were read in two
  snapshots. What makes this so is that both precede one state: if the history tells an
  ending, the case is over, and so is what the label may still show before it
  (`EndingOf` admits a label of an earlier stage, not of another end). TLC checks `DInv`
  on the instance of the `desk` run in 104,399 states.

  `WindowHolds` is proved for the login alone and carried over (`FailuresCorrect`). `Seen`
  relates the stopwatch to the window: while it runs it meets one window that began before
  it, whose first failure it has not seen, and at most one that began after it. Hence the
  bound of twice the limit less one.

Only model-checked are the liveness properties (`EveryJobSettles`, `RecurringKeepsRunning`,
`EveryCaseIsHandled`, `OldReferralsAreReviewed`, `ForsakenAreClosed`), since tlapm does not
reason about `ENABLED` and fairness, and the violations of section 5, which are facts about
single behaviours.

## 5. Findings

1. **A reclaim that can never succeed** (`queue_rescue`, `worker/jobs.py:240`). One UPDATE
   reclaims all stale rows. If a recurring job's worker died while a successor is queued,
   the row cannot return to `queued`: the unique index refuses the whole statement, for
   every stale job, at every reap, and a drain answers 500 before it claims anything.
2. **The recency guard does not cover races** (`case_race`, `worker/result_handler.py:184`).
   Both guards look at the row as it was read before the vendor was asked; the UPDATE
   repeats neither, so of two executions that overlap the one that writes last wins.
3. **A correction to a referred case is dropped** (`case_correction`,
   `worker/lifecycle.py:259`), although `db/migrations/023` says that it writes
   `vendor_status` and enqueues screening.
4. **`--force` cannot load and takes the list away** (`list_force`,
   `worker/load_sanctions.py:45`). The stamp is cleared and committed, the load then
   breaks the unique constraint on the rows that are still there.

5. **A sweep that is not fair** (`sweep_starved`, `worker/sweeper.py:179`). Only a not-found
   answer moves an application back in the line. Those the vendor answers for with nothing
   to apply, and those it cannot be asked about, stay in front at every sweep; 25 of them
   keep out the others, though the docstring says that every one is examined eventually.
   `ForsakenAreClosed` is what does hold.

Read off the code while modelling, without a run of their own:

* *statistics*: "These five account for all N" (`stats/page.tsx:347`) leaves out the
  processed ones, and the two queries behind the lines see different snapshots; the tile of
  the automatic median asks for enough decisions, not for enough automatic ones
  (`stats/page.tsx:298`); "reviewed by a person" on the queue page counts the synthetic
  reviewer (`desk/page.tsx:87`).
* *queue page*: "scores 20–79 by construction" (`desk/page.tsx:138`) and again in
  `queue-table.tsx:33`, is not so: a sanctions hit is referred at 80 points and above too.
* *case page*: it shows 0 for a case that was never scored and offers the form, which
  the constraint of migration 022 then refuses. A later screening that charges the same
  adds its matches to a decided case; of the snapshots of a case's matches the page then
  names any one ("Screened against", `desk/[id]/page.tsx:223`). Of a case without a match it
  says that the list version "was not recorded" (line 482), and the page of rulesets says
  "— not screened" (`rulesets/page.tsx:274`), though the case was screened: the snapshot is
  in `risk_signals` alone. The matches mark a conflict of the date of birth only, while the
  signals may be contradicted by another identifier.
* *name matching*: `aligned_token_count` is "order-independent" in its comment
  (`index.py:134`, `tests/test_name_similarity_v2.py:114`) and is not where one part is close to two: "Maria Miriam" against "Mariam
  Marie" aligns one part or two, by the order. Of the spellings of an entry that score the
  same, the search keeps the one an unordered query returns first (`store.py`).
* *seed tick*: "one row per tick, ALWAYS" (`route.ts:182`) does not hold if a step throws,
  and the comment at 151 speaks of one transaction where there are two. Four seeded cases
  whose evidence is stuck keep the reviewer from all later ones (`HeldUp`).
* *health page*: when the database is down, `jobPulses` throws and takes the page with it
  (`health/page.tsx:102`).
* *scoring*: an exact hit that is contradicted is the strongest of its type and is charged
  least, so it can lower the score below what an uncontradicted similar name alone would
  give (`scoring.py:688`).
* with racing handlers (finding 2) a case can be approved on a document result that its row
  shows no longer.

## 6. Plan

1. *Done*: the queue, the case with its scoring and its matches, list loading, intake, the
   sweep, desk and login, with their runs; proofs of all their safety properties.
2. Proofs: what the composition by contract takes for granted, as theorems that speak of two
   modules (the sweep's transaction against `CaseFile`'s steps), and the safety halves of the
   liveness properties, such as that a row of the queue is never out of every worker's reach.
3. `Matching`: the greedy alignment of name parts against a best matching, and the
   comparison of identifiers, over bounded inputs.
4. `Rollout`: `db/migrate.py` (lock, checksums, `--only`) and migrations 020 to 025 with
   old and new code alive.

## 7. Not modelled

* name matching: functions over strings, and trigram similarity inside Postgres; what they
  find is an input of `Scoring`;
* schema migrations as a process: run by hand, one at a time; what they install is in the
  modules of the tables they change;
* the generators of seeded applicants, the download and recording scripts, fixture data;
* of the pages: medians, charts, how the country lists of a ruleset were sourced, the health
  page, markup;
* of the audit log: the events of the queue and of list loading, the texts of the registry
  of rulesets;
* a case whose vendor session was never recorded: a webhook may move it to `checking`,
  where no sweep asks about it. `CaseFile` and `Intake` contain the behaviour,
  `EveryCaseIsHandled` is stated for recorded sessions, since the code promises nothing of
  the others.
