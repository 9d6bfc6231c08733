# Verification of the OIAJ judge

`oiajudge` is the backend of a programming-contest site. Contestants submit
through its HTTP API; a CMS (Contest Management System) compiles, runs and
scores the submissions; the judge copies tasks, submissions and scores out of
the CMS database into tables of its own and serves them. This directory models
that path in TLA+, checks it with TLC and proves part of it with TLAPS.

Paths below are relative to `src/oiajudge/pkg` unless they start with `src/`.

## 1. The system

| Component | State | Operations | Where |
|---|---|---|---|
| Triggers | table `event_queue(id, object_type, foreign_id, seen)` | a row per changed task, submission or result; `NOTIFY` | `cmsbridge/migrations/001.sql` |
| Listener | one session of the pool, buffered notifications | `ListenOn` | `store/store.go:42-63` |
| Scanner | the batch of rows read, waiting to be sent | read and mark unseen rows, sort, send | `cmsbridge/store.go:52-117` |
| Consumer | the current row, failed attempts | call the handler, retry ten times, delete the row | `cmsbridge/impl.go:23-59` |
| Handler | what it has read from the CMS | `handleTask`, `handleSubmission` | `oiajudge/updater.go` |
| Judge tables | `oia_user`, `oia_task`, `oia_submissions`, `oia_task_score` | `SaveTask`, `CreateSubmission`, `SaveUserScore`, `IncrementUserScore` | `oiajudge/store.go` |
| Submission API | `last_submission_ms`, `MockTime` | `MakeSubmission`, `CanUserSubmit` | `oiajudge/api.go:29-64`, `mock.go` |
| Accounts | `oia_user`, `oia_tokens`, the CMS tables `users`, `participations` | create, log in, check a token | `oiajudge/api.go:124-190`, `oiajudge/store.go:20-84`, `cmsbridge/store.go:31-50` |
| File store | CMS tables `submissions`, `files`, `fsobjects` | `MakeSubmission`, `AddFsObject` | `cmsbridge/submission.go:211-282` |
| Result views | none | status, subtask scores, maximum score | `cmsbridge/submission.go:20-209`, `cmsbridge/task.go` |
| Pool and transactions | connections, open transactions | `Tx`, `Close` | `store/store.go:26-83` |
| Migrations | version tables, remapped ids | init scripts | `store/store.go:136-183`, `*/migrations/*.sql` |
| Task loader | none; runs in the CMS tools | subtasks and score parameters of a task | `src/cms/argentina_loader.py` |
| HTTP layer, configuration, scripts | none of their own | routing, JSON, environment, service start | `oiajudge/sever.go`, `src/scripts` |

How they interact. The CMS and the judge share one PostgreSQL server. A CMS
transaction commits its changes, the event rows of the triggers and one
notification together. The listener hands notifications to the scanner, the
scanner hands rows to the consumer over unbuffered channels, the consumer calls
the handler, the handler reads the CMS in one transaction and writes the judge's
tables in another. API requests run beside all this, each in transactions of its
own; the submission API writes to the CMS, which starts the next event.

Nothing in a row says what changed. The handler reads the object as it is when
it gets to the row, so rows may be merged, delayed and reordered, and the hard
questions are whether the newest change is ever read, and what is left behind
when a step fails.

What is hard here: three goroutines and the database between them; at-most-once
delivery with a crash at any point; two statements of one transaction that see
different snapshots (READ COMMITTED); errors assigned after a result was taken
(`defer tx.Close(&err)`); a panic that commits; derived data (`score`) that is
moved by differences; two transactions for one request. `PROJECT.json` lists
each such hazard at its line, with the properties about it.

What makes each component correct:

* bridge: a row is delivered at most once; while the listener lives every row
  leaves the queue; a task is handed out before later submissions;
* handler: after the newest row of an object has been handled, the judge holds
  the object as the CMS does, and never goes back;
* tables: a base score is the best of each subtask over the stored submissions,
  a total is the sum of the task scores;
* submission API: submissions of a user lie the cooldown apart, and none
  reaches the CMS uncharged;
* file store: a submission is stored with all its files or not at all, and
  requests that wait for each other's files end;
* migrations: no script runs twice or half, nothing the CMS holds is missed, and
  what belongs to a person stays with the person;
* views: the scores of a submission and the maximum of its task agree.

## 2. The modules

| Module | Models | Status |
|---|---|---|
| `EventDelivery` | abstract: what the bridge promises | checked, refined |
| `EventBridge` | triggers, listener, scanner, consumer, crashes | checked, proved (`EventBridgeProofs`) |
| `Scoring` | the base score as a fold, with a reference definition | checked, proved (`UpdaterProofs`) |
| `Updater` | the judge's tables, one transaction per action | checked, proved (`UpdaterProofs`) |
| `CmsView` | status of a submission from its CMS rows | used by `Judge` |
| `Judge` | the composition: CMS, `EventBridge`, handler, `Updater` | checked, proved (`JudgeProofs`), refines both |
| `SubmitCooldown` | the submission API, concurrent requests, mock time | checked, proved (`SubmitCooldownProofs`) |
| `Accounts` | registration across two databases, login, tokens | checked, proved (`AccountsProofs`) |
| `ConnectionPool` | `Tx`, `Close`, `ListenOn`: who holds, frees and loses a connection | checked, proved (`ConnectionPoolProofs`) |
| `FileStore` | `MakeSubmission` and `AddFsObject` of the CMS bridge, statement by statement | checked, proved (`FileStoreProofs`) |
| `UserIds` | `oiajudge/migrations/002.sql` as operators on tables | used by `Upgrade` |
| `Upgrade` | the migration runner, the scripts of the bridge and `UserIds` | checked, proved (`UpgradeProofs`) |
| `ResultView` | subtask scores and maximum scores, read from the CMS in two ways | checked, proved (`UpdaterProofs`) |
| `Loader` | the grouping of testcases into subtasks | checked through `ResultView`, proved (`UpdaterProofs`) |

`MC*` modules give the constants their values; each `.cfg` is one run.

### EventBridge

`log[i]` is the object of row `i`; `unseen` and `seen` are the rows of the table
by their `seen` column (a deleted row is in neither). Rows are numbered in the
order of commits; no query orders by id.

| Action | Code |
|---|---|
| `CmsCommit` | the triggers of `001.sql`: rows and one merged `NOTIFY` per transaction |
| `Start`, `StartDeaf` | `HandleEvents`; its error, ignored by `RunServer` (`sever.go:271`) |
| `ListenerFails` | the loop of `ListenOn` breaks; its channel stays open |
| `ScanSelect`, `ScanMark` | the two statements of `GetNotifications`; the second has a later snapshot and no `WHERE` |
| `ScanFails`, `ScanCommitUnacked`, `SendError` | the error paths of `push_existing_rows` |
| `SendEvent`, `ScanDone`, `Wake` | the loop over the sorted batch, the wait for a notification |
| `HandlerReturns`, `HandlerFails` | the retry loop of `HandleEvents` |
| `DeleteRow`, `DeleteFails` | `DeleteNotification` in its own transaction |
| `Crash` | the process ends: killed, or by a panic in any goroutine |

`Faults` names the kinds of fault a run allows. `ScanMark` merges the `UPDATE`
with its commit: a row that commits between the two is in neither snapshot, so
it may as well commit later. The mutexes and buffers of `pgx` are not modelled;
a notification, once received by the session, is kept in order and is only
counted, since its payload is not used.

### Updater and Scoring

One action per committed transaction of the handler, with what it wrote. Events
are handled by one goroutine, so these transactions do not interleave; API
requests only read these tables or add a user. `SubmissionPanics` is the panic
of `SaveUserScore`: `handleSubmission`'s deferred `Close` runs while `err` is
still nil and commits the submission row.  `orphaned` and `stale` are history
variables: the pairs (user, task) a panic left behind, and the scores computed
under an older multiplier. Scores are integers; the code's 64-bit floats and
`REAL` columns are out of scope (hazard `numeric_edge`).

### Judge

`INSTANCE EventBridge` and `INSTANCE Updater` over the same variables, plus the
CMS (`cmsTask`, `cms`), the handler call in progress (`work`) and what the user
sees (`shown`). A handler call of a submission takes three steps: the result row
(`ReadResult`), the evaluations in a later snapshot (`ReadScores`), and the
judge's transaction (`StoreSubmission`). The CMS may commit between any two.
`rev` and `swallowed` are history: the newest row a stored copy accounts for,
and the rows whose commit failed although the handler returned nil.

### SubmitCooldown

A request runs through `read` (time taken), `charge` (check passed), `commit`
(row locked by the `UPDATE`), `submit` (cooldown committed, CMS not yet called).
Time is finer than the stored millisecond. `seen` is the local `last_submission`
of `CanUserSubmit`; the `UPDATE` does not compare it with what is stored by then.
`raced` is history: users for whom two requests were past the check together.

### Accounts

A request that registers holds the CMS transaction (`cms`), then has only the
CMS user (`account`), then holds the judge's transaction (`commit`); a login
holds its transaction in `login`. An `INSERT` of a unique key waits for an open
transaction that inserted it, so `CmsInsert` and `JudgeInsert` are guarded by the
open transactions; a key that is taken ends the request (`CmsRefuses`,
`JudgeFails`). `CmsCommitUnacked` and `JudgeCommitUnacked` are commits whose
acknowledgement is lost. `given` and `abandoned` are history: the tokens clients
have, and the CMS users whose registration ended between the two commits.
`LoginFails` covers a commit that failed and one whose answer was lost. Passwords
and the secret of a token are left out.

### ConnectionPool

One `DBClient`, the bridge's: the users of the pool are requests (`Client`),
whose context ends when the client hangs up, and the goroutines of the event path
(`Worker`), whose context never does. A user holds a connection from `Acquire` to
the end of its transaction, and no code holds one while it asks for another.
`CloseFails` is `store.go:78-80`: a `COMMIT` or `ROLLBACK` that fails returns
before the `Release`. It fails because the context has ended (`HangUp`), because
the session broke, or because the transaction was aborted by a statement whose
error the code dropped (`FailsUnseen`). `ConnectFails` and `Crash` are the nil
transaction that `Tx` returns without an error. `lost` and `faults` are history;
`MaxFaults` bounds the faults. `Starved` is where the program stops: everybody
waits and nothing is left.

The pool has no cure for a lost connection: four of them (the default size on a
small machine, less the listener's) stop the API and the event path until the
process is restarted. No document or test of the repository speaks of it, so no
run reports it as a violation; `FaultCostsOne` and `Served` say what does hold.

### FileStore

Every request holds one transaction: `InsertSubmission`, then `NextFile`,
`Lookup`, `Store`, `InsertFile` for each file in the order of a Go map, then
`Commit`. What a transaction has inserted and not committed is in `added` and
`filed`. `Waits` is the wait of an `INSERT` for an open transaction that inserted
the same digest; when that one commits the waiting request fails (`Conflict`),
when it ends otherwise the request goes on. `Victim` is PostgreSQL's deadlock
detector. `StatementFails`, `CommitUnacked` and `Crash` are the faults, at most
`MaxFaults` of them. `CmsStores` is the CMS storing an object of its own. `asked`
and `byCms` are history. A content stands for its digest, and the large object
that holds it lives and dies with the row of `fsobjects`.

### Upgrade and UserIds

The process runs the scripts whose version is not recorded, first the bridge's
(`BridgeSkips`, `BridgeStatement`, `BridgeCommit`), then the judge's
(`JudgeStatement`, `JudgeCommit`), each in a transaction of its own; an error at
any point ends it (`Ends`) and it may be started again, with a newer program
(`Start(k)`, where `k` is its newest script of the bridge). Meanwhile the CMS
writes (`CmsWrite`, `CmsCommit`, `CmsAbort`). `CREATE TRIGGER` waits for open
transactions that wrote its table and keeps later ones out; whether a trigger
fires is settled when a row is written. `dirty`, a history variable, is the set
of objects changed since their last committed event.

`UserIds` gives the statements of `002.sql`: a row carries the person it is
about beside the id it says, so that `Follows` can tell whether the two still
agree. `Script` lists for each statement when PostgreSQL accepts it.

What the model shows about submissions: `002.sql` leaves their `user_id` alone.
When the CMS knows a person by the id another had in the judge, the submissions
change hands, and for good, since `CreateSubmission` does not update `user_id`
(`oiajudge/store.go:149-155`). `RowsKeepOwners` states exactly when. The
repository's test of the migration (`migration_tests.py`) has ids that coincide.

### ResultView and Loader

Pure operators on a dataset and the outcomes of its testcases: `Subtasks` as
`GetSubmission` makes them, for score type Sum and for grouped types, and
`TaskMaxScore` as `GetTask` does. Outcomes count in parts of `Full`, so scores
are integers. `Loader` makes the groups from the names of the testcases in both
of the formats of `argentina_loader.py`; the order of subtasks is that of a
Python set, so every order is a possible result. `Fraction` (the worst testcase
of a group) is what the CMS does for `GroupMin`. Testcases are numbered in the
order of their codenames, and `InOrder` lists them as `sort.Slice` does.
`WellFormed` is what the code takes for granted of a dataset: a subtask is worth
points and has testcases, and every testcase is in a subtask; what the loader
makes is well formed (`LoaderMakesDatasets`).

## 3. The runs

| Run | Question | Bounds |
|---|---|---|
| `EventBridge` | Is every row in one place, are wake-ups kept, do tasks go first, is delivery at most once? Does every row leave the bridge, with a fair scanner and consumer? All faults. | one task, one submission, 3 rows, 2 rows per CMS transaction, 2 attempts |
| `UpdaterSafety` | Are base scores, task scores and totals right after any sequence of events? Do stored scores and the maximum of the task agree, for every dataset they may come from? | 2 users, 2 tasks, 4 submissions (two of one pair), 3 score vectors of different lengths, multipliers 1 and 4; 7 datasets of 1 to 3 testcases, 3 outcomes of a testcase |
| `UpdaterUnknownTask` | violation: a stored submission without a score | same |
| `JudgeDelivery` | Is a user's score the best of what the CMS holds, once its rows were handled? Does what users see never go back, and is a scored submission shown as scored, unless its row was lost? | 1 user, 1 task, 1 submission, 6 rows, no faults |
| `JudgeFaults` | Is the judge up to date once the newest row is handled, and is a submission's task known unless its rows were lost, under every fault, failing commits and re-imported tasks? | 3 rows, 2 imports, 1 attempt, multipliers 1 and 4 |
| `JudgeLostEvent` | violation: it need not be shown | 5 rows, no faults |
| `SubmitCooldownSafety` | Does the cooldown hold, charged before the CMS is called, until requests race? Can the stored time move back in any other way? | 2 requests of a user, cooldown of 2 ms, 2 ticks per ms, times 0 to 8 |
| `SubmitCooldownRace` | violation: two requests side by side | same, real clock only |
| `AccountsSafety` | Do the two databases agree on accounts, whatever fails between the two commits? | 2 requests at a time, 2 names, 2 emails, 3 ids |
| `ConnectionPool` | Is every connection accounted for, does a fault cost at most one, and is whoever waits served while a connection is left? | 2 requests, 1 goroutine, the listener, 3 connections, 4 faults |
| `FileStore` | Is a submission stored whole or not at all? Does every request end, and does somebody get through? | 2 requests at a time, 5 sets of files (two files, two contents), 2 submission ids, 1 fault |
| `Upgrade` | Do restarts and releases in between leave every object reported, every version run once, every score with its owner? | 2 people, 3 ids, 1 task, 1 submission, 2 CMS transactions (symmetric), 3 rows written, 3 starts |

Why the bounds are enough. Three rows fill every place of the bridge at once:
one in the consumer's hands, one in the batch, one unseen; with two objects they
also come in both orders of types. The code does not treat attempts beyond
"first" and "last" differently, so two attempts stand for ten. Five rows are one
import, one submission and its compilation, evaluation and scoring; the sixth is
an invalidation. The three rows of `JudgeFaults` do not reach a scored result:
that is left to `JudgeDelivery`, and to the proofs, which hold for any number. Two submissions of one pair, and vectors of lengths 0, 1 and 2,
exercise padding and maximum in both orders; two tasks and two users make totals
of several scores. Eight ticks hold two cooldowns and the fraction below a
millisecond. Two names and two emails let two requests meet in either, in both
or in none; the third id is for a name that is registered after one was left
behind. Two requests with two files close the shortest circle of waits, and a
second submission id is drawn again after a rollback. Three starts are a start
that fails, one of an older program and one of the newest; three ids are enough
for ids that coincide, that are swapped and that collide with none. The datasets
of `UpdaterSafety` have a testcase in two subtasks, a subtask that needs another,
and one vector that is full marks in one dataset and not in another; every
subtask is worth points, without which full marks need not mean that every
testcase is right. Four users compete for three connections, and four faults lose all of
them with one to spare. TLC checks for deadlock in every run: `Quiescent` admits
only the states in which the goroutines wait for the CMS, and `Starved` only the
one in which everybody waits for an empty pool.

Fairness. `EventBridge` assumes weak fairness of the scanner and of the
consumer: they are goroutines in loops whose database and handler calls return.
`Judge` assumes the same of the handler and of `Start` (the process is started).
`ConnectionPool` assumes that a transaction runs to its end (weak) and that
whoever waits while connections keep coming back gets one (strong: the pool's
semaphore serves in turn). `FileStore` assumes weak fairness of each request's
goroutine and session: statements return, PostgreSQL looks for deadlocks, and the
lock of an ended transaction goes to whoever waits for it. `Upgrade` claims no
liveness. Nothing is assumed of the CMS, of users, of the
listener or of faults. No fairness makes a scan succeed, which is why `Settles`
excepts failed scans.

The runs that expect a violation:

* `JudgeLostEvent`: `UPDATE event_queue SET seen = true`
  (`cmsbridge/store.go:65`) also marks rows that the `SELECT` before it did not
  return. A submission's last row can be lost this way with no failure at all,
  and the judge then never shows its score, which
  `src/scripts/src/oia/tests.py:156-160` waits for.
* `UpdaterUnknownTask`: `SaveUserScore` (`oiajudge/store.go:188`) announces
  "Assumming multiplier = 1" and panics instead; the submission is committed
  without a score.
* `SubmitCooldownRace`: two requests that read the same time and check
  `last_submission_ms` before either has committed both submit; `tests.py:110-118` expects the second to be
  refused.

## 4. The proofs

All theorems hold for every value of the constants under the named assumptions
of the modules: tasks and submissions are disjoint; owners and problems are
functions; scores are sequences of natural numbers and may be none (a submission
that is not scored has `<<>>`); multipliers are integers; there is at least one
attempt and room for a row in a transaction; the faults are among those the bridge
has; a cooldown is in `Nat`; the old ids of persons differ; datasets are
`WellFormed`. Nothing bounds the number of users, tasks, submissions, rows,
imports, subtasks or testcases.

`EventBridgeProofs`. `ExclusiveCustody` is not inductive: nothing in it keeps the
scanner's batch apart from what is inserted between `SELECT` and `UPDATE`. The
inductive invariant is `TypeOK /\ Halted /\ BatchInv /\ HandledInv`: what was
selected stays unseen until it is marked; after the mark the batch precedes
everything unseen; the current row is in neither; a handled row is nowhere.
`Implements` shows that each step of the bridge is a step of `EventDelivery` or a
stutter, with `queued <- unseen` and `custody <- Custody`: the mark is a `Claim`
that keeps only the batch, so a lost row is a row claimed and not kept.
`TasksGoFirst` uses the batch's place before the unseen rows. `WakeupKept` needs
no more than type correctness.

`UpdaterProofs`. The base score and the total are folds over finite sets, in an
order that `CHOOSE` picks. What they compute is proved in three steps.
`SubsetInduction` is induction over finite sets, stated for a set of sets in
place of a predicate, and proved from the least cardinality of a counterexample
(`LeastNatural`). `FoldIsDefined` shows that the recursion of a fold defines a
function, and `FoldInAnyOrder` that a fold whose steps commute satisfies
`h[s] = step[<<x, h[s \ {x}]>>]` for every `x` of `s`, so that no later proof
depends on the order. `SumFold` and `MergeFold` apply both; `MergeCommutes` is
why the merge of `recalculateUserScoreForTask` qualifies. Then `BaseScoreIsBest`
and `BaseScoreGrows` are inductions over the rows.

Of the tables, `ReferencesHold` gives the domains; `AlwaysFresh` (every base
score is the fold of the rows stored now), `AllCount` and `MultiplierUsed` follow
action by action: a submission changes the rows of one pair and recalculates that
pair. `TypeCorrect` adds that the tables stay finite, which the sums need.
`AlwaysBest` combines `AlwaysFresh` and `BaseScoreIsBest`; `TotalAddsUp` takes the
changed score out of the sum and puts the new one in (`SumUpdated`), as
`IncrementUserScore` does; `NeverLowers` is `BaseScoreGrows` for one more row.
`MovesTogether` is the action property of task scores
and totals: neither moves without the other.

`MarksOfDatasets` needs no behaviour: for score type Sum the sum over the
testcases is the product that `GetTask` computes (`SumConstant`), for the others
the fraction of a group is full exactly if its testcases are (`FractionIs`), and
a sum of parts is full exactly if every part is (`SumAtMost`). Well-formedness is
used where it must be: a subtask worth nothing, or a testcase in no subtask, may
be wrong under full marks. `OrderExists` is there because `InOrder` chooses a list
that must exist; the library's `SetToSortSeq` would do for TLC alone, since it
rests on a Java override with no definition that a prover can use.
`LoaderMakesDatasets` shows the loader's groups well formed, in every order.

`SubmitCooldownProofs`. `ChargeInv` is the inductive invariant: of a user's
requests past the check there is at most one and its time lies behind the
cooldown; everything that reached the CMS or still may was charged and lies
apart. `Advance` is the arithmetic of one charge under truncation. For users whose
requests raced it claims nothing, and for them the charge can indeed move back:
the request with the earlier time may commit last. `SeenInv` holds for them too: a
request past the check lies a cooldown after what its check read, and that is
still what is stored unless the user has raced. `MovesBackOnlyByStaleCheck`
follows: the stored time moves back only by such a commit, and only to a cooldown
after what the outdated check read, at least.

`AccountsProofs`. That two accounts never meet (`AccountsDiffer`) says nothing of
the accounts in open transactions, nor `AccountsMatch` of ids about to be used.
`IInv` adds them: an open CMS transaction has a new id and a new name
(`OpenInv`); a request between the transactions is the only one with its CMS
user, which has no account (`PendingInv`); an inserted account meets none
(`CommitInv`); abandoned users have none (`AbandonedInv`). `OneFate` derives
`NameHasOneFate` from it.

`ConnectionPoolProofs`. That a fault costs at most one connection is not
inductive: a cancelled request has had its fault and has lost nothing yet.
`DoomedInv` counts the transactions that cannot be closed any more
(`lost + |Doomed| <= faults`), and `Accounted` bounds the counters of `TypeOK`.
The steps are one per way of moving a connection; `Counting` does the sets.

`JudgeProofs`. `HandledIsCurrent` says nothing of what the handler holds between
its statements. `IInv` does: what `work` has of an object is what the CMS holds,
unless a newer row of the object exists (`WorkInv`, `AsRead`); the same of the
stored copy and `rev` (`StoredInv`); and a row exists only of objects that exist
(`CmsInv`). A commit of the CMS adds a row (`RowAdded`), which voids the claims
about that object and no other (`Changed`); a read makes a claim (`ReadStep`), a
store passes it on (`Copied`), everything else keeps them (`Quiet`, `WorkKept`).
`UpToDate` and `NoStepBack` follow. `UnknownWasLost` adds what the bridge's order
means for the row in hand (`Order`: no earlier row of a task is on its way) and
that a stored task stays known (`Known`). `ImplementsUpdater` and `ImplementsBridge`
show, step by step, that the composition implements its parts (for the bridge the
panic of the handler is a crash, so the theorem asks for `"crash" \in Faults`).

The components' theorems are then instantiated: `ScoresRight`, `ScoresMove` and
`BridgeRight` carry them over to the system, the last one with any faults, since
it takes the bridge with `crash` added. `TypeCorrect` follows, and
`ScoreFollowsCms`: `UpToDate` says that the handled rows of a pair have brought
the evaluations of the CMS into the table, `AlwaysBest` that the base score is the
best of the table, and `MultiplierUsed` what it was multiplied by.

The last section is about loss. `LossHasACause` names, for every step, how a row
may get lost; `LossIsForGood` reads off `DeliversAtMostOnce` that none comes back;
`OnlyScansLose` is the other side of the run `JudgeLostEvent`: with no fault at
all, the first row to be lost is one committed between the `SELECT` and the
`UPDATE` of a scan. A panic on an unknown task cannot come first, because every
submission has an earlier row of its task (`Announced`) which must have been lost
(`UnknownWasLost`). `NothingElseHidesScores` is what remains of
`ScoredIsShownUnlessLost` without fairness.

`FileStoreProofs`. `WholeOrNothing` is about committed tables only. `RequestInv`
adds each open transaction: `filed` has exactly the files the loop has passed
(`Progress`), every digest in it is among the transaction's or the committed
objects (`Stored`), and the transaction has added no other (`Needed`). At the
loop's end these are the files of the request. `Distinct` keeps the ids of open
transactions apart.

`UpgradeProofs`. The judge's tables are always at one of the stages
`Identified(f, S, P, k)` of the script (`TablesInv`): `OwnersKept` and
`RefusedOnly` are read off them. For the bridge, `Progress` says what the open
transaction has done from the statement it has come to, and `Heard` that no open
transaction of the CMS holds a row that its trigger has missed: none of a table
that is locked, and, once the triggers are committed, none without an event.
Hence (`Reported`) nothing slips between the queueing of what exists and the
triggers. `AllHeardOf`
and `VersionsTrue` follow.

Only model-checked: liveness (`Settles`, `ScoredIsShownUnlessLost`, `Served`,
`Ends`, `SomeoneStores`), which needs `ENABLED` and fairness. Every invariant and
action property of the runs is proved.

## 5. Not modelled

* Scores as floating-point numbers; the text of messages, statements and
  attachments.
* The HTTP layer, JSON and authentication headers; reads of attachments and
  statements; the configuration; the scripts: they keep no state that another
  step reads back.
* Of the task loader everything but the grouping of testcases: it reads files
  and builds objects that the CMS tools store. A second import that orders the
  subtasks differently is listed as a hazard without a property.
* Of the migrations the scripts that only create tables or add columns, and two
  processes that migrate one database at a time, which the deployment does not
  do.
* Deleted submissions (no trigger fires on a delete) and several datasets of one
  task (the loader makes one).
* The CMS services themselves, which appear as the external actions
  `TaskImported`, `ResultWritten`, `CmsStores` and `CmsWrite`, in the order of
  results the CMS keeps; PostgreSQL beyond atomic commits, a snapshot per
  statement, locks of rows, keys and tables, and its deadlock detector.

## 6. Plan

Done, in the order of importance: (1) the bridge and its abstract promise;
(2) scores and tables; (3) their composition with the CMS; (4) the cooldown;
(5) `ConnectionPool`; (6) `Accounts`; (7) `FileStore`; (8) `Upgrade`;
(9) `ResultView` and `Loader`; (10) the proofs of `Judge`, and of 7 and 8;
(11) the proofs about folds, scores and marks, and about the system as a whole.

What could follow: deleted submissions as an external action of the CMS, once
the code reports them; a second import that permutes subtasks,
once it is said what the scores should be then.
