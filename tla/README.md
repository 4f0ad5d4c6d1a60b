# A TLA+ model of dmoj-contest-analyzer

The repository holds a program that looks for suspicious submissions in a
programming contest (timing, style, JPlag, an LLM as a judge) and a web service
around it: accounts upload the export of a contest, background workers analyse
it, and a report can be downloaded for some hours. This directory models the
parts of it where steps of several actors meet (the web service, its workers,
its accounts and its database), and the analysis itself as far as it decides
what a report says of an author.
Source paths below are relative to `src/src/dmoj_contest_analyzer/`.

## 1. The system

| component | state | operations | talks to |
|---|---|---|---|
| job store (`web/jobs.py`, `web/db.py`) | the `jobs` table | create, claim, set status, mark uploaded, reconcile, sweep | called by every other part; one SQLite writer at a time |
| request handlers (`web/routes.py`) | directories under `DATA_DIR`, the request in flight | POST `/jobs`, PUT `upload`, POST `cancel`, GET `report` | store, directories, the nudge event |
| workers (`web/worker.py`) | claimed row, process pool, JVM group ids | `process_one_job`, `worker_loop` | store, directories, pool process, judge |
| clean-up (`web/worker.py`) | none | `_cleanup_once` on a timer | store, directories |
| life of the process (`web/app.py`) | tasks, `llm_pool` | lifespan: migrate, reconcile, start, stop | everything |
| analysis subprocess (`web/upload.py`, `analysis.py`, `jplag.py`, `timing.py`) | extracted tree, JVMs | validate, extract, analyse, run JPlag | progress queue to its worker |
| LLM judge (`llm_run.py`, `llm.py`, `worker._run_judge`) | futures, `llm_usage` | select, charge, submit, collect, close | shared thread pool, provider |
| accounts and sessions (`web/auth.py`, `routes.py`, `users_cli.py`) | `users`, `sessions`, `token_version` | login, logout, password, reset, disable | the CLI is a second process |
| login throttle (`web/auth.py`) | `login_attempts` | check, record | login |
| one-time set-up (`web/routes.py`) | `setup_token` file, empty `users` | form, submit | users |
| migrations (`web/db.py`) | `PRAGMA user_version` | migrate | web process and CLI |
| report (`report.py`) | `reporte.xlsx` | write | subprocess and worker thread |
| command line (`cli.py`) | none | one sequential analysis | analysis, judge |

What is hard in it:

* **Interleaving.** One event loop runs handlers, workers and the clean-up.
  Between two awaits they are atomic; across an await everything may change:
  the cancel handler awaits its form, the upload its body, the worker the
  analysis, the judge and the report.
* **True concurrency.** The analysis runs in a process, its JVMs in process
  groups of their own, the report and the judge in threads, each call of the
  judge in another thread.
* **Failure.** A subprocess or JVM is killed or hangs; the server dies between
  two statements and is started again; a statement or `mkdir` raises half way.
* **Time.** Six different limits (rate window, upload, age, job, judge,
  retention) act on the same row, from different tasks.

What makes each part correct, in one line: *store* – quotas hold and rows only
move forward; *service* – one holder per job, its input intact, files removed,
every job ends; *wake-up* – no job waits while a worker is free; *judge* – the
report is frozen and its note honest, and the budget bounds what all jobs
together send; *process tree* – no JVM piles up; *accounts* – a revoked session
stays revoked, and a revocation reaches every session it is meant for;
*throttle* – the count bounds the guesses and nobody is locked out for ever;
*set-up* – one first account; *migrations* – one process at a time, and the
version tells the truth; *analysis* – the order of directories decides ties
at most, and every sign of suspicion a row counts is one it shows.

## 2. The modules

```
jobs        Jobs <- JobService        (JobService implements Jobs)
            WakeUp        Judge        ProcessTree
accounts    Throttle <- Accounts      (Accounts implements Sessions)
database    Migrate <- FirstStart
reports     Analysis

proofs      JobsProofs <- JobServiceProofs, JudgeProofs, WakeUpProofs,
            ProcessTreeProofs, AccountsProofs, FirstStartProofs, AnalysisProofs
```

An arrow `A <- B` is "B EXTENDS A": B runs the actions of A with its own.
`MC*.tla` only give values to constants and define symmetry sets. Each
`Mutant` operator in a module is a plausible mistake in the operation below it;
no specification uses them, they show which property notices the mistake.

### Jobs – the store, and the abstract specification of the service

State: `status`, `created`, `finished`, one entry per job id. Each action is
one transaction: `CreateJob` (both counts and the INSERT under BEGIN
IMMEDIATE), `ClaimNextJob`, `MarkUploaded`, `SetStatus`, `ReconcileStartup`,
and `CleanupPass` (all the statements of one `_cleanup_once`, which does not
yield). The callers are free: any statement, any time, any row. So what holds
here holds by the statements alone. Time stamps are ages in ticks that stop at
`MaxAge`, which lies beyond every cut-off the code compares them with; sub-tick
order is left open.

### JobService – handlers, workers, clean-up, crash and restart

Extends `Jobs` and adds `disk` (what the directory of a job holds), the
requests in flight (`put`, `fd`, `cancel`) and the workers (`pc`, `hold`,
`spent`, `broken`). An action is a stretch between two awaits:

| code | actions |
|---|---|
| `create_job_route` | `PostJob` |
| `job_upload`, `stream_body_to_file` | `PutOpen`, then `PutFinish`, `PutOverflow` or `PutDisconnect` |
| `job_cancel` | `CancelRead` (to the await), `CancelCommit` |
| `process_one_job` | `Claim` or `ClaimLost`; `FailJob`, `TimeOut`; `StartJudge`, `EndJudge`, `WriteFails`, `Complete` |
| `_analyze_sync` in the subprocess | `OpenZip`, `Extract`, `Analyse`, `Raise`, `CrashAnalysis` |
| `write_excel_report` in its thread | `WriteReport` |
| an idle pool loses its process | `BreakIdlePool` |
| `_cleanup_once` | `CleanUp` |
| the lifespan | `Start`; deaths are `Crash` and the `CrashIn...` actions |

`fd` tells the file a PUT has open: its own, one shared with another PUT (then
the bytes may be a mixture), or one that was unlinked under it. `Tick` moves
all the clocks, and does not pass a timer of a worker that is due (`Limit`).

### WakeUp – the shared event

`queue` counts the queued rows, `nudge` is the event, `pc` places each worker:
about to poll, with the wait task not run yet (`arming`), asleep, running a job
or backing off. `Finish` clears the event and polls again in one stretch, as
`worker_loop` does. `vain` counts polls in vain, for `OneExtraPoll` only.

### Judge – batches, pool, budget

One batch per job: `Select`, `Count` (one conditional UPDATE per item),
`Submit`, `Collect` or `Expire`, `Close`; one future per item, `StartCall`,
`RetryLater`, `Retry`, `Answer`, in the threads of the pool; `NewDay`. `Select`
keeps the number of rows of the report, that of the selected rows whose source
could not be read (`unread`) and that of the rest, the items; a result that is
not there for one of the rows is then a gap whatever the code thought of it.
Scores are abstracted to the three kinds of answer the report tells apart. The
pool may start calls in any order, which includes the FIFO order of the code.
`requests` remembers every POST, for `TwicePerCharge` only.

### ProcessTree – a worker, its process, the JVMs

The coroutine (`StartJob`, `Drain`, `Collect`, `Broken`, `TimeOut`), the pool
process in `run_jplag` (`StartJvm`, `Report`, `JvmEnded`, `JvmTimeout`,
`Return`), the kernel (`Killed`) and the JVMs (`JvmEnds`). `pushed` is the
progress queue, `known` the ids already drained.

### Throttle and Accounts – two processes on three tables

`Throttle` is the table `login_attempts`: `attempts[k]` holds the ages in ticks
of the failures of a key (an address or a user name), the oldest first. `Admitted` is
`check_login_throttle`, `RecordFailure` its counterpart, `Age` the passing of a
tick, with which the oldest failures leave the window. The code deletes those
rows when somebody tries to log in and counts after it: no count sees them.

`Accounts` adds `users` (one variable per column), `sessions`, and two actors.
The server runs one stretch of a handler at a time (`loop`): between two awaits
no other handler of it runs. The command `dmoj-manage-users` (`cli`) is another
process, so every SQL statement is a step and the command may run its own
between any two of them.

| code | actions |
|---|---|
| `login_submit` | `Login` (throttle, `authenticate`), `ReadVersion`, `InsertSession` (`create_session`) |
| `logout` | `Logout`, `LogoutBump` |
| `password_submit` | `PasswordOpen` (to the await), `PasswordForm`, `PasswordUpdate`, `PasswordBump`, `ReadVersion`, `InsertSession` |
| the gate of `app.py`, then the handler | `Gate`, `Handle` |
| `users_cli.main` | `Command`, then `CliAdd`, `CliSetDisabled`, or `CliReset` and `CliBump` |
| expiry, clock, deaths | `Expire`, `Tick`, `ServerDies`, `CliDies` |

Passwords are numbered in the order they were set. A session remembers, for the
properties only, two of them: the one `authenticate` accepted (`base`) and the
one in force when its version was read (`seen`); a statement of the command in
between makes them differ. `Gate` lets through whoever `_security_and_gate` does
not redirect, a request whose session does not load included: the handler
decides about that one.

### Sessions – what the sessions table promises

The abstract specification: a session is issued once and to one account, it
ends when it expires or together with every other session of its account
(`Revoke`), and it never comes back. `Accounts` implements it: a row whose
`token_version` is behind its account's is an ended session, `bump_token_version`
is `Revoke`, and a row inserted with a version that was bumped meanwhile is a
session born ended.

### Migrate and FirstStart – a database opened by several processes

`Migrate` is `migrate()`: a process reads `PRAGMA user_version` once and runs
the scripts from there. Statements of a script commit one by one; one that
creates what is there already raises and ends the process (`Refused`). `Die` is
a death at any point. `FirstStart` runs it in the server and in two commands and
goes on to the first account: `setup_form` (`SetupForm`, `SetupWrite`: the token
file is created, then filled), `setup_submit` (`SetupOpen` to the await, then
`SetupReject` or `SetupAccept`, `SetupInsert`, `SetupUnlink`), and the command's
`add` (`AddCheck`, `AddInsert`).

### Analysis – from the files to the rows

`run_analysis` as one program: `AnalyzeTimingStyle`, `PrepareJplagInput`,
`RunJplag` per problem and language, `ParseComparison` per comparison in a
report (in any order; a report may break off: `ReportUnreadable`), and
`MergeJplagIntoMain`; the ends without submissions, without JPlag and by its
time-out have actions of their own. The export is any sequence of files from
the constant `Exports`, in the order the directories list them. Similarities
are hundredths of a percent, rounded to tenths as the code rounds them; the
z-score of a time is compared with its limit without taking the square root.
The four loops that keep the best file or pair so far (`FirstAc`, `FirstTs`,
`Best`, `BestPair`) are uses of one operator, `Scan`, which goes over positions
and keeps the first with the largest value.

## 3. The runs

| run | instance | shows |
|---|---|---|
| `jobs_quota` | 4 ids, 2 accounts, 1 active and 2 per hour, hour of 2 ticks | `ActiveQuota`, `RateLimit`, `OnlyForward`, whoever runs the statements |
| `service_two` | 2 jobs of one account, 2 workers, 1 PUT and 1 cancel slot, crashes | `OneHolder`, `InputIntact`, `NoOrphanDirectory`, `ReportKept`, and `UsesStore`: the service implements `Jobs` |
| `service_live` | 1 job, 2 workers, 2 overlapping PUTs, 1 cancel slot, crashes | `EveryJobEnds`, `EverythingRemoved` |
| `judge_shared` | 2 batches of up to 2 rows, limit 1, 2 threads, budget 2, 1 midnight | `OneResultPerItem`, `GapsAreNoted`, `ResultsFrozen`, `SilentWhenDone`, `WithinBudget`, `TwicePerCharge`, `BatchEnds` |
| `wakeup_three` | 3 workers, 4 uploads | `NoLostWakeUp`, `FreeWorkerTakesJob` |
| `tree_jobs` | 3 jobs, 4 JVMs of one worker | `FewJvms`, `JvmHangEndsJob` |
| `accounts_all` | 1 name, 2 addresses, 1 waiting request; 2 sessions, versions and passwords; limit 1, window 1 | `ResetReaches`, `GateHolds`, `GuessBound`, `ChangeLeavesOne`, `ThrottleEnds`, and `RefinesSessions` |
| `first_start` | server and 2 commands, 8 and 1 statements, 2 deaths, 2 names, 2 forms, an empty disk or one of either release | `SchemaSound`, `SetupIsFirst`, `InstallationEnds` |
| `analysis_small` | 3 authors of one problem, up to 2 files each, 3 similarities | `RowsByDefinition`, `FastAreFew`, `SentIsLatest`, `ScoreExplained` |

Why the bounds are enough. Two workers and two jobs are the fewest that can
compete for a claim and for one directory; a slot of requests is reused without
limit, so one slot gives any sequence and two give every overlap. Every time
limit is at least one tick and the limits differ where their order matters
(`MaxAge` is beyond all of them): age sweep against time-out, retention against
a running worker. In the judge two rows under a limit of one reach the partial
selection; two batches need up to four calls from a budget of two, so that
either may hit the cap with or without a partial selection; and calls of a
batch given up hold threads of the other. The quota run needs a third id of one
account so that a deleted row can be missed, and a second account so that
counts are per account. A JVM more than there are jobs lets one job start two.

In `accounts_all` every conflict is about one account: two addresses against
its name, two sessions against one version, one command against one handler.
Two versions and two passwords allow a reset after a password change, or the
other way round, and a session of either; with two accounts and every other
bound at one there are 3.4 million states and no error, too many to repeat
each time. `first_start` gives the scripts their real lengths; a second command
lets two processes migrate while the server is down, and the second death
strikes a process that meets the remains of the first. In `analysis_small`
three authors are the fewest of whom one is fast (a z-score of -1 needs two
others), the similarities lie just below and just above the threshold once
rounded, and a second file gives retries, two languages and equal times.

### Fairness

* `JobService.Fairness`: the clock runs; a stopped container is started again
  (`WF(Start)`, the restart policy of the deployment); the loop runs what is
  ready, and a subprocess ends or is timed out (`WF(WorkerStep)`); the clean-up
  is strongly fair because `cleanup_loop` runs it first thing in every life of
  the process. Clients, claims and lost claims are not asked for anything:
  `EveryJobEnds` holds even if no worker ever takes a job.
* `WakeUp.LiveSpec`: a ready coroutine runs, a timer fires. Running jobs may
  never end.
* `Judge.LiveSpec`: the thread of a batch runs and its deadline passes. The
  provider may never answer and the pool may never start a call.
* `Accounts.LiveSpec`: time passes. Clients may go on guessing for ever.
* `FirstStart.Fairness`: a stopped server is started again, a process that runs
  goes on, and somebody keeps trying: opens the page and in the end submits the
  token that is in the file (strongly fair: the loop serves other requests in
  between, and a waiting form may be rejected). Commands need not be run.
* `ProcessTree.LiveSpec`: only the inner layer is fair; a JVM need not end and
  the job's own time-out need not fire. `Return` stands for the rest of an
  analysis, which is finite.

### Where code and documents disagree

Three runs check a sentence of the repository's documents or comments and find
a behaviour of the code against it; each quotes its sentence in the module, and
`PROJECT.json` gives both places. They use the smallest instance that shows it.

| run | sentence refuted | in short |
|---|---|---|
| `service_cancel_race` | only waiting jobs are cancelled | status read before an await, used after it |
| `service_overlapping_puts` | the PUT that queued a job keeps its zip | the slower PUT unlinks it |
| `wakeup_spin` | a stale nudge costs one poll | it stays set while others run |

Others are visible in the same actions and have no run:

* `done` and `failed` are not ends: the worker writes `done` after the age
  sweep failed the row (`web/worker.py:232`; `Complete`).
* The hand-over of a claimed job is outside the `try` that fails a job on an
  exception (`web/worker.py:151`; `ClaimLost`). The row waits for the age sweep.
* A JVM whose id was not drained yet survives the time-out of the job
  (`web/worker.py:170`; `ProcessTree.TimeOut`).
* Failed jobs keep their zip until retention (`FailJob`, `TimeOut`;
  `docs/configuracion-web.md:146`); a swept or cancelled job that still
  executes does not count for `MAX_JOBS_PER_USER` (line 142); a cancel during
  the execution leaves a done job without a report (`ReportKept` excludes it);
  a retry is a call the daily cap does not count (line 161; `TwicePerCharge` is
  the bound that remains); the selection of suspicious rows may exceed the limit
  per job (line 160).
* The budget is charged for items that are never sent (`llm_run.py:46`;
  `Judge.Expire`), and a row whose source cannot be read is skipped without a
  note (`web/worker.py:256-259`): `GapsAreNoted` excepts exactly these rows.
* The anti-abuse design (`2026-09-06-web-llm-anti-abuso-design.md:112`) speaks of
  an exponential back-off of logins; the code counts failures in a fixed window
  (`Throttle`).
* `migrate()` is called idempotent
  (`2026-09-06-web-listado-y-progreso-design.md:132`). It is when it was
  completed; after a death inside a script every later start fails on the first
  statement of it (`Torn`). Likewise a death between the creation of the token
  file and the write to it leaves a token nobody can submit (`TokenLost`).
  `InstallationEnds` names both as the only ways not to get a first account.
* A login (or a password change) whose password was checked before a reset and
  whose `token_version` is read after it gets a session the reset does not
  reach, though "the point of a reset is to lock out whoever held the old
  credentials" (`users_cli.py:88-89`). `ResetReaches` says that there is at most
  one such session, that of the request in execution. In the same place a
  password change may set its password after the UPDATE of the reset, and clear
  `must_change_password` with it (`PasswordUpdate` after `CliReset`).
* The gate and the handler load the session one after the other
  (`web/app.py:89-94`). A reset in between, or an `enable` of an account that was
  disabled when the gate looked, lets one request through that the gate would
  have redirected, though "`must_change_password` bloquea todas las rutas"
  (`2026-09-06-web-llm-anti-abuso-design.md:652`). `GateHolds` says that nothing
  else does.
* Rows of `sessions` are never deleted.

## 4. What is proved

TLAPS checks every theorem for all values of the constants, under the named
assumptions only: `JobsAssumption`, `RetentionAssumption` (retention of at
least one rate window; needed for `RateLimit` alone), `ServiceAssumption`,
`LateWritesAssumption` (below; needed for `NoOrphanDirectory` alone),
`JudgeAssumption`, `WakeUpAssumption`, `ThrottleAssumption`,
`AccountsAssumption`, `MigrateAssumption`, `FirstStartAssumption`,
`AnalysisAssumption` (an export is a sequence of files with natural numbers for
attempts and times). For `Accounts` the constants that bound versions, passwords
and sessions are any numbers, so that the theorems hold for behaviours of every
length.

* **JobsProofs.** `StoreTypeOK`; `OnlyForward` from it, one case per
  statement. `ActiveQuota` is inductive with the types: only `CreateJob` makes
  a row active, and it counts first; the lemmas say how a set of rows may grow
  by one. `RateLimit` needs a strengthening: a deleted row of an account is at
  least as old as the window, because it was finished for longer than the
  retention and `finished` never exceeds `created`.
* **JobServiceProofs.** `TypeOK`; each action of the service is an action of
  the store or stutters on it (`ServiceUsesStore`), so `ActiveQuota`,
  `RateLimit` and `OnlyForward` carry over (`ServiceKeepsQuotas`,
  `ServiceOnlyForward`). `OneHolder` is inductive with `TypeOK` and the order
  of `OnlyForward`: a claim needs a queued row, and a held row is past it.

  The rest of it is about files. `StepStatement`, `StepFiles`, `StepStages` and
  `StepPuts` say once what one step can do to a row, to a directory, to a worker
  and to a PUT; the invariants are then proved for one job, worker or slot at a
  time.
  `NoOrphanDirectoryHolds` needs a strengthening: a row has no time of its end
  before it ends, and the row of a job that a worker holds ended no longer ago
  than the stages the worker has behind it may take (`HeldRow`). All of them
  take `JobTimeout + JudgeTimeout + WriteTime` at most, and
  `LateWritesAssumption` says that this does not exceed `Retention`. The defaults
  (30 minutes, 30 minutes, 12 hours) are far from it, `config.py` does not
  enforce it, and with a shorter retention TLC shows a report written after the
  `DELETE`, in a directory no pass will look for. `DeletedForGood`
  goes with it: a deleted row never returns, nor does its directory.
  `InputIntactHolds` is for the behaviours in which no two PUTs of one job
  overlap (`[]PutsApart`): without it the run `service_overlapping_puts` refutes
  it. Its invariant (`PutInv`) says that the job of a PUT is not queued or
  running, and that the open file is the PUT's own while the row awaits the
  upload.
  `ReportKeptHolds` needs that a worker past its analysis has the report on disk
  while the row says running or failed (`ReportInv`), and `OneHolder`.
* **JudgeProofs.** The inductive invariant is `TypeOK` and, for each batch, a
  statement per phase of what its rows, calls, results and note can be. From it
  come `OneResultPerItem` and `GapsAreNoted` (the items of a batch are its rows
  but for the unread ones, unless the note says otherwise), `SilentWhenDone`, and
  `ResultsFrozen` as an action property. `WithinBudget` adds a second invariant,
  which bounds all items charged so far by the budgets of the past days and the
  counter of today. `TwicePerCharge` adds a third (`PostsInv`): the POSTs of an
  item are numbered, none precedes its submission, and there are two at most, the
  second not before the retry; with `WithinBudget` that makes two per charge.
* **WakeUpProofs.** `NoLostWakeUp` is inductive with the types: the event is
  cleared only by a worker that polls in the same step.
* **ProcessTreeProofs.** `FewJvms` with the places of the two programs: no two
  JVMs of one job run at once, the current job has none but the one `run_jplag`
  waits for, and a job that ended by itself has none (`TreeInv`).
* **AccountsProofs.** `Moves` says once what a step can be: one of nine
  statements on the tables, the gate, or a quiet step. `IInv` has seven
  parts. `StampsBehind`: ids are unique and no version that was copied, by a
  row or by the handler in execution, is ahead of its account's; so a bump
  leaves all of them behind, and what was revoked stays revoked. `ResetInv`: a
  version that is still current was read no earlier than the last completed
  reset, also by a handler that has not inserted its row yet. `EscapeInv`: of the
  current sessions of an account at most one has an older `base`, and there is
  none while a handler that may insert another is under way. Together they give
  `ResetReaches`. `GateInv` says that the session of a waiting request is there,
  and `OpensByCommand` goes through the steps that may open or close its window,
  for `GateHolds`; `ChangeInv` gives `ChangeLeavesOne`. `ImplementsSessions` is the refinement: `Mapped` says where
  each session is, an INSERT maps to `Issue`, the three bumps to `Revoke`,
  expiry to `Expire` or, for a session already revoked, to a stutter.
  `GuessBoundHolds` is by the order of the rows: ages never rise along the
  sequence of a key, so those a tick takes out are the first ones, and dropping
  them keeps the order; a row is added only below the limit.
* **FirstStartProofs.** `SchemaSound`, with `InsideIsCurrent`: a process inside
  a script holds the version on disk and finds all it executed. Hence whoever
  executes a first statement is alone: with an old version the statement is
  done, with the current one it is done if anybody is inside. `SetupIsFirst`
  follows from the steps.
* **AnalysisProofs.** The four invariants of `Analysis`, for every export, every
  set of similarities and every report. Induction over data is stated with sets
  (`Least`, `UpTo`, `BySize`), because a theorem with a predicate as a parameter
  cannot be used here. `Iterates` gives a run of any loop whose body is a
  function, `ScanFinds` what the loops of the code find; from it `FirstAcFinds`,
  `FirstTsFinds`, `BestFinds` and `BestPairFinds`, and then `RowsByDefinition`,
  `SentIsLatest` and `ScoreExplained`, whose strengthening (`Unmerged`) says
  that before the merge a row counts its own signs and names nobody.
  `FastAreFew` is a one-sided Chebyshev inequality (`FewFarBelow`): with t for n
  times the smallest distance of a fast time below the mean, the squares
  (t + s - n x)^2 sum up to less than 2 n t^2, and a fast time contributes
  4 t^2. It needs the sums of `SumFunction` over all subsets (`SumsExist`).

Only model-checked: the seven liveness properties (`EveryJobEnds`,
`EverythingRemoved`, `FreeWorkerTakesJob`, `BatchEnds`, `JvmHangEndsJob`,
`ThrottleEnds`, `InstallationEnds`), because fairness is out of the prover's
reach. Every invariant, action property and refinement of a passing run is
proved; `InputIntact` for the behaviours of `PutsApart`, which are all those of
its run, with its one slot for uploads.

## 5. Not modelled, and why

* Rendering, the workbook's layout, wording of notes, logging, `set_progress`
  and `set_pid`: no decision of the program reads them.
* Text: file names, dates, style statistics (a file is `commented` or not), the
  model's JSON. `Analysis` starts from parsed files, in any order.
* Which archives `validate_and_extract` accepts: in `JobService` it succeeds or
  raises. Its checks are comparisons of sizes, counts and names within one
  sequential function.
* Cookies, CSRF tokens and hashes: a request that shows a session id has it, and
  a hash fits exactly the password it was made from.
* A reader of the tables between two statements other than those named; the
  lists and pages that only display rows.
* `database is locked` (five seconds behind another writer) in request
  handlers and in the clean-up. In a worker a raising statement looks like
  `ClaimLost` or `WriteFails`.
* The graceful stop of the lifespan: cancelled coroutines leave the rows as a
  death between two awaits does (`Crash`), and `Start` reconciles them.
* A subprocess that outlives the kill of `_replace_pool`: it is killed before
  the row is failed. A pool whose process was killed while it extracts cannot
  write later.
* A death inside `_cleanup_once` after some, not all, of several expired rows
  were deleted, or between the two UPDATEs of `sweep_stale`: the modelled
  deaths lie after the removal of one directory (`CrashInCleanUp`) and before
  the removal of the directories of stale uploads (`CrashInSweep`). The next
  pass selects what is left by the same conditions.
* Reuse of process-group ids by the kernel.
* The command line (a sequential use of `run_analysis` and of the judge, without
  budget or deadline), the browser side, deployment.

## 6. Plan

What is left, the most consequential first:

1. Composition: the stages of `JobService` with `Judge` in place of the step
   `EndJudge`, so that the limit of the judge is derived and not assumed.
2. `Archive`: `validate_and_extract`, `_extract` and `_detect_root` over small
   archives, against a reference definition of an acceptable one.
3. The command line with the judge: a pool of its own, no budget, no deadline.
