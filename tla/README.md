# TLA+ models of NEOMAX

NEOMAX runs coding agents (Claude, Codex, Grok, ...) for its user. A *run* is one
task given to a provider's worker process, supervised through failures, limits and
changes of account; a *plan* is a graph of *parts*, each worked on by a run of its
own. Nothing coordinates all this centrally: every command and every supervisor is a
process, and they meet in files, most of them changed under file locks: plan records,
run records, area locks, the ledger of dispatch leases, the queue of sub-agents, the
credentials of accounts, the ledger of repairs, issues, the installation itself. What
is hard to test is what happens between the steps of several such processes, when
some of them die, are slow, or act on what they read too early.

This directory holds TLA+ modules of those parts, the TLC configurations that check
them on small instances, and theorems that TLAPS proves for every instance.
`PROJECT.json` maps each definition to the lines it models and lists the hazards of
the code with the properties about them.

Paths are under `src/crates/neomax-core/src/` unless they begin with `src/` or `cli:`,
which stands for `src/crates/neomax-cli/src/`.

## 1. Inventory

| component | state | operations | interacts with | what makes it hard |
|---|---|---|---|---|
| area locks (`scheduler/locks`) | a JSON file per area of a repository, an advisory guard file | acquire several areas, release, reclaim a stale file | admission of the coordinator | several supervisors, torn files after a crash, staleness by age, `*` against single areas |
| admission ledger (`concurrency/dispatch`) | `dispatch-admission.json`: leases with task, engine, account, session, owner, age | reserve, ensure_reserved, bind, release, snapshot; reaping in each | supervisors, worker threads, direct dispatch | clocks read before the lock, dead owners and reused pids, rebinding, double release |
| plan coordinator (`scheduler/runtime`) | part states, active parts, attempts, retry times, stall counter | tick (block, dispatch, poll, stall check), cancel_active, register_recovered | admission, worker runner, clock | a tick is not atomic; refusals, retries and late outcomes; liveness |
| plan supervision (`scheduler/persistence`, `scheduler/service`) | plan record with revision, status and supervisor lease | start, attach, tick, persist, interrupt, recover | coordinator, other supervisors, the user | two supervisors after a lease ran out, interruption racing completion, a crash between two writes |
| provider runner (`scheduler/service/provider_runner`, `scheduler/service/runner.rs`) | job table, worker threads | dispatch, poll, cancel, adopt | ledger, run store | one lease id for all attempts at a part, released by several parties |
| agent queue (`queue`) | `agent-queue.json`: reservations in FIFO order, budgets | reserve, poll, status, release, set-budgets | orchestrators and their sub-agents | partial grants, budgets lowered under grants, dead sessions, starvation |
| run store, run lifecycle (`runs`) | run records with status, attempt, pids, kill and acknowledgement marks | launch, attempt, finish, kill, resume, retry, ack, clean | provider processes, failover | every step is a locked read or write, and the record may have changed between two |
| failover, accounts, rotation (`runs/failover`, `accounts`, `orchestration`) | account claims, cooldowns, cached quota, credentials | choose, claim, swap or move, tick, rotate, sweep | run supervisors, `rotate-tick`, the user | two rotations choosing one account; a cooldown that stays behind its credential |
| credential transactions (`orchestration/auth`) | credential files, backups, journal | copy, swap, restore | rotation | several files, failing writes, failing undo, crash |
| self heal (`runs/reconciliation`) | ledger of repairs | reserve, kill orphan, resume or retry, complete | run store, other invocations, the user | overlapping invocations, decisions on old records, a crash between reservation and completion |
| issue registry (`issues`) | a file per issue, claims | open, claim, next, batch, release, set, link, comment, close | agents of several sessions | two locks for one file, claims of dead sessions |
| installation (`installation`) | installed files, settings, manifests, backups | install, upgrade, seed a profile, uninstall, undo | user and Claude Code, who edit the same files | failure or crash between two renames; whose file is it |
| integration workspaces, tasks, shepherd, usage, sessions, providers, settings, projects, input and output | tables, parsers, commands, git | | | data or I/O: section 7 |
| command line, portal, TUI, usage agent, worktree tool, installers | | | | front ends and scripts: section 7 |

What makes each component correct, in a sentence:

* area locks: two runs never work in overlapping areas while their locks are young;
* ledger: no cap is ever exceeded, whoever dies or comes late;
* coordinator: a part runs once its dependencies are done and not before, holds
  exactly what it needs, is retried a bounded number of times, and every plan ends;
* supervision: one process drives a plan at a time, no worker is forgotten or started
  twice, and what the record calls done is done;
* provider runner: a worker has its lease until it has ended, and no failure leaks one;
* queue: first come first served, nothing idle that is wanted, and nobody starves;
* run lifecycle: one worker at a time, and a kill and a recorded result stand;
* rotation: no two rotations take one account, an account at its limit is the one that
  cools, and no run goes back to it;
* credential transactions: all or nothing, and no login is ever lost;
* self heal: a broken run is repaired by one invocation, and only if nobody works on it;
* issues: one owner of a claim, one open issue of a fingerprint, no claim lost;
* installation: all or nothing, and what is the user's stays the user's.

## 2. Plan

The modules, in the order in which they build on each other; all of them exist.

1. `AreaLocks`, `DispatchLedger`: what admission is made of.
2. `Coordinator`, which implements the abstract `PlanLifecycle`: the tick of one plan.
   What admission and the runner answer is nondeterministic in it.
3. `PlanSupervision`: the record of a plan and the processes that compete for it.
4. `WorkerDispatch` composes the dispatching processes of a plan with an instance of
   `DispatchLedger`, and implements it.
5. `AgentQueue`: grants of sub-agents.
6. `RunLifecycle`: the record of one run; `AccountRotation`: where a run goes whose
   account is spent; `AuthTransaction`, which implements the abstract
   `CredentialStore`: the steps of one swap; `SelfHeal`: who repairs runs.
7. `IssueClaims`, `Installation`.

For each module `M` but the two abstract ones there is an `MCM` with its configuration.
The proofs (section 6) are in modules of their own: one each for `Coordinator`,
`PlanSupervision`, `WorkerDispatch` and `IssueClaims` (`M_proofs`), and four for two modules
each, which follow one another: `Reservations_proofs` (`AreaLocks`, `AgentQueue`),
`Accounts_proofs` (`DispatchLedger`, `AccountRotation`), `Runs_proofs` (`RunLifecycle`,
`SelfHeal`) and `Transactions_proofs` (`AuthTransaction`, `Installation`). That is why
definitions that every module has go by a longer name in the second of each pair
(`QueueInit`, `HealInit`, `RotationSpec`, `InstallTypeOK`).

What is left, most valuable first:

* `RunLifecycle` with worktree outcomes, pull requests and `tidy`; `IssueClaims` with
  `link --pr` and `reconcile`; `Installation` with several profiles.
* The parsers and rankings as functions against reference definitions: provider
  events, scores of accounts, the scheduling of usage windows.

## 3. Modules and code

In all modules an action is one step that other processes cannot see the middle of:
one transaction under a file lock, one write of a file (a rename, `atomic.rs`), one
signal, the start of a process. Reads before a lock is taken are steps of their own
wherever the code acts on them later. A crash may come between any two steps of a
process in the modules that have crashes, and leaves files, workers and leases behind.

**AreaLocks.** An area stands for its lock file, `file` for the directory. One
acquisition is `BeginAcquire` (take the advisory guard, normalise the request),
then `TakeArea` or `RefuseArea` for each area in turn, and `FinishAcquire`; a
crash leaves the files, one of them perhaps torn. `Stale` is `FallbackTtlLiveness`,
which the plan commands construct; its time is the manager's construction time
(`built`), as in the code. `holds` are the grants that callers believe they have.

**DispatchLedger.** `leases` is the table in the file. Each public operation is one
action, one file transaction on the time its caller read before it waited for the lock
(`t`, at most `clock`), and begins with `Reap`. The operators `...Tx` are transactions
as functions of the table, so that proofs can speak of tables. Process ids are reused:
`Launch` may bring a dead owner's id back to life.

**Coordinator.** One action per step of `RuntimeCoordinator::tick`: `BeginTick`
(blocking, listing what is ready), one of `SkipWaiting`, `PlanFails`,
`CapacityExhausted`, `AreaBusy`, `Admit` and then `Launch`, `LaunchDeferred` or
`LaunchFails` for each ready part, `StopDispatch`, `PollEmpty` or `PollOutcome`
for each active part, `EndTick` with the stall count. Between any two of them
workers end (`WorkerEnds`) and time passes (`TimePasses`). Retry times are relative
to now. `areas` and `leases` are what admission and runner hold for each part.
**PlanLifecycle** is the same plan with nothing but part states.

**PlanSupervision.** `rec` is the plan record reduced to status, part states and
lease; `mem`, `act` and `launching` are what a process holds in memory, `run`
and `host` the workers, which outlive processes. A load and a save compared by
revision are one action, since a save after an intervening write fails and the command
ends with an error: `Exit`. `unrecorded` is a history variable: the parts whose latest
worker the record was never told of.

**WorkerDispatch.** `step`, `act` and `job` follow one dispatch of a process from
admission over the bound lease to the job table; `att` is the list of attempts at a
part with the state of the thread and of the worker. All attempts at a part share one
scheduler run id, and so one lease, which the thread, the poll, the coordinator and the
recovery release by that id: the operators of the instance `Ledger` are called for it,
and its own `Next` is the abstract specification. `mode` is what a process is to the
plan, the only thing kept of `PlanSupervision`.

**AgentQueue.** Each command of `neomax queue` is one transaction: drop reservations
that are too old or whose session is known to be dead, apply the operation, allocate
(`Allocated`). Each of the two passes of the allocation is a recursive function over the
list (`Serving`), which carries what is free and how many tasks have agents. Time and
deaths are those of when the command began (`lag`, `seen`). `told` records what callers
were answered.

**RunLifecycle.** `rec` is the file of one run; a process is its supervisor, and `sup`
holds how far it is in the loop of `runs/coordinator/loop_runner.rs`, with its own copy
of the record, which it writes back at the places where the code does. `kill` has the
three steps of the kill command (mark, signal, clear), `Rerun` resume and retry,
`janitor` ack and clean. Where `StoreFails`, the error paths are taken.

**AuthTransaction.** One transaction at a time (they share a lock):
`Save` backs up a profile, `Apply` writes the next file, `Undo` takes the last write
back, `Log` appends to the journal. A file is the account it belongs to. Backups have
a time in seconds and are otherwise unordered, as their names are random. It implements
**CredentialStore**, in which copy, swap and restore are atomic.

**AccountRotation.** Supervisors, the tick and the rotate command
each look, choose and claim a target, move and conclude (`Look`, `Choose`, `Move`,
`Resume`, `Stop` and their kin); they share `holds`, `cool`, `cache` and `claims`; a swap
is two steps under the lock of the account metadata (`Swap` for the credentials,
`MoveQuota` for cooldowns and caches), so that others see the half of it. Which of the
eligible accounts is chosen is left open.
A behaviour starts from one of `Setups`.

**SelfHeal.** An invocation reads runs and time once (`Begin`) and goes through them:
`Skip`, `Reserve` under the ledger's lock, `KillOrphan`, `StartRun`, `Works`,
`Complete`. `due` and `count` are history.

**IssueClaims.** `issues` are the files; a command reads time and live sessions when it
begins. Claims and releases are load and save under `.claim.lock`, with the file lock
taken only for the save, as in `issues/store/claims.rs`; every other change is one step
under the lock of the issue; opening is a search and a write under `.open.lock`.

**Installation.** `StageBackup`, `Activate`, `UndoFile` and `Commit`, and `LookAgain`,
`RemoveWorkflow`, `ReadSettings`, `Unhook` and `Unrecord` of an uninstall, work on five
files: the package, its manifest, a workflow, the settings, the workflow manifest. A
rename across devices fails and the file is copied instead, which is undone
differently. What is the user's is found out before the first step (and once more by an
uninstall), and the user changes files at any time (`Edit`, `WriteSettings`).

## 4. What is checked

Every run is exhaustive within its bounds. Symmetry is used only in runs without
liveness, over sets whose elements nothing distinguishes. Names that begin with
`Max` and are marked as bounds where they are declared exist in the model only, like
the numbers of crashes, kills and so on; `MaxLive`, `MaxStall`, `MaxAttempts` (of
Coordinator and SelfHeal), `MaxDefer`, `MaxBatch`, `MaxBackoff` and `MaxAge` (of
SelfHeal) are the program's.

| run | question | instance | states |
|---|---|---|---|
| `area_locks` | do grants exclude each other, are locks leaked, is a young grant backed? | 2 supervisors, 2 runs, 2 areas and `*`, TTL 1, clock to 4, 1 crash | 118 k |
| `dispatch_ledger` | is a cap ever exceeded? | 4 leases, 2 each of tasks, engines, accounts, sessions, pids; caps that do not mask each other | 4 k |
| `coordinator` | does the tick keep its books, implement the life cycle, and end every plan? | diamond of 4 parts, `max_live` 2, 2 attempts, deferral up to 2 | 72 k |
| `plan_supervision` | is a worker forgotten or doubled, is done done? | 2 processes, 2 parts, 2 interrupts, crashes | 628 k |
| `agent_queue` | is the queue fair and busy, and keeps its word? | 3 tasks asking for 1 or 2 of 1 or 2 agents, task budgets none or 2, 1 session | 95 k |
| `worker_dispatch` | does a worker keep its lease, is one leaked, is the ledger used as specified? | 2 supervisors, 2 parts, 2 attempts, 1 slot | 432 k |
| `run_lifecycle` | one worker, kills and results stand, a killed run stops | launcher and one process that resumes or retries, 2 accounts, 1 kill, 1 crash, failing store | 360 k |
| `auth_transaction` | is a login lost, is a transaction atomic? | 3 profiles of 2 files, 2 transactions, 2 failures, also of undoing, 1 crash | 148 k |
| `account_rotation` | are two rotations kept apart, does the spent account cool and stay away, does every run end? | 3 profiles, 2 runs, three setups | 810 k |
| `self_heal` | is a run repaired twice or taken over? | 2 overlapping invocations, 2 orphans, 1 kill, 1 rerun, 1 crash, 1 failure | 1.0 M |
| `issue_claims` | is a claim taken or lost, an issue opened twice? | 3 commands (2 of a session), 2 issues, 1 crash, a clock that passes the TTL | 1.3 M |
| `installation` | all or nothing, is the user's kept, does an uninstall find everything? | 3 commands, 2 versions, 3 devices, 2 failures, 1 crash, 1 edit | 1.3 M |

*Why these bounds.* Two processes are what an interleaving needs, a third command or
account where the first two have to be met by one that comes later. A clock passes each
TTL. Four leases exceed every cap of the ledger by one. The diamond has a part
with two dependencies, two parts ready together and more ready parts than places after
a retry. Three tasks make a queue with a running one, one in front and one behind; the
budgets are such that a grant may be partial, complete or refused. Three profiles let a
swap bring back a credential that an earlier one moved away. Two failures are one in a
transaction and one in undoing it. Three commands of the installation are an install,
one that fails or dies half way, and the uninstall after them. The instances of the
three setups of `account_rotation` keep apart what need not be together: a supervisor
beside the tick, beside the rotate command and sweep, and beside another supervisor.

*Type invariants.* Every module has a `TypeOK`, an invariant of its specification;
no run lists it, since it is a theorem (section 6) of every module but the two abstract
ones, where it says no more than that the model is well formed.
It can be added to any configuration.

*Deadlock* is checked in `area_locks`, `dispatch_ledger` and `agent_queue`. Plans,
commands and runs end, so it is not in the others.

*Settings that leave a behaviour out.* Some properties are right only as long as
processes keep to what the code's own time limits suppose, and the code has nothing to
enforce it. These suppositions are constants, so that they are in the open; what happens
without each of them is in "Known disagreements".

| constant | what it supposes | without it |
|---|---|---|
| `Timely` (PlanSupervision) | a tick is shorter than the plan lease of 30 s, which is refreshed only when a tick begins and when it is persisted (`heartbeat_supervisor` exists and is not called), and who has read the record acts before the lease runs out | all its properties are violated |
| `Orderly` (WorkerDispatch) | a plan changes hands only when its driver is dead | `HeldUntilEnd` is violated |
| `MaxTime` = TTL (WorkerDispatch) | a worker is not older than the TTL of its lease | `HeldUntilEnd` is violated |
| `Patient` (RunLifecycle) | resume, retry, ack and clean are given when no supervisor lives, and one at a time | `SingleWorker`, `KillStands`, `ResultStands` are violated |
| `Obedient` (RunLifecycle) | a worker ends at SIGTERM before the kill command goes on | `SingleWorker`, `ResultStands` are violated |
| `SafeSpawn` (RunLifecycle) | no crash in the moment between the start of a worker and the record of its pid | `SingleWorker`, `ResultStands` are violated |
| `Faulty` = launcher (RunLifecycle) | a resume or retry can read and write the record | `KillStands`, `ResultStands` are violated |
| `Patient` (AccountRotation) | a rotation is over before its claim runs out | two rotations may take one profile |
| `Undisturbed` (AccountRotation) | nobody gives the rotate command and no sweep swaps credentials while a run works with them; and where credentials are swapped in place there is one run and at most one tick | `CoolFollows`, `Fresh`, `SpentIsCooled` are violated |
| `Repeat` = FALSE (SelfHeal) | `--allow-repeat` is not given, as is the default | `Spaced` (below) is violated |

Other limits: `AreaExclusion` and `GrantBacked` hold up to the TTL of the time stamp,
because staleness is judged by age alone: a supervisor that lives longer than the TTL,
or stamps its files with its construction time late in its life, loses the exclusion.
The commands `run-all recover` and `run-all tick` end after one step and leave
their lease live for the rest of its 30 s.

### Known disagreements

Where the code does not do what a document, a comment or a test of the repository says,
or what one would expect of it, the modules follow the code. The properties named here
stand at the end of their modules, or are the properties of section 4 under the setting
that is named; TLC finds each of them violated when it is put into the module's
configuration. Documents are in `src/docs/`.

*Plans*

* `NoStallVerdict`, `DeferredStaysPending` (Coordinator, `MaxStall` 1): the clock is
  read in the dispatch loop and again for the stall check, and a part deferred in between
  is blocked as stalled.
* `LeaseCoversRun` (Coordinator): a worker whose launch could not be recorded loses
  its lease while it winds down. SCHEDULER-CAPACITY.md:28 has the lease "released when
  the worker reaches a terminal outcome".
* `NoDuplicateDispatch` (PlanSupervision): cancelling a managed worker only marks its
  run, and recovery takes the mark for the end; a second worker is started beside a
  living one if the supervisor ends before its monitor thread has stopped the first.
* `DoneMeansDone` (PlanSupervision): `attach` loads part states before it has the
  lease and saves them after; a plan that completed in between is done with parts that
  are not (`scheduler/service/start.rs:144`).

*Leases of workers* (WorkerDispatch; both against SCHEDULER-CAPACITY.md:28)

* `HeldUntilEnd`, `MaxTime` 2: `reap` drops every lease older than the TTL, also when
  owner and worker live, and nothing renews one (`concurrency/dispatch/capacity.rs:147`).
* `HeldUntilEnd`, `Orderly` FALSE: a supervisor that was overtaken still releases the
  common lease id when its thread ends or its poll finds the job finished
  (`scheduler/service/provider_runner/jobs.rs:150`), by when the new supervisor's next attempt may run under
  it; and `ensure_reserved` leaves an adopted lease with its old owner, with whose end the
  lease is reaped (`concurrency/dispatch/store.rs:118`).

*Runs* (RunLifecycle). REFERENCE.md:605-606: "A live or orphaned run must be
killed before resume or retry."

* `SingleWorker`, `Patient` FALSE: while a supervisor chooses the next account the record
  says `limit` with no worker. Resume and retry look at status and worker only, count the
  attempt up to the same number as the failover, and start a second worker.
* `SingleWorker`, `SafeSpawn` FALSE: a crash between the start of a worker
  (`runs/execution/process.rs:117`) and the saving of its pid leaves a worker that nobody
  sees; the run is `interrupted` and can be resumed.
* `SingleWorker`, `Obedient` FALSE: killing an orphan sends SIGTERM once and takes the pid
  from the record whether the worker ended or not (`cli: operations/run_lifecycle/control/kill.rs:116`).
* `ResultStands`, `Patient` FALSE: `finish` replaces the record by the supervisor's copy
  without comparing attempts (`runs/lifecycle/finalize.rs:77`), although a test says that
  "stale attempts cannot overwrite a resumed attempt" (`runs/store.rs:301`); and `clean`
  removes by name what it read earlier (`cli: operations/workflows/runs/cleanup.rs:150`).
* `KillStands`, with a process that resumes in `Faulty`: the error branch of resume and
  retry writes `error` without looking at the kill mark
  (`cli: operations/run_lifecycle/control/rerun.rs:132`); the launch has a test against that.
  With `Patient` FALSE, the stale copy of `finish` undoes a kill as it undoes a result.
* A missing acknowledgement counts as given, for records of older versions, but a new
  record lacks it too (`runs/record.rs:220`): a run interrupted in its first attempt may be
  cleaned unread.

*Accounts*. REFERENCE.md:41-42: "Quota cache entries and cooldowns move with
credentials."

* `CoolFollows` (AccountRotation) needs `Undisturbed`: of those who swap credentials in
  place one at a time has to do with a profile. The tick without models swaps the
  credentials of a limited run and leaves the run limited, so that the next tick swaps the
  healthy credential away and cools it; and two runs of one profile at its limit do the
  same to each other, as the source of a swap is not claimed.
* `CacheFollows` (AccountRotation): the armed sweep swaps credentials and leaves the
  caches where they are (`cli: operations/rotation/tick/armed.rs:287`).
* `Audited` (AuthTransaction): when the journal cannot be written, copy and restore return
  the error with the credentials changed, where swap undoes the change
  (`orchestration/auth/service.rs:81`).

*Repairs* (SelfHeal). REFERENCE.md:850-858.

* `Spaced`, `Repeat` TRUE: the time of a reservation and of its backoff is that of the start
  of the invocation, and the repairs before it last as long as the runs they start.
* `RepairsBroken`: a run that the user killed is one to resume, and a run that ended well
  after the invocation had read it is started again (`runs/reconciliation/service.rs:60`).
* `KillsOrphans`: the executor kills the run of an orphaned plan without looking again
  whether it is still one.

*Issues* (IssueClaims)

* `ReleaseNeedsAny`: `release` decides whose claim it is before it takes the lock, and then
  clears whatever claim it finds; REFERENCE.md:826-827 says that "`--any` is required to
  release another live owner's claim".
* Claims and releases save the issue they loaded under another lock than all other changes:
  a status, comment or link set in between is lost, and an issue closed in between open again.
  `OnlyUpdatesLost` says that nothing else is.
* A claim stamped later than another command's clock is void for it, as is one of a session
  registered after that command began; `ClaimHolds` says "void for the command" for that reason.

*Installation*. INSTALLATION.md:193-194: "If an activation step fails, the previous
files are restored."

* A step of the undoing that fails loses the file: its backup is in a temporary directory
  that is deleted, although the error message names it. `AllOrNothing` and `CleanRemoval`
  except commands that ended so.
* A crash during an upgrade leaves a package whose hash is not that of the manifest; install
  and uninstall then refuse without `--force`. A crash between the settings and the
  workflow manifest leaves hooks nobody has recorded: `CleanRemoval` excepts it.
* An uninstall that fails after the package is gone leaves workflows and hooks, and a second
  one finds no installation. The directory `share/workflows` stays after any uninstall, so
  that the next launch may seed a profile with hooks of a missing program.
* What the user changes between look and replacement is overwritten; hence the `touched`
  of `KeepsMine` and `EditsKept`.

## 5. Fairness

* `coordinator`: weak fairness of `Ticking` (the run loop calls `tick` until the plan
  has ended), of `TimePasses` and of each `WorkerEnds` (`run_monitored` kills a worker at its
  wall time limit, four hours unless the settings disable it); strong fairness of `Admit` and
  `Launch` of each part: admission and runner do not refuse a part for ever although
  they are asked again and again. The code cannot promise that alone; it holds when other
  plans' workers end and give back areas and leases. A plan that is interrupted need not end.
* `agent_queue`: whoever has agents releases them some day, or is reaped. This is the duty of
  the callers (their workflow ends with a release); the queue's own actions need no fairness,
  as each command allocates.
* `run_lifecycle`: weak fairness of supervisors and of a kill that was begun. None of workers:
  `KillStops` holds for one that ignores SIGTERM and has no time limit, since its
  supervisor sees the mark and escalates.
* `account_rotation`: weak fairness of supervisors, of the end of an attempt, and of `Move`,
  as who has begun a swap gives the lock back.

No fairness is assumed of failures, crashes, interrupts or commands.

## 6. What is proved

Each theorem holds for every value of the constants that satisfies the `ASSUME` of its
module (finite sets, caps and bounds that are natural numbers, a dependency graph with
a topological order `Rank`, which exists because the graph was checked for cycles).

* **AreaLocks** (`TypeCorrect`, `Exclusion`, `Backed`, `NothingLeaks`). Exclusion alone is not
  inductive. `IInv` adds that only the holder of the guard is inside an acquisition
  (`GuardInv`), that it is alive (`AliveInv`), that no manager's time is ahead of the clock
  (`BuiltInv`), that one manager drives a run and either holds or acquires for it
  (`DriverInv`), that young grants are backed by their files (`GrantBacked`) and what the
  areas taken so far by a pending request exclude (`TakenInv`). A stale file is older than
  the TTL (`StaleIsExpired`), so reclaiming never touches a young grant.
  `NoLeakedLock` is inductive together with it.
* **DispatchLedger** (`TypeCorrect`, `WithinReservationCaps`, `WithinAccountCaps`). Every
  transaction maps a table within the caps to a table within the caps: reaping and
  releasing take leases away (`SubTableCaps`), a reservation or a bind adds at most one to
  each count it has just checked (`OneMore`).
* **Coordinator** (`TypeCorrect`, `DrivesWhatRuns`, `HoldsWhatItUses`, `AttemptsBounded`,
  `LiveBounded`, and for `MaxStall > 1` `NeverStalled` and `Refinement`, which are both false
  with 1). `IInv` joins the bookkeeping invariants with where the tick is (`TickInv`), the
  stall count (`StallInv`), what a record may hold (`Sound`) and that a pending part has no
  worker left from an earlier attempt (`NoOldWorker`). The heart is `SomethingReady`: in an
  unfinished plan where nothing runs and blocking has settled, the pending part of least rank
  is ready (`LeastRank`), so an idle tick has dispatched it or waits for it, and the stall
  count never passes 1. `Refinement` maps each step to a step of `PlanLifecycle` or to a stutter.
* **PlanSupervision** (`TypeCorrect`; and assuming `Timely`, without which each of them is
  false, `SingleDriver`, `WorkersAccounted`, `WorkersAreSingle`, `DoneBacked`). The types need
  that a launch is under way only in the dispatch loop, of a part still pending (`LaunchInv`),
  and that a process which has not begun drives nothing (`FreshInv`). Everything else rests
  on `DriversOwn`: every process past its acquisition has the live lease, so that the record
  is written by one process. `WorkInv` then says which workers are known: who drives, and has
  looked at the workers once, follows every running worker the record knows of (`FollowInv`), a
  process that has not driven yet follows none (`EarlyInv`), a plan is ended only when nothing
  in it runs (`EndInv`), and where a tick may take the lease without looking at the workers
  there are none (`QuietInv`). Hence a live worker is never forgotten (`WorkersAccounted`), and
  a launch, of a part that is pending for a driver, finds none (`WorkersAreSingle`). `DoneInv`
  extends `DoneIsBacked` to all copies of the record (`MemInv`), since any may be the one that
  is saved next, and says how far a copy may be behind the record: not at all when its process
  can take a free lease (`ReadInv`), and never so that a part that is over is open again
  (`CopyInv`, `OldInv`).
* **WorkerDispatch** (`LedgerRefinement`, `NoLeaseLeaks`; assuming `Orderly` `TypeCorrect`, and
  with `MaxTime <= Ttl` `LeasesAreHeld`). Every step is a transaction of the ledger or leaves
  it alone; for that the only invariant needed is that times read are not ahead of the clock
  (`TimeOK`). So the caps proved of `DispatchLedger` hold of the composition. `LeakInv` gives
  the reason for which a live process has a lease, and needs no order among processes. For
  `LeasesAreHeld` the invariant has to say who may release a run id: only one process has to
  do with the plan at a time (`AloneInv`), what is active runs in the record and is its last
  attempt (`ActInv`), what is dispatched is pending (`StepInv`), no process recovers its own
  workers (`HostInv`), and only the last attempt can have a thread that goes on (`ThreadInv`).
  Then whoever needs a lease has it (`HeldInv`), and each release meets no other need. Without
  `Orderly`, or with a lease that outlives the TTL, it is false (section 4).
* **RunLifecycle** (`TypeCorrect`, `OneWorker`, `KillsStand`, `ResultsStand`). They assume the
  settings explained in section 4, each only those without which it is false: `OneWorker`
  `Patient`, `Obedient` and `SafeSpawn`; `KillsStand` `Patient` and, as the error branch of
  resume and retry ignores a kill, that only the launcher's access to the record fails
  (`Faulty`); `ResultsStand` all of these. The invariants: one supervisor lives at a time, and its copy has
  the attempt of the record (`OrderInv`); a worker is the live supervisor's or the one in the
  record, and a kill that goes on has marked the record first (`WorkInv`, with `Fits` for each
  process); a killed record is aborted, no copy has a kill that the record lacks, and only the
  launcher can come to the branch that gives a run up (`KillInv`); a result recorded with its
  end meets no supervisor that would put another one in its place (`ResultInv`).
* **AuthTransaction** (`TypeCorrect`, `KeepsLogins`, `StoreRefinement`). `Covered` says that a
  login which a transaction found is where it found it or in a backup, and that nothing is
  written before what it overwrites is in a backup; what is still to be undone restores what
  was found. A crash anywhere, and a failure in undoing, leave it true. For the refinement
  `StoreInv` adds what each profile's login is on its way to (`Aim`, `Toward`); then the step
  that ends a transaction, by its journal, its undoing or a crash, is a copy, a swap or a
  restore of `CredentialStore` or changes nothing, and every other step is a stutter.
* **IssueClaims** (`TypeCorrect`, `ClaimsHold`, `OpensOnce`, `LosesOnlyUpdates`). `Relies`: what
  a command found void under `.claim.lock` stays void until it saves, as claims change only
  under that lock and a dead process stays dead (`Named`), and the issues that `open` found
  under `.open.lock` stay all there are. `Knows`: a command is about issues that exist.
  `HistoryInv` follows each event through files and copies: the commands that change an issue
  outside of `.claim.lock` do so once and are over then, and what a save lacks of its issue are
  their events (`Lost`), never a claim, a release or the opening, which only a holder of that
  lock adds; as long as it lacks nothing its status is one the issue's may change to.

* **AccountRotation** (`RotationTypeCorrect`, `OneTakerAtATime` assuming `Patient`,
  `CoolingFollows`, `TriesAreFresh`, `SpentAlwaysCools`), for any number of profiles, runs and
  setups. `RotationInv` says what each rotation is about while others go on (`PlanInv`: whose
  account it leaves, and that its target is another one, tried by nobody and not busy when
  it looked) and that who has taken a profile still has its claim (`ClaimInv`), which only
  `Patient` makes true. `UndisturbedInv` holds where `Undisturbed` does: who swaps is alone with
  the credentials (`AloneInv`), the account a run uses is where the run believes it to be, or at
  the target of the swap under way (`LodgedInv`), cooldowns are where the credentials were before
  the half of the swap that is done (`CoolInv`, `Before`), and the spent accounts of a run are
  with profiles it has tried and left (`SpentInv`). From that no try is of a spent account,
  whether a swap succeeded, failed half way or was swapped back.
* **SelfHeal** (`HealTypeCorrect`, `OwnReservations`, `RepairsOnce`, `NeverTakenOver`), for any
  number of invocations, runs, crashes and kills. `RepairInv` bounds a repair under way by its
  entry in the ledger, so that a reservation made now has a number nobody else has (`AloneInv`).
  That a run without attempts has nothing under way and is not due (`FreshInv`) is what makes
  the second repair fail without `--allow-repeat`. The count of repairs under way in an entry is
  never less than that of the invocations which do them, and is more only after a crash
  (`FlightInv`, with the cardinality lemmas it needs).
* **Installation** (`InstallTypeCorrect`, `AllIsDoneOrNothing`, `UsersFilesKept`,
  `UsersSettingsKept`, `UninstallLeavesNothing`), for any number of commands, versions, failures,
  crashes and edits and any placement of the files on devices. `CommandInv` follows one
  command: its plan is sensible for what it found (`PlanOK`); each file is as found, moved away,
  copied, or in place, as its entry says (`HandledOK`); the entries are of the files before the
  first that is to do (`OrderOK`); without `--force` no file of the user's is in the plan
  (`MineOK`); what the user changes meanwhile is one of few things (`UserOK`); and an uninstall
  that is past the package has no backups left (`LateOK`). `KnownInv` says that whatever is
  in a profile is recorded in the workflow manifest, between commands as well as in what a
  command found, as long as none has died or failed to undo its steps (`Harmed`); so the
  uninstall, which removes what is recorded, finds everything.

* **AgentQueue** (`QueueTypeCorrect`, `NeverIdle`, `FirstComeFirstServed`, `PromisesKept`), for
  queues of any length, any budgets and any wait for the lock. Its definitions recur over the
  list, and the induction theorems of the library cannot be used (they take an operator as a
  parameter). `CountUp`, induction up to a number, is proved from the well-foundedness of
  strict inclusion of finite sets, with the interval `1..n` for the number `n`; `Recursion`, that
  a function defined from step to step exists, from `CountUp`. They give the equations of
  `Sums`, `Serving` and `Retained` (`SumsDef`, `ServingDef`, `RetainedDef`), and by counting up
  what these compute: what is handed out is what was free (`HandOutSum`); if something is left,
  everybody got what he asked for (`AllServed`); who waits starts in the order of the file
  until nothing is free or no place is left (`WaitingServed`); what is kept is kept in its order
  (`OnlyKeeps`). `AllocatedLemma` puts both passes together. `QueueInv` needs beside the
  properties that nobody has more than he wants (`Modest`), as `used` counts no more than that,
  that who has agents comes first (`Ordered`), and that a promise is of the session and the age
  that the file has (`Promise`).

Only model-checked: the liveness properties `Terminates`, `Served`, `KillStops` and `AllEnd`,
which rest on fairness and are out of the prover's reach. Every other property of a run is a
theorem. Nothing here is `RECURSIVE`.

## 7. What is not modelled

* Of plan supervision: `detach`, which writes an event and nothing else, the steps of
  `start` before the plan runs, and the cleanup transitions (`RequestCleanup` and those after
  it), which nothing in the repository calls. Of the area locks: `RunStoreLiveness`, which
  no plan command constructs.
* Of runs: what becomes of worktrees, pull requests and `tidy`; how a failure is classified
  from a provider's output; which of several eligible accounts is best (data); cooldowns of
  single models, and pauses.
* Of issues: `link --pr` and `reconcile`, the mirrors (the command line has only the driver
  that keeps none), the audit log, and `issues/ci.rs`, which touches no issue.
* Of the installation: several profiles, and the deferred deletion of the running program on
  Windows. A malformed queue file, which no command writes, is left out of the queue.
* Integration workspaces and merges are sequences of git commands on one worktree;
  `MergeIntegrator` has no caller but its tests. The task registry is a locked table with
  single-step updates, the shepherd a set of pure decisions over git and CI observations.
* Providers, sessions, usage, settings, projects, runtime paths: parsing, formatting,
  aggregation and discovery, with no protocol between processes beyond the files above.
  Where a model needs one of their answers it takes any answer they can give.
* The command line is in the modules as far as its commands have steps that matter; portal,
  TUI, usage agent and worktree tool are views and git housekeeping, the installers scripts.
  They are most of the repository's lines.
* Files are written atomically (`atomic.rs`, a rename under an advisory lock); this is the
  step each model takes for granted. Torn lock files are the exception, since
  `scheduler/locks/owner.rs` does not use it.
