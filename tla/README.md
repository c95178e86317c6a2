# Verification of caudex

This directory holds TLA+ models of the parts of caudex whose correctness depends on the order of
steps: what happens when a process is killed, fails, is restarted or runs beside another one; and of
the exact arithmetic, whose five implementations must agree. The models are checked by TLC on small
instances, and most of their safety properties are proved for every instance with TLAPS.

Paths below are relative to `src/capulus/src/` unless they say otherwise; DESIGN.md is
`src/capulus/DESIGN.md`.

## The system

caudex is a workspace of five crates. `capulus` is the large one and the only one with concurrency,
persistence and failure: a library for command-line tools and for *managed products*, daemons that
are installed system-wide, supervised by systemd or launchd, and that upgrade themselves.

| component | state it keeps | operations | what is hard |
|---|---|---|---|
| Installation transaction, `managed/installation.rs` | journal `active.json`, staging trees, managed files, unit enablement | `prepare`, `commit_files`, `activate`, `finalize`, `rollback`, `recover`, `inspect_and_repair` | a kill between any two file operations; recovery of a recovery |
| Uninstallation transaction, `managed/installation.rs` | journal `uninstall.json`, backups | `prepare`, `deactivate`, `remove_files`, `finalize`, `rollback`, `recover_uninstallation` | the same, and clients that start the service again through a socket |
| Redeploy jobs, `managed/job.rs` | `active.json` (the pointer), `<job>.json` (status), `<job>.cbor` (secret request) | `schedule`, `reconcile_active`, the monitor, startup and boot reconciliation, `update`/`fail`/`complete` | several processes read and write the same files with no common lock |
| Redeploy worker, `managed/worker.rs` | none of its own | `run`: takes the request, builds, drives the installation transaction | which failure is rolled back by whom |
| Service manager, `managed/systemd.rs` | systemd's own | enable, disable, start, stop, transient units | each call may fail after its effect |
| Management server and agent, `managed/server.rs`, `managed/agent.rs` | permits, rate windows | one request per connection, under a timeout | the timeout drops a handler between two of its steps |
| Invocation lock, `lock.rs` | lock files, a token in the environment | `acquire_in`, `acquire_named_in`, `configure_child_command` | children that inherit a lock, and may outlive it |
| Durable store, `store.rs`, `temp.rs` | files | `atomic_write`, `TomlStore` | old or new contents, never a mixture, after a kill or a power loss |
| Managed build, `managed/build.rs`; build account, `managed/account.rs` | build home, job roots, secret files | `ensure_layout`, `prepare`, `compile` | interrupted creations; secrets on early returns |
| Subprocesses, `process.rs`, `cancel.rs`, `termination.rs` | a process group | `execute` | exit, deadline and cancellation race |
| Progress display, `progress.rs`, `ui.rs` | tasks with a rendering thread each, groups of live rows, a count of suspensions | begin, update, complete, suspend | the last words of a renderer, nested and overlapping suspensions |
| Artifact store, `artifact_store.rs` | directories with an image and metadata | create, describe, list, resolve, label | one invocation beside another |
| User programs, containers, gcp | files, remote state | publish, list, remove | command lines around external programs |
| macOS: `managed/launchd.rs`, `managed/activation.rs` | launchd's own | as systemd | reaping |
| `calculo` | none | integers, rationals and rows, in up to five implementations; normalizers; exact conversions of floats | overflow, and implementations that must agree |
| `clikeys`, `clikeys-derive`, `syntheon` | none; a download cache | a derive macro, FPGA tool archives | the cache's lock |

How they interact. A client sends a redeploy request over a socket to the agent. The agent schedules
a job: it writes the secret request, the status and the pointer, and asks systemd for a transient
unit. The unit runs the installed program as the worker. The worker takes the request, builds the
release, and drives an installation transaction under the product's installation lock, which
restarts the agent it came from. The agent's monitor, the status requests of clients, the next
agent and the next boot reconcile the pointer with the unit. A repair request runs
`inspect_and_repair` in the agent, under the installation lock. Each transaction first recovers
what an earlier one left behind. The tools that use the library take an invocation lock, keep their
settings in a store and their artifacts in directories, start children that inherit the lock, and
show what they do through a `Ui`. `calculo` is used by none of the others here.

## The modules

| module | models |
|---|---|
| `SystemImage` | what a managed installation promises: the settled files only switch at once to a whole release, or change by single unit files at the hand of a repair or an administrator |
| `Installation` | the installation transaction, the part of the worker that drives it, and the repair |
| `InstallationProofs` | its theorems |
| `Uninstallation` | the uninstallation transaction and its recovery |
| `UninstallationProofs` | its theorems |
| `RedeployJobs` | the job store, the agent's tasks on it, the transient units and the workers |
| `RedeployJobsProofs` | its theorems |
| `ManagedBuild` | the build account's home, the job roots and secret files in it, and a worker's build |
| `ManagedBuildProofs` | its theorems |
| `Subprocess` | the callers that run a command in a process group, and what the group may do |
| `RequestRateLimiter` | `allow_at` of the management server's rate limiter, as operators |
| `RequestRates` | the limiter by itself, with a record of the requests of the last minute |
| `ManagementServer` | the server's loop and tasks with that limiter, its clients, and the agent's stops and starts |
| `ManagementServerProofs` | its theorems, and those of `RequestRates` |
| `DurableFiles` | `atomic_write` step by step, and what a power loss leaves of it |
| `DurableCell` | what a store promises: a value that somebody wrote whole, and the last one that was safe, or nothing while the store is new |
| `InvocationLock` | the lock files, the bypass token, and how a wait is shown |
| `ArtifactStore` | artifact directories, `resolve_artifact`, and the labels of an image |
| `Commands` | invocations and their children that use these three, with kills, failed calls and power losses |
| `CommandsProofs` | its theorems, the refinement of `DurableCell` among them |
| `Terminal` | the modes of a `Ui`, its lines, and `suspend` |
| `TaskDisplay` | a task and its renderer, interactive or plain |
| `LiveDisplay` | a live group and a row that several threads share |
| `Progress` | a command that shows a task or rows on a terminal |
| `LibraryProofs` | theorems of `Subprocess` and of `Progress` |
| `Rationals` | the rationals in which rows and vectors are computed |
| `IntegerBackends` | the operations of `Int` for `i64`, `rug` and `dashu` |
| `RowBackends` | the row operations of `linalg.rs`: generic, scalar, SIMD, `rug`, `dashu` |
| `Normalizers` | the normalizers of `num.rs` |
| `FloatParts` | how floats are taken apart exactly |
| `Calculo` | clients of each of these four |
| `CalculoProofs` | its theorems |
| `MC`*module* | the instance of each that TLC checks |

### Installation

`dest[i]`, `staged[i]` and `backup[i]` are the three places where the file of record `i` of the
journal can be; `journal` is `active.json`, with `state` for its presence and its `accepted` flag;
`enabled` and `running` are what systemd says of the units and of the program that the service runs.
`queued` is a job to start or restart the service: `activate_installation`, `refresh_installation` and
`restore_installation` return when systemd has queued it, and `RunQueued` runs it later, in the middle of
whatever is then done to the files, or never, when a stop replaces it or the machine goes down. Only a
stop is waited for.
One process at a time holds the installation lock. `pc` is what it does next, `flow` tells apart the
code paths that share steps (recovery, installation, aborted staging, rollback, acceptance, repair),
and `index` is the loop variable of the function it is in. Contents are told apart as the code's
digests tell them apart; `Torn` is a staged file that was not written to its end.

Every file operation, journal write and call to the service manager that a crash can separate from
the next one is an action. `RemoveReplacement` and `ReinstateOriginal` are the two halves of the first
branch of `rollback_files`; `PreserveOriginal`, `InstallStaged` and `RecordProgress` the three steps
of one turn of the loop of `commit_files`; `DisableTargets`, `EnablePrevious` and `RestartPrevious` are
`restore_installation`; and so on: PROJECT.json names the lines of each. An action that fails, and
every early return that stands for a failed check, is a disjunct of `StageFails`, `InstallFails`,
`RollbackFails`, `RestoreFails`, `AcceptFails`, `CleanupFails` or `OperationFails`, by where the
caller goes from there. `Crash` is a kill at any point.

Assumptions. Every release declares the same files: `validate_release_manifest` (`managed/product.rs`)
compares the manifest with the one that the installed program renders. Hence each record replaces a
file or installs a first one; the code's removal records cannot arise. Administrators edit unit
files and enablement only while no transaction is in progress or interrupted. `atomic_write` and
`rename` take effect in order: a power failure leaves the disk as a kill at some earlier step
would, which is what the code's `sync_directory` after each rename is for. A file of systemd's is
neither enabled nor restarted when it does not exist.

### Uninstallation

The same shape: `removed` is the journal's `committed_records`, `active` the units that systemd has
started, `queued` those that it has a job for. Units are stopped one after the other: `StopUnit` is the
call of `stop_unit_if_present`, `SeeInactive` the end of `wait_until_inactive`, which looks at a unit
until it has been inactive once; `index` goes through the service, the application socket and the
management socket, and `SkipUnit` passes over those that `stop_obsolete_units` leaves alone. `With` is the
effect of the unit file's `Requires=`: stopping a socket stops the service. `ServiceStarts` is a client on
a socket that listens; it starts the service and, by the same line, the other socket. `late` records,
for the properties, that this happened after one socket was stopped and before the next one was.
`Reboot` starts what is enabled. The command that
drives an uninstallation belongs to the product and is not in this repository; it is taken to
prepare, deactivate, remove and finalize, and to roll back what fails unless `removal_committed`
says otherwise, as the redeploy worker does with the installation's `acceptance_committed`.

### RedeployJobs

`phase[j]` is the rank of the phase in `<job>.json`, `active` the pointer, `requests` the secret
requests. `fresh` is the set of requests younger than `TRANSIENT_START_GRACE`, `stale` the jobs whose
status carries the ID of an earlier boot. A process is a task of the agent, or the worker of a job.
Only the scheduling lock orders them, so every read and every write of a file is a step of its own:
`ClearRead`/`ClearRemove` are the two halves of `clear_active`, `FailRead`/`FailWrite` of `fail`,
`UpdateRead`/`UpdateWrite` of `update` and `complete`. Three short stretches are one step, because
nothing that others do in between can be told apart: the pointer and the status that a starting
agent reads, the read and the removal of a request by its only reader, and the status and the
diagnostic that `fail` writes. A reconciliation asks systemd for the unit (`QueryAlive`, `QueryStopped`)
and then looks at the request (`LookAtRequest`), and anything may happen in between.

A unit starts when systemd starts it (`WorkerStarts`). The code counts on that being soon: `late` is the
set of jobs whose unit started otherwise (`StartsLate`), which is after the start grace of its request
(the unit waits for the network), after the job was failed, while a reconciliation has asked for the
unit and not yet looked at the request, or although the call that was to start it reported an error.
Nothing keeps a unit from starting late; what holds of the other jobs, and what does not hold of
these, are separate properties.

### ManagedBuild

`dir[d]` is the owner and mode of each directory of the layout, in the order in which `ensure_layout`
completes them; `owner[j]` and `secrets[j]` are the root of job `j` and the secret files in it. A
worker holds the global build lock, so one `pc` is enough; `at` is the directory it is at, `secured`
the `home_state` of `ensure_layout`. Each system call that changes a directory is an action:
`MakeDirectory` (`mkdirat`), `Normalize` (`chmodat`), `NormalizeGroup` (`fchown`), `OwnPrivate`
(`chownat`), `OpenJobsBoundary` and `FinishHome`; a mode that the umask left incomplete is `partial`, and a
home that has the group of its parent instead of root's is `inherited`: a run that is interrupted before
`NormalizeGroup` leaves a directory that the next one refuses, as the test
`interrupted_inherited_group_creation_is_not_taken_over_on_retry` demands. `Sweep`/`EraseOrphan` are
`remove_orphaned_jobs`; `MakeRoot`/`OwnRoot` are the two halves of `ensure_owned_directory`;
`Configure`, `RunCargo`, `ClearBuildOutput`, `Conceal`, `Inspect` and `Install` are `compile` and
what follows it; `DropBuild` is `ManagedBuild::drop`. `Abandon` is a kill, at any step, and
`BuildFails` an error, which runs the drop. The other files of a job root and the contents of the
private directories are only told apart by whether there are any (`filled`).

### Subprocess

`leader` is the command and `state[d]` each process it may start: `deaf` ones ignore SIGTERM, `away`
ones have left the group (`setsid`). `mode` says which of the three callers this is:
`CaptureConfig::run`, `run_streaming`, or `run_with_deadline` of `managed/build.rs`. One turn of the
loop of `execute` is `Mirror`, `Guard` (cancellation, deadline, limit, in that order), `TryWait` and
`Sleep`; `KillDescendants`, `Drain` and `ReadOutput` are what follows the command's end, and `Abort`
is what the drop of `CapturedChild` does after an error. The processes, the clock (`Expire`) and the
user (`Interrupt`) may do what they like between any two of these. `written` and `own` are lengths up
to one more than the limit. `reused` says that the kernel has given the group's number to another,
which it may do once the leader was waited for and nobody is left in the group. `Escapes` says
whether processes may leave the group; it is TRUE in the run.

### RequestRateLimiter, RequestRates and ManagementServer

`windows[u]` is a window's age, in ticks of the clock up to a minute, and its requests. `AllowAt`
follows `allow_at`: `Retained` drops the windows that are over, and `OpenWindow` evicts `Oldest` when
there is no room. `RequestRates` adds what the code does not have: `recent[u][s]`, how long ago each of
the last requests of `u` was allowed, so that a promise can be made about any minute, and `evicted`, the
uids that were forgotten before their window was over. `Slots` bounds how many requests of a uid in a
minute it tells apart.

In `ManagementServer`, `task[c]` is what the task of a connection does next (`allow`, `read`,
`handle`, `write`: the awaits of `serve_connection`), `holding` and `permits` are the semaphore's
permits, and `backlog` is the listening socket's queue, which belongs to systemd and outlives the
agent. `EndTask` is every end of a task: it drops the permit and the stream, so a client that still
waits fails. `TimeOut` may come at any await. `ran[c]` records, for the properties, whether the
handler has begun and ended. `Stop` is an error of `accept` or a kill; the limiter and the permits are
the agent's and start afresh. What handlers do is not in this module: a redeploy is `RedeployJobs`, a
repair `Installation`. The number of uids and of connections are independent here, where the code has
room for four uids for each connection.

### DurableFiles, DurableCell, InvocationLock, ArtifactStore and Commands

`visible[f]` is what a path names and `durable[f]` what it named when its directory was last synced, each
with a flag for whether the content itself is on the disk; `temp[p]` is the temporary file of a process.
`folder[f]` is the directory of a store: `EnsureDirectory` makes it in the first save, and it is `new`,
and may be lost whole, until its entry in the parent is on the disk, which nothing sees to
(`sync_directory` syncs the directory itself). The file system may write it whenever it likes; that it
did is only observable in a power loss that spares it, which makes it `firm`. In `Commands`, `taken` are
the processes whose save was lost in that way, and `Settled` the tools that have their directory from the
start. `WriteTemp`, `SyncTemp`, `PersistTemp` and `SyncDirectory` are the four steps of `atomic_write`,
and `LosePower` forgets what they had not secured: an unsynced content becomes `Partial`, an unsynced
rename is undone. A new artifact directory is never synced into its parent, so it may be forgotten whole
(`gone`); a removal is taken to be durable at once.

`holder[t]` is who has the lock of tool `t`, `pid[t]` what its file says, `env[p]` the token that `p` was
started with, `token[p]` its `ACTIVE_BYPASS_TOKEN`. `Acquire` is everything before the loop of
`acquire_sanitized`, `Try`, `Refuse`, `Wait` and `Interrupt` are its branches, `Record` is
`write_lock_metadata`. `display[p]` is what `LockWaitUi` shows: a task, a spinner, or a notice that is
printed once and stays.

`Commands` composes them: `task[p]` is what a process was started for. An update is `Load` to
`FinishSave`; a build is `CreateArtifact`, `BuildImage` and the save of the metadata; a listing is
`List`, and `Visit` and `Read` for each entry, which are the `is_file` and the `read_to_string` of
`load_stored_artifacts`; `Resolve` is `resolve_artifact`. A process that delegates may take a second
lock, then starts a child (`Spawn`), which answers in a temporary file that the parent reads when the
child has ended (`Collect`). The answer is written in place: `Reply` leaves first a part and then all of
it, `FinishReply` is the rest of `write_bytes` and the child's exit, and it may be killed or fail
(`ReplyFails`) at any of these steps. A part of an answer may parse, so a parent may take it for one. How
a tool puts these together is its own business and not in this repository; the order of two locks is
fixed (`Nested`), as the callers of the library have to fix it themselves. IDs and features are short
sequences of characters, because prefixes, commas and spaces are what `resolve_artifact` and
`parse_label_features` are about.

### Terminal, TaskDisplay, LiveDisplay and Progress

`lines` is everything written to stderr, `target` where the bars are drawn, `depth` the counter of
`suspend`, `nested[t]` how often thread `t` is in it. `Suspend` and `Hide` are `suspend` up to the
operation, and `Restore` is `RestoreProgress::drop`.

In `TaskDisplay`, `owner` is what the thread with the `Task` does and `renderer` what the thread of
`spawn_plain_renderer` or `spawn_interactive_renderer` does; a stretch that holds the mutex of the task
is one step. `Appear` ends the visibility delay, `RenderFast` is a task that was over before, and each
turn of a renderer's loop is an action (`PlainWake`, `Heartbeat`, `InteractiveDraw`); `InteractiveClear` and
`InteractiveOutcome` are what the interactive one does after it has let go of the mutex. A write to a
stderr that nobody reads panics (`eprintln!`); with the mutex it poisons it, and then the drop of the task
panics too, which ends the process (`Abort`).

In `LiveDisplay` every thread has a clone of one row. `SwapFinished`, `TakeBar` and `Report` are the
three stretches of `complete`, `CheckDetail` and `SetDetail` the two of `set_detail`, `DropRow` and
`GiveUpRow` the drop of a clone, before and after the count of clones goes down.

### Rationals, IntegerBackends, RowBackends, Normalizers, FloatParts and Calculo

`word`, `rug` and `dashu` hold the same numbers in three implementations; an operation is done with each.
`Narrowed` is the conversion back to a word, `Wide` the wrap-around of the double word in which a product
is formed, `RugCompareMagnitudes` the comparison by bit lengths before any product. A row is computed by
every implementation at once (`answer` for a scalar, `rows` for a row), `Lanes` being the width of a
SIMD register; an implementation for `f64` is computed with rationals, so it shows the order and the
grouping of the operations and nothing of rounding. A vector goes through a normalizer again and
again, with a shadow (`normalize_pair`), whose numbers are of type `form`. `Coerce` is
`CoerceFrom::coerce_from` into another type, which may round or have no such number (`Failed`), and
`OverIn` the division there; the run has a type of halves and one of the numbers from -2 to 1. A
conversion that fails panics, which leaves the vector divided and the shadow as it was, or converted as
far as it could be. `FloatParts` has floats of `FractionBits` and `Exponents`,
subnormal ones and both zeros included, for `f64`'s 52 and 2047. Each implementation is a translation of
its own, also where two look alike: that they agree is what is checked.

## What is checked

Bounds are constants of the configurations.

| run | bounds | shows |
|---|---|---|
| `Installation` | 2 releases, 3 managed files, no bound on operations, failures or crashes | the transaction's invariants, `RollbackRestores`, the refinement of `SystemImage`, no files that no agent will take up, and that the lock is released |
| `Uninstallation` | 4 managed files, 2 of them sockets, no bound on operations, failures, crashes or reboots | the same for the removal, and that only a client between two stops disturbs it |
| `RedeployJobs` | 2 tasks, 2 jobs, 1 phase between queued and complete, 1 failure | phases, failures and the pointer under every interleaving |
| `RedeployJobsReleases` | 2 tasks, 1 job, 2 phases, 3 failures | that the pointer is given back |
| `ManagedBuild` | 2 jobs, no bound on workers, kills or errors | every interruption of the layout is taken up again, nothing in use is taken over, no secrets beside the staged program |
| `Subprocess` | 2 descendants, a limit of one write | the command is reaped, its group is dead, its output is whole, and calls and cancellations return |
| `ManagementServer` | the server: 2 connections of 1 uid, 1 permit, 1 stop; the limiter: 3 uids and room for 2, 4 slots; both: 2 requests in a minute of 2 ticks | permits, answers, and that every connection is accepted; the rate over any minute, refusals, and evictions |
| `Commands` | 2 invocations and 1 child, 2 tools, 3 artifact IDs, 1 kill, failed call or power loss | updates that were saved are kept, the stores refine `DurableCell`, listings are sound, labels say what the metadata do (an assumption that TLC evaluates), locks and answers are handed over cleanly (one tool has its directory, the other makes it), every wait for a lock ends |
| `Progress` | 2 threads, suspensions 2 deep, 2 phases, 1 heartbeat, 4 lines | transcripts are whole, bars are hidden just while suspended, completions return |
| `Calculo` | words of 4 bits, 3 numbers, rows and vectors of 3, shadows of 3 types, 2 lanes, floats with 2 fraction bits and 6 exponents | the implementations agree and are exact |
| `InstallationResume`, `RedeployJobsCoalesce` | as above; 3 jobs and no failures in `RedeployJobsCoalesce` | each refutes one sentence of DESIGN.md; see Findings |

Why the bounds are enough. Three managed files are the program, the service's unit and one socket: the
first, a middle and a last record, a unit whose text changes between releases and one whose does not. A
removal has both sockets, since one is stopped while the other listens. Two releases are an old and a
new one; the model has no history beyond the journal, so longer sequences of releases return to the same
states, and the proofs cover any number of both. Two tasks and two workers give every pair of readers
and writers of the job files; a third job is added where a property is about two jobs after a first.
`MaxFaults` bounds the failures of one behaviour in `RedeployJobs`, where each failure is a kill, an
error or a timeout at any point; that a unit starts late is no failure and has no bound. A pointer is
given back by whoever comes after its job, so one job with more failures says more of
`PointerIsReleased` than two jobs with one. A second job in `ManagedBuild` meets what a first has left,
and a job whose root is gone is as one that never ran. Two descendants are one that stays in the group
and one that leaves it, and a second write passes the limit. The run of `ManagementServer` has two kinds
of behaviours, which `MCManagementServer` puts side by side: of the server, and of the limiter by
itself. One uid more than there is room for makes the limiter evict; two ticks let a window begin in the
middle of a minute, and four slots hold one request more than is promised. What a client is told does
not depend on whose budgets there are besides its own, so the server's clients have one uid (`Peers`).
One permit and two connections make one wait for the other, and one stop meets a server in every state
(three connections and two permits were checked once, with the same result, and take too long to be
kept).

In `Commands`, two invocations and a child are the least with which one waits for another, a child
passes a lock, and a listing meets a builder and a remover; which process is started for what is fixed
by `MCCalls` so that each of these meetings occurs. Two tools give the two orders in which a child can
be kept from a lock. One trouble is any single kill, failed call or power loss, at any step. In
`Progress`, two threads nest and overlap their suspensions, and four lines hold every order of an outcome
and what is said around it. `Calculo` has words of four bits, in which every operation overflows from some
operand pairs and not from others, rows of three with two lanes (a full register and a rest),
and rationals with the denominators 1 to 4.

In the modules where a definition is followed by one with the comment "mutant of", the latter is a
plausible mistake in it; TLC refutes the property that PROJECT.json names when the mistake takes the
definition's place, so no property holds whatever the code does.

Fairness. `Installation!FairSpec` assumes that the holder of the lock, while it is not killed, goes
on: every wait of the code has a deadline (`READINESS_TIMEOUT`, `VERIFY_TIMEOUT`, the worker's own
runtime limit). `RedeployJobs!FairSpec` assumes that tasks and workers that are not killed go on,
that systemd starts the agent again (its sockets are enabled), that time passes, and that the
active job is looked at again and again: the monitor of the job does so every
`ACTIVE_RECONCILIATION_INTERVAL` and retries on errors of the service manager, and where a
monitor was lost the next agent, status request or scheduling does.

`Subprocess!FairSpec` assumes that the caller goes on and that its deadline comes; the command and
its descendants owe nothing, not even their end. `CallsReturn` therefore names the one place where
they can keep a call (`Kept`). `ManagementServer!FairSpec` assumes that the loop of `run` goes on,
that the timers of `tokio::time::timeout` fire, and that systemd starts the agent again
(`Restart=always` and no start limit, `managed/product.rs:571-580`); a client or a handler owes
nothing.

`Commands!FairSpec` assumes that a process that has been started and not been killed goes on: it polls
the lock every 100 ms, and nothing else blocks it but its child. `EveryWaitEnds` names the waits that do
not end: a child that asks by name for a lock that its parent has, or for a tool's lock when the parent's
token is another's. `FairProgressSpec` of `Progress` assumes that the renderer's thread runs, which a
condition variable with a timeout wakes, and that the owner goes on once it completes its task.

Deadlock is checked in every passing run but five. In `Installation` the system may rest: with no
program installed and nothing running, nobody can take the lock. In `Subprocess`, `Commands`, `Progress`
and `Calculo` what was begun comes to an end.

Type invariants are stated as `TypeOK` where the proofs need them and are proved or were checked there
once; they are not among the runs, nor are `OneJobRoot` of `ManagedBuild` (proved) and `TasksEnd` of
`ManagementServer`, which hold when they are named in the configurations.

## What is proved

With TLAPS, for any releases, contents and number of managed files:

- `InstallationProofs`: `TypeOK`, `OriginalsPreserved`, `AcceptedIsWhole`, `JournalsValidate`,
  `NothingLeftBehind` (together `JournalsAreTrue`), `AgentMatchesDisk`, `RollbackRestores`, and that
  `Installation` implements `SystemImage`.
- `UninstallationProofs`: `OriginalsPreserved`, `OnlyLateClientsDisturb`, `RemovedIsWhole`,
  `EndsAllOrNothing`, and that `Uninstallation` implements `SystemImage`.

And, for any value of the constants that are named:

- `RedeployJobsProofs`, for any jobs, tasks, phases and failures: `TypeOK`, `NoJobIsDisplaced`,
  `FailedMeansStopped` and `PhasesOnlyAdvance`.
- `CommandsProofs`, for any processes, tools, artifacts, kills, failed calls and power losses:
  `UpdatesAreKept`, `ListingsAreSound`, `HandoversAreClean` where children answer, and that the stores
  implement `DurableCell` (`StoreIsAtomic`).
- `ManagedBuildProofs`, for any jobs: `LayoutResumes`, `OpenMeansComplete`, `OneJobRoot`,
  `StagedProgramSeesNoSecrets`, `NothingTakenOver`.
- `ManagementServerProofs`, for any connections, uids, limits and stops: `TypeOK`,
  `PermitsAreConserved`, `AnswersAreTrue`; and for any uids, budget, table and length of a minute
  `BudgetsAreKept` and `OnlyCrowdsEvict` of `RequestRates`.
- `LibraryProofs`, for any descendants and any limit: `CommandIsReaped`, `CapturedGroupIsDead` and
  `OutputIsWhole` of `Subprocess`; and for any threads, messages, nesting of suspensions, phases,
  heartbeats and a stderr that is closed at any moment, `HiddenWhileSuspended` and
  `TranscriptsAreWhole` of `Progress`.
- `CalculoProofs`, for any width of a word, any numbers and any sequence of operations:
  `IntegersAreExact`, with `WordsAreExactOrRefused` and `WordComparisonIsExact` for the operations by
  themselves; and for rows of any length, any rational factors, registers of any number of lanes and any
  sequence of operations: `RowsAgree`; for floats of any width and bias, any number of masked bits and
  rows of any length: `FloatsAreSound`; and for vectors of any rationals and any length, every normalizer
  any epsilon from zero to below one, and a shadow of any type that has zero, however it rounds, divides
  or refuses: `NormalFormsAreSound`.

The assumptions are those that the modules name (`InstallationAssumption` and the like): what the
constants are, and, for `Installation`, that different releases have different programs. One
theorem assumes more: `HandoversAreAlwaysClean` needs that the processes which are started as children
update settings or build (`ChildrenAnswer`); the others have nothing to answer.

The argument is the same in `Installation` and `Uninstallation`. None of the properties is inductive by
itself: that an original is never lost while a transaction is open depends on how far the holder has
come, on which path it is, and on what the journal says of each record. `TransactionInv` adds exactly
that: `ControlInv` (which paths share which steps), `ProgressInv` or `FilesInv` (which records are
staged, committed, restored at each step), `JournalInv` (`Consistent`: where the original of a record
can be, as far as `rollback_files` can tell from the disk alone), and `EnablementInv`/`RunningInv` or
`EnabledInv`/`ActiveInv` (what systemd has been told, and what it has still to do: an agent that is not
the installed program has a restart queued before the journal goes, and while no client came late a
socket that was stopped is neither active nor queued). There is one lemma for each conjunct, with one
step for each action or group of actions that can disturb it, and the theorems follow. For the
refinement, `OutcomeStep` shows that each action leaves `Outcome` as it is or changes it as one of the
three actions of `SystemImage` does.

`BuildsInv` of `ManagedBuildProofs` says the same kind of thing of the build home: `LayoutInv`, which
states a directory can be in (the home alone can have an inherited group, and is then the only
directory), `StepInv`, what is complete when the worker is at a directory, and
`BuildInv`, which job roots there are at each step. `CallInv` of `LibraryProofs` says what the
command and its group can be at each step of the caller. `ServerInv` of `ManagementServerProofs`
needs that a connection is in the backlog once and has no task then (`BacklogInv`), that an agent
that is down has no tasks (`PermitInv`), and how far the handler is at each step of a task
(`AnswerInv`); `StartCounts`, `EndCounts` and `GoingOnCounts` say what a step does to the number of
tasks.

`RedeployJobsProofs` goes in two stages. `SchedulingInv` holds however late units start: the scheduling
lock is with the task that plans and starts a job (`LockInv`), which step a process is at says which job
it works on and where it goes on (`CallInv`), a unit is started once and its worker runs just while it
is active (`UnitInv`), and the pointer names nothing from when a task has decided to schedule another
job (`PointerInv`); `NoJobIsDisplaced` follows. `JobsInv` adds what makes the unlocked reads and writes
of a status harmless: whoever fails a job does so for itself or knows that its unit will never run again
(`FailsSafely`, `OverJobs`), and what is stored of a job is as far as its unit and its task are
(`StoredInv`), both for the jobs that are not late.

The four theorems of `CommandsProofs` rest on `BaseInv`: which task a process has at which step
(`TypeInv`, `RoleInv`), that the parent of a child waits for it or has ended (`ParentInv`), that whoever
updates settings without passing the lock has it (`LockInv`), and that what is renamed into place was
synced (`FileInv`) into a directory that is there (`FolderInv`), from which the refinement follows step
by step. `UpdateInv` says that what a process is about to save has in it all that is saved already, and
that what was reported as saved survives a power loss, unless its directory was new; here the lock and
the store meet. `BuildInv` (a directory was there before its image, and the image before its metadata)
and `ListingInv` (a listing has read, or will read, every artifact that was there when it began) give
`ListingsAreSound`; `LockFileInv`, `WaitInv` and `AnswerInv` give `HandoversAreClean`.

`RateInv` relates a window to the requests of any minute: it begins with a request as old as itself and
counts those that are not older, and those from before it are fewer than a budget, because the request
with which they began is a minute ago. `SlotCounts` and the library's theorems about cardinalities
turn this into the bound. `OnlyCrowdsEvict` follows because each window of a full table has a request
of the last minute.

The two theorems about `Progress` share nothing. `HandoverInv` counts: `Operations` has a pair for every
suspension that some thread has open, `depth` is its cardinality, and the bars are hidden while it is
not zero. `TaskInv` says what a renderer has told at each of its steps (`TellInv`): a transcript that
is still open, up to the phase it has shown, or one that ended with the outcome that the owner had
asked for, after its last phase; `RunInv` says how far the owner is meanwhile. `RowInv` says that one thread
at most finishes a row, since `SwapFinished` takes the flag in one step, and that nothing but the
outcome of that thread is told after the flag is taken.

`CalculoProofs` needs numbers, and the prover has no induction that it can use as it is; but a set of
naturals that is not empty has a least element (`WFMin` of the library), and from this come induction
over sets (`SetInduction`) and the existence of what is defined by recursion (`PrimitiveRecursion`).
With them `Euclid` is the greatest common divisor and divides both (`EuclidDivides`), a number with
`Bits` n is between two powers of two (`BitsBound`), so that a comparison by bits alone is never wrong
(`LibrariesCompareExactly`), and a fraction has one form in lowest terms (`LowestTermsAreUnique`), so
that two rationals are equal as soon as their cross products are, which gives the laws of addition
(`SumsAssociate`) and of the short cuts (`NeutralElements`, `SubtractIsAdd`). `IntInv` says that `rug`
and `dashu` have the same numbers and that the words are these while nothing was refused. For rows,
`Solves` says of a function that it is the running sum of a loop: leaving out zeros
(`ZeroesAddNothing`), summing numerators (`WholesAreSums`) and adding up by lanes and chunks
(`NextChunk`, `SimdDotIs`) give the same last value, and `RowInv` says that all implementations left the
client with one and the same table of rows. For floats, halving as often as it can be done ends in
lowest terms (`HalvedIs`, `OddIsCoprime`), so that what `rug` and `dashu` take a float apart into is the
rational that IEEE 754 gives it (`PartsAreValue`), the greatest denominator of a row is a multiple of
each (`ScaledIntsAreExact`), and the bits that a key leaves out are a small part of the number
(`MaskedGap`). For vectors, `NormInv` says that there is one positive factor for all entries that are
left (`OnLine`), which a division by a size or by the greatest common divisor of the numerators
multiplies (`DividedIs`, `CoprimeVectorIs`), that an entry that is zero was lost to epsilon, that the
shadow has gone the same way (`Follows`), and that what was kept once is in normal form (`Normal`):
without the last part a second call could find nothing left of a vector that the first one kept
(`NoCandidates`).

Only model-checked: liveness (`LockIsReleased`, `PointerIsReleased`, `CallsReturn`,
`CancellationsReturn`, `ConnectionsAreAccepted`, `TasksEnd`, `EveryWaitEnds`, `CompletionsReturn`), which
is out of this prover's reach; the labels of an image (`LabelsDescribe` of `MCCommands`), which are
joined, split and filtered sequences. `RemovedIsWhole` of `Uninstallation` is only proved:
`EndsAllOrNothing`, which is checked, shows most of it.

## Findings

Each of these is a run that TLC refutes, with a sentence of DESIGN.md.

1. `InstallationResume`: a recovery killed between removing a committed replacement and renaming the
   backup into its place leaves a record that no later recovery accepts
   (`managed/installation.rs:876-899`).
2. `RedeployJobsCoalesce`: `clear_active` can remove the pointer of the next job, after which a third
   job is scheduled beside it (`managed/job.rs:503-508`). It needs a second job to be scheduled
   between the two halves of a `clear_active`.

The modules also state the following, which TLC refutes when it is named in a configuration like those
of the runs.

- `Uninstallation`, `RemovalIsQuiet`: a client on the management socket, after the application socket was
  seen inactive and before the management socket is stopped, starts the service, and the service, by its
  `Requires=`, the application socket; the last stop leaves that one active while the files go
  (`managed/systemd.rs:278-280`, `managed/product.rs:504`). DESIGN.md:158 says "It stops units, moves only
  managed files to private backups".
- `RedeployJobs`, `GraceCoversTheStart`: a unit that starts and takes its request between systemd's answer
  and the look at the request was inactive when asked and has no request when looked at, so its job is
  failed within its grace, behind a running worker (`managed/job.rs:341-357`). DESIGN.md:133-134 says that
  stored active state is checked "including a bounded grace for the unit-start race".
- `RedeployJobs`, `PhasesAreMonotonic`: a worker whose unit started late overwrites the failure that a
  reconciliation has recorded (`managed/job.rs:529-542`). DESIGN.md:127 says "Job phases are monotonic".
  Both of these are refuted with one job and no failures.
- `Uninstallation`, `RecoveryResumes`: after the files are restored the journal still counts them as
  removed, so a restoration whose second half fails can never be recovered
  (`managed/installation.rs:1084-1088`). DESIGN.md:159-160 says "An interruption before the commit
  boundary restores the installation".
- `ManagedBuild`, `BuildsResume`: a worker killed between creating its job root and giving it to the
  build account leaves a root that every later sweep refuses (`managed/account.rs:503`). DESIGN.md:117
  says that "empty states produced by an interrupted creation are accepted".
- `Installation`, `RecoveryHasAProgram`: between the two renames of the program's record nothing is
  installed that could run a recovery (`managed/installation.rs:202-210`); with the agent stopped, as
  after a power failure, the installation is stuck.
- `Installation`, `FailureRollsBack`: `finalize` sets the acceptance in memory before it writes it, so
  a write that fails is reported as committed, and the next recovery rolls the installation back
  (`managed/installation.rs:276-277`).
- `Installation`, `OneRelease` (with `Edits` empty): an agent of the new release that repairs an
  interrupted installation rolls its files back and then writes its own unit files over them
  (`managed/installation.rs:39-87`).
- `Subprocess`, `DescendantsDoNotOutlive` and `DeadlinesHold`: a descendant in a session of its own
  outlives a successful call, and if it writes as fast as it is mirrored it keeps a streaming call
  past its deadline and its limit (`process.rs:109-116`).
- `Subprocess`, `KillsItsOwnGroup`: the group is killed by number after its leader was waited for
  (`process.rs:103`, `process.rs:166`), when the number may be another's.
- `Subprocess`, `DeadlineTerminatesGroup`: a descendant that ignores SIGTERM is left when its leader
  does not (`managed/build.rs:467`).

Three things that the models show contradict no sentence of the repository, but a caller has to know of
them. The first save of a store may be lost whole in a power loss after it returned, because the entry of
the new directory is never synced (`store.rs:57-60`). A parent that reads a child's answer without asking
how the child ended may take a part of it for the answer, if the part parses (`temp.rs:41-73`). And after
a rollback the program that was rolled back may run on for a while beside files that are settled
(`managed/systemd.rs:256-265`).

## What is not modelled, and the plan

Not modelled for good: the texts of unit files and property lists, the framing of the protocol,
credentials and group membership, the layout of tables and lines (`ui.rs`, `progress/terminal.rs`),
command lines for gcp and containers, `clikeys` (a derive macro), and the rounding of `f64`.
launchd (`managed/launchd.rs`) runs the same transactions with other calls. How bars are drawn is
`indicatif`'s: `Ui::write_line` asks whether they are hidden and then writes, and a suspension that
begins in between decides in that library which of the two is seen; the models have the lines only.
Two clones of a `LiveRow` that are dropped at once may both see the other and clear nothing; the bar
then goes with the last clone, which is also `indicatif`'s doing.

The plan for what follows, in order:

1. the launchd counterpart of the service manager and socket activation (`managed/launchd.rs`,
   `managed/activation.rs`), the locked cache of `syntheon`, the user programs
   (`managed/user_program.rs`);
2. the authorization of requests and the readiness notification of the agent.
