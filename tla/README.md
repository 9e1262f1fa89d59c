# Aphid: formal models and proofs

Aphid embeds a graph engine in the BEAM: an Elixir API and coordinator
(`lib/`), a NIF in Zig (`native/aphid_nif.zig`) and a C++ bridge
(`native/bridge.cpp`) that owns the engine's databases, connections and
threads. This directory holds TLA+ models of the concurrent core of that
system, of the transfer and conversion of its data and of its installer, TLC
configurations that check them on small instances, and TLAPS proofs, for every
size of them, of all the safety properties that the passing runs check.

Everything is translated from the source; `PROJECT.json` gives, for each
definition, the lines it stands for.

## 1. The system

| Part | Source | State | Operations |
|---|---|---|---|
| Native session | `native/bridge.cpp` 44-222 (`Job`, `Session`), 445-670 (entry points) | flags and ids of `Session` under its mutex; the worker thread; connection and engine transaction | lease acquire/release, reserve, submit, transaction control, cancel, finish, fetch begin/end; the worker's loop |
| Native runtime | `native/bridge.cpp` 223-432 | reserved paths, reference counts, live gauge, retirement queue, cleaner thread, controller thread | open, retire, release, the cleaner's join/destroy/erase |
| NIF resources | `native/aphid_nif.zig` 14-250, `lib/aphid/native.ex` | a resource per database, operation and lease, each with an owner monitor; a `cancelled` flag per operation | new operation, submit, control, cancel, monitor callbacks, destructors |
| Coordinator | `lib/aphid/database.ex` | jobs, FIFO queue, free sessions, timers, monitors, mode, closer | query, transaction, stream calls, close; finished, expire, DOWN, poll, close timeout |
| Transaction runner | `lib/aphid/transaction.ex` | the runner's position, a recorded error, the result | lease, begin, callback queries, rollback, commit, cleanup |
| Streams | `lib/aphid/stream.ex`, stream handlers of `lib/aphid/database.ex` | a runner serving batches | open, next, release |
| Batch cursor | `bridge.cpp` 584-670, `aphid_nif.zig` 471-560 | row position, the row put back, the cursor | collect everything, or fetch a batch, within a row and a byte budget |
| Value codec | `bridge.cpp` 672-998, `aphid_nif.zig` 264-470 and 562-870, `lib/aphid/value.ex` | during one call: the remaining budget, the error path, the native values made so far | terms to engine values and back |
| Options, results, telemetry, public API | `lib/aphid/options.ex`, `result.ex`, `telemetry.ex`, `aphid.ex` | none | validation, reshaping, events, reply mapping |
| Bundle installer | `mix/aphid_bundle.exs` | files on disk | download, verify, accept an installation, stage, rename |
| Bundle loader | `lib/aphid/bundle_loader.ex`, `lib/aphid/application.ex` | hashes compiled in, persistent terms of deferred modules | verify and load, defer, activate |
| Engine | third party | databases, connections, transactions | execute, begin, commit, rollback |

How they interact. A caller's GenServer call makes the **coordinator** admit a
job; a job waits in the queue or gets a free session and a **runner** process.
The runner calls the **NIF**, which reserves the session, creates an operation
with a monitor on the runner and submits it to the **session's worker** thread.
The worker runs the engine without holding the session's mutex, publishes the
result, and sends a completion message to the runner. The runner fetches,
finishes the operation and exits; the coordinator then polls the native state
and hands the session to the next job. A deadline, the caller's death, or a
close makes the coordinator kill the runner; the runner's death fires the NIF
monitors, which cancel the operation and release the lease. Closing, or the
death of the coordinator, retires the database: its sessions are told to stop,
and the **cleaner** joins the threads, destroys the engine and frees the path.

What makes this hard:

- A dirty NIF call cannot be killed. A dead process may still be inside one,
  and go on to reserve or submit after its own monitor has fired.
- The worker works outside the mutex, while cancels, releases, fetches and
  retirement change the session under it.
- Exit signals, timers, results and DOWN messages reach the coordinator in any
  order; a timeout may race the answer it is about.
- The outcome of a commit may be unknown (deadline, kill or engine failure
  during it), and the reply must not claim more than is known.
- Opening can fail halfway; retirement can be requested by `close`, a monitor
  and a destructor at once.
- A row that does not fit into a batch is given back and taken up again by the
  next one, while cancels and finishes arrive; row, result and cursor borrow
  from each other and are destroyed by another thread.
- A conversion may fail at every value, when half of a nested value is built.
- The installer may crash between two steps or meet another installer, and the
  installed files may be damaged later.

What makes each part correct:

- *Session*: one answer per accepted submission; an idle session carries
  nothing over; a result that is being read stays; no cancel reaches another
  operation; a transaction belongs to its lease; a failed lease never commits;
  every released lease, cancelled operation and retired session comes to an end.
- *Runtime*: one engine per path; exact reference counts; one retirement per
  database; closed means released; a dead owner's path becomes free.
- *Coordinator*: sessions are neither lost nor shared; the queue is bounded and
  first come, first served; each call is answered once; jobs end; close drains.
- *Transaction*: the reply never contradicts the commit; an error that the
  callback ignored never commits; the caller is answered; the lease ends.
- *Batch cursor*: a reader gets every row once and in order, and comes to an
  end; an oversized row is called so only if no batch could carry it; no row
  outlives its result.
- *Codec*: numbers come back unchanged or are refused; the budget refuses only
  what exceeds it; native values are freed once; errors name their place.
- *Installer and loader*: an installed bundle is whole and never changed; only
  verified libraries are loaded; the application never runs on stubs.

`PROJECT.json` lists the hazards of this kind, each at its line with the
properties that would catch it.

## 2. The modules

| Module | Models | Uses |
|---|---|---|
| `LeasedStore` | what a session promises about data (abstract) | |
| `NativeSession` | the session, its worker, its callers and its engine transaction | instance of `LeasedStore` |
| `NativeSessionTypes` | type invariant and lemmas on the helpers (proofs) | extends `NativeSession` |
| `NativeSessionProofs` | the inductive invariant and the theorems (proofs) | extends `NativeSessionTypes` |
| `Coordinator` | the GenServer, the callers, the runners; sessions reduced to their holder | |
| `CoordinatorProofs` | the coordinator's inductive invariant and its theorems (proofs) | extends `Coordinator` |
| `Runtime` | open, retire, the cleaner, reference counts | |
| `RuntimeProofs` | the runtime's inductive invariant and its theorems (proofs) | extends `Runtime` |
| `Transaction` | one `Aphid.transaction` from the callback to the reply, with its queries and streams | |
| `TransactionProofs` | what its caller is told is true (proofs) | extends `Transaction` |
| `RowStream` | what a reader of a result may rely on (abstract) | |
| `StreamTransfer` | the cursor, the batches and the destruction of a result | instance of `RowStream` |
| `StreamProofs` | the transfer's invariant, its theorems and that it implements `RowStream` (proofs) | extends `StreamTransfer` |
| `IntegerWords` | the words and limits of integers and decimals | |
| `ValueCodec` | the conversion of parameters and rows | extends `IntegerWords` |
| `ValueCodecProofs` | integers, the tree walk, ownership of native values, the budget and error paths (proofs) | extends `ValueCodec` |
| `BundleInstall` | the installer | |
| `BundleLoader` | the loader and the application's start over an installation | extends `BundleInstall` |
| `BundleProofs` | installer and loader together: their invariant and theorems (proofs) | extends `BundleLoader` |
| `MC*` | instances, symmetry sets and state constraints for TLC | extend the module they name |

The parts meet at narrow interfaces, and each module has the neighbours'
side of its interface as its environment:

- `Coordinator` sees a session as idle, busy or retired (`NativeState`, the
  codes of `aphid_session_state`); that an idle session is clean is
  `NativeSession!IdleIsClean`, that it becomes idle again is
  `OrphanIsDropped` and `ReleasedLeaseEnds`.
- `Runtime` assumes that a session told to stop ends its thread
  (`WorkersExit`); that is `NativeSession!RetiredWorkerExits`.
- `Transaction` has a session with one lease: refused after a failure, cleaned
  up after release. `ImplementsStore` is the same fact on the full session.
- `StreamTransfer` looks inside the cursor of which `NativeSession` only knows
  that it is open (`FetchedResultStays`); stopping a session is in
  `NativeSession` alone.
- `StreamTransfer` has a number for the cost of a row and a choice of success or
  failure for its conversion; `ValueCodec` is that conversion.
- `BundleLoader` is composed with `BundleInstall`: it reads the directory that
  the installers write.

### NativeSession

`session` is `struct Session`: `busy`, `id`, `pending`, `ready`, `error`,
`result`, `stop`, `cancel`, `discard`, `fetching`, `lease`, `lease_abandoned`
and `lease_failed`. `worker` is the position of `Session::run` with its locals
(`job`, `stopping`, `cancelled`, `releasing`, the outcome). `call`, `owner` and
`flagged` are the NIF's side: where the submitting call is, whether its owner
lives, and the `cancelled` flag that is set before the session is told. `tx`
and `durable` are the engine's transaction and what it committed. `outcome`,
`answers`, `granted` and `released` record history for the properties.

An action is one critical section of `Session::mutex`, or one stretch of the
worker between two of them. The worker's loop is

    wait -> clean -> reset -> wait                          (garbage, lease, stop)
    wait -> check -> engine -> publish -> notify -> settle -> wait     (a job)
    wait/clean -> failing -> failed -> drain -> destroy -> exited      (failure)

with `reset -> drain` when the session stops. Callers are unrestricted: any
thread may use any handle in any order. That is weaker than what the NIF
allows one process to do and is what killed processes inside dirty calls
amount to.

The engine is external. A statement succeeds or fails; a failed statement may
have lost its transaction or left part of its effect in it, a failed commit may
have become durable. `Interrupt` is the controller thread, which repeats
`Session::interrupt` every few milliseconds while a request is outstanding; a
query that nobody interrupts may run for ever.

### LeasedStore

The abstract specification: a store is free, executing single queries, or held
by one lease. A lease's queries become durable together or not at all, each at
most once, nothing after a failure, and a lease is only given up with no
transaction open. The refinement mapping reads `holder`, `failed`, `active`,
`writes` and `durable` off the session and the engine.

### Coordinator

`coord` is the GenServer's state: `jobs`, the job records, `queue`, `free`,
`mode`, `closer`, whether a poll is scheduled, plus the replies and exit
signals it has sent. Because a GenServer runs each handler whole, each handler
is one action, with the trailing `schedule`, `dispatch`, `answer`, `remove` and
`cancel` calls of the code as functions of `coord`. The mailbox is the sets
`expire`, `finished` and `wanted`; DOWN messages are read off `gone` and
`runner`. Stale generations of a timer are not kept as messages, since the
handler drops them.

A job of kind "query" also stands for a transaction: the coordinator schedules
both alike. `free` is a bag of sessions rather than a list, so the order in
which free sessions are given out is not fixed.

A runner killed inside its dirty submission becomes a *zombie*: dead for the
BEAM, and still able to reserve its session.

### Runtime

`Reserve`, `CreateEngine`, `StartWorkers`, `OpenReturns` and `OpenFails` are the
stages of `aphid_open_configured`; `Retire`/`Enqueue` are `Runtime::retire`
before and after its compare-and-swap; `Pop` to `CleanerUnrefs` is the cleaner.
`refs` is the count the code keeps; the property `RefsExact` says who owns what.
`open_configured` runs on a dirty scheduler, so its owner may die in the middle.

### Transaction

`pc` is the position in `Transaction.run` and its helpers, `job` the
coordinator's record with the phase and the outcome that
`transaction_phase` sets, `late` what the clock has passed. The environment
supplies everything that happens to a transaction: the deadline of a phase or
of the job, a close, a broken session, the death of the coordinator, of the
runner, or an exception in the callback, engine failures and an in-doubt
commit. `reply` is what the caller is told, with its outcome.

The callback may enumerate streams. `stream` says whether one is open; opening
it is the code of a query without its collection (`stream.ex` 47-78), leaving it,
by its end, by halting, by an error, or because the callback returns, raises or
rolls back inside the enumeration, is `finish_transaction`: `StreamFinish` (the
native finish), `StreamCheck` (the one look at the state, 133) and `StreamIdle`
(the wait for state 4, 136). Streams of one transaction follow each other.

### StreamTransfer

`session` has the fields of `struct Session` that a reader uses (`result` as
`of`, the operation it belongs to; `rows_read`, `unread_row`, `fetching`,
`discard`, `ready`), `row` is the cursor's row, `worker` what the worker has
taken out of the session and not destroyed yet. `fetch` is the NIF call in
progress: its limits, the budget that remains, the rows converted, the position
`where` that it would report and the reason why it stops. `FetchBegin` to
`FetchEnd` are the steps of `collect_result`, one per call into the bridge, and
`Reply` is what happens after the cursor has been closed. A call goes on when its
owner gives the operation up (`Abandon`).

`FetchBegin` may also fail after it has taken the result: too many columns, or an
exception while their names are copied (`bridge.cpp:603-613`). The cursor is closed,
and the NIF returns before its own clean-up is registered (`aphid_nif.zig:503`): `Reply`
does not finish the operation, and the result stays where it is until the owner does
(`OwnerFinishes`, the `after` of every caller). This is the one answer but "open" after
which the session waits for the owner.

`RowStream` is the promise: `Batch` hands over a longer prefix of the rows, and
says "done" exactly with the last one; only an empty result is done without a
row. The mapping takes what the caller has received and what it was told.

### IntegerWords and ValueCodec

`IntegerWords` is arithmetic without state: `PairOf` splits an integer as
`Input.integer` does, `Makes` and `Stored` are the checks and the narrowing of
`aphid_value_make`, `Inspected` and `NumberOf` the way back. The word size is a
constant: `Half` is 2^63 in the code and 4 in the run. Signed, unsigned, 128-bit
and decimal types are records of their limits.

`ValueCodec` follows one parameter map into the engine and, as a row, out again.
The converters are recursive functions; here the value they are in is a path `at` in
the tree, with `next` the child that is due, so one action is one iteration of a
converter's loop or one leaf. `home` says who owns the native value of each
path: a slot of a frame that is still running, the container that took it over,
the parameters, or nobody any more ("freed", and "twice" for the error).
`path` and `pathLen` are `Input.path` and `path_len`; `remaining` is the budget.
Every charge may also fail for cancellation, and every `aphid_value_make` of a
container for want of memory (`ChargeFails`, `ContainerFails`).

Abstracted: the type of a parameter is inferred and built in one step with one
charge, and the path of an error in that step, which counts type descriptors, is left
out; a leaf of any type but integers is text of some size, null, or "bad".

### BundleInstall and BundleLoader

A directory is a function from file names to contents. An installer is one run
of the Mix compiler; `Verify` is everything it checks in memory, `FindExisting`
and `Compare` the acceptance of what is there, `FindNothing`, `MakeStaging`,
`Write` (twice per file: created, then complete) and `Rename` the installation,
`Compile` what the loader's macro takes from the receipt. Installers overlap,
crash, and draw the same staging number, which is unique within one VM only.
The rename fails when the destination exists, as that of a non-empty directory does.

A VM (`Boots`) loads each native module: `OnLoad` runs its `__load_nifs__`, which
defers when the mode is embedded and crypto is not there, and otherwise verifies
library by library (`VerifyLibrary`) and loads (`LoadLibrary`). `Start` is the
application, which activates what was deferred.

`OutsideNext` (a source build and damage to files) does not happen while somebody
reads the files: between the comparison and the use of a file the code has no
protection, and docs/local-installation.md puts concurrent writers outside the
contract.

## 3. The runs

| Run | Instance | Shows |
|---|---|---|
| `native_session` | 3 operations, 1 lease; any two of them, or one transaction | `AnsweredExactlyOnce`, `IdleIsClean`, `FetchedResultStays`, `NoStrayCancellation`, `LeaseOwnsTransaction`; the session implements `LeasedStore` (`ImplementsStore`) |
| `native_session_live` | 1 operation, 1 lease, fair | `ReleasedLeaseEnds`, `CancelledIsAnswered`, `OrphanIsDropped`, `RetiredWorkerExits` |
| `coordinator` | 4 jobs, 1 session, 1 closer, queue of 2; any two jobs, or four queries that queue | `OneRunnerPerSession`, `JobsArePlaced` (sessions and queue accounted for), `ReplyOwed`, `ClosedIsDrained`, `StartInOrder` |
| `coordinator_live` | 2 jobs, one of them a query, 1 session, queue of 1, 1 closer, fair | `CallsAreAnswered`, `JobsEnd`, `ClosingCompletes` |
| `coordinator_zombie` | 2 queries, 1 session | *violated*: `HealthySlotAccepts`, see Findings |
| `runtime` | 2 opens, 1 path or memory, limit 2, 1 cursor, fair | `PathExclusive`, `RefsExact`, `QueuedOnce`, `ClosedIsReleased`, `RetirementEnds` |
| `runtime_restart` | 2 opens | *violated*: `RestartWaits`, see Findings |
| `transaction` | up to 2 queries or streams, finite deadlines, fair | `ReplyIsTrue` (the reply never contradicts the commit), `IgnoredErrorNeverCommits`, `CallerIsAnswered`, `LeaseEnds` |
| `transaction_rollback` | 1 query or stream, no deadlines, fair | *violated*: `RollbackReturns`, see Findings |
| `stream` | 2 results of up to 3 rows, costs 1 and 2, row limits 1 and 2, byte limits 2 to 4, fair | `PositionIsAbsolute`, `TooLargeIsTooLarge`, `RowsHaveTheirResult`, `StreamEnds`; the transfer implements `RowStream` (`ImplementsRowStream`) |
| `values` | words of 8 values, depth 3, 9 integer types, 11 nested maps, every budget up to 150 | `NumbersSurvive`, `FreedExactlyOnce`, `LimitIsRight`, `PathNamesFailure` |
| `bundle` | 3 archives, 3 installers, 2 staging numbers, 1 damage, 1 VM | `DestinationIsWhole`, `InstallsOnce`, `LoadsTheClosure`, `StartedIsLoaded` |

Why these bounds:

- *Session.* The session serves one operation at a time, so what an operation
  can disturb is the next one: two operations show every such pair, and both
  orders of a lease and a leaseless query around them. A transaction needs
  begin, query and commit. The state constraint `TwoOrTransaction` explores both:
  any two operations with every disturbance, or begin, query and commit in any
  order and lease with one of them cancelled or orphaned. The proofs remove
  the bounds altogether.
- *Coordinator.* Sharing a session or a queue place takes two jobs; overtaking
  takes one job ahead, one behind and one in the session, a full queue a
  fourth. `TwoOrQueueing` has all faults with two jobs, and one fault with three
  or a full queue. The runs have one session: with two, the sessions differ only
  in which one a job gets, and a poll treats each job by itself.
- *Runtime.* One path shows exclusion, the memory path shows what is not
  excluded; two opens are an owner and its restart, at a limit of 2 instead of
  64. `Cursors` bounds concurrent cursors. A third database would only be a
  second pair.
- *Transaction.* `MaxQueries` = 2 gives a query or stream that succeeds before
  one that fails and one that is attempted after a failure.
- *Stream.* Three rows of two costs give a row put back in the first batch, taken
  up by the second, and a third one after it or a second put-back; byte limits
  from "metadata and a small row" to "metadata and two rows" with row limits 1
  and 2 make either limit end a batch first. The second operation is the one
  that a leftover of the first would reach.
- *Values.* With 8-value words the integers tested lie around each limit of each
  class (one word, signed and unsigned, two words, decimals stored narrow and
  wide). The maps have each container in each other, null and bad leaves, equal
  and unequal keys, and one more level than is allowed; the budget ends
  between any two charges.
- *Bundle.* `TwoOrCrashed` has two installers with a VM and damage over their
  work, or a crashed one and two more. Two archives share their libraries and
  differ in a notice, the third has other libraries.

`CHECK_DEADLOCK FALSE` is set in every run because all systems may really
stop: ids are used up, databases closed, results read, bundles installed.

Each property has a mutant in `PROJECT.json`: a named *Fault* operator in the
module, for instance `LeaseReleaseAtOnce` or `PutBackKeepsPosition`, under which TLC
finds the property violated. They are not part of `Next`.

Each module also defines its type invariant (`TypeOK`, `LoaderTypeOK`). They hold in
these instances and are left out of the configurations, which are about behaviour; those of
`NativeSession` and `Runtime` are proved.

### Fairness

- `NativeSession!FairSpec`: the worker thread is scheduled, `begin`, `commit`
  and `rollback` return, a fetch encodes a bounded batch and ends, a NIF call
  that was entered goes on, monitors fire. Nothing is assumed of a query except
  that it fails once interrupted, and interrupts are repeated; so
  `CancelledIsAnswered` is about endless queries too.
- `Coordinator!FairSpec`: the server handles its mailbox, timers fire, exit
  signals arrive, a session is given back after its runner is done, a retired
  database closes. Deadlines are finite: a call with `:infinity` has none of
  these guarantees, by design. The fairness of the three handlers whose enabling condition
  is expensive to derive is written out as `[]<>` of "nothing to do" or `[]<>`
  of the step. The run has a query that waits for another job, runs beside its
  cleanup or is refused: the queue starves nobody. Its constraint `WithQuery` leaves
  out behaviours in which a session breaks or both callers die while there are two
  jobs; with one job they are there.
- `Runtime!FairSpec`: dirty opens return, monitors fire, cursors end, threads
  told to stop exit, the cleaner runs. `JoinFails`, the quarantine, may happen:
  a quarantined database keeps its path for good, which `RetirementEnds` says,
  and nobody behind it in the cleaner's queue does.
- `Transaction!FairSpec`: the runner and the server are scheduled, timers fire,
  monitors arrive, the native session answers a cancelled or abandoned
  operation. A deadline passes only if `Deadlines`. The callback may never return.
- `StreamTransfer!FairSpec`: the worker is scheduled, a call goes on, and the
  reader asks for the next batch while the stream is open. After the answer that the
  result is unavailable the owner finishes the operation, which each caller does in an
  `after` (`stream.ex:23-25`, `database.ex:425-426`, `transaction.ex:164-165`) or when
  the stream is left (`stream.ex:130-131`); a caller that is killed is replaced by its
  monitor. After every other answer nothing is assumed of the owner.

### Findings

1. `coordinator_zombie`, `HealthySlotAccepts`. The coordinator takes a session
   back when its runner is dead and the native state reads idle
   (`database.ex:290`). It also reads idle while the dead runner's dirty submit
   is between creating its operation and reserving the session. The late call
   then holds the session when the next job's runner arrives, which is refused
   although nothing is wrong with it. `docs/architecture.md:75-76` gives the
   test as what makes a slot reusable. No data is at risk: `OneRunnerPerSession`
   and the session's invariants hold in the same models, and the late operation is
   dropped. The run relies on the exit signal and the monitors of a process
   being delivered while its dirty NIF call still runs.
2. `runtime_restart`, `RestartWaits`. `README.md:62-64` says that after an
   unexpected exit startup waits for the previous owner to finish retiring.
   `Runtime::reserve` (`bridge.cpp:278`) answers "retiring" only if the previous
   database is already in that state; an owner that died while opening, or whose
   monitor has not run yet, makes the restart fail at once.
3. `transaction_rollback`, `RollbackReturns`. `Aphid.rollback(tx, reason)` inside
   the enumeration of a stream of the transaction releases the lease and throws;
   leaving the enumeration runs `finish_transaction` (`stream.ex:130-145`), which
   reads the state once and otherwise waits for state 4, "idle within a lease".
   If the worker is still cleaning up (state 2) at that look, it then goes to 0,
   "idle", and 4 never comes. With a deadline the caller gets a timeout with
   `pending_rollback` instead of `{:error, reason}` (`README.md:114-115`) and
   the session is held that long; with `timeout: :infinity` it waits for ever.
   The run has no deadlines. When the wait is left out after a rollback, the
   property holds. Safety is not affected: `ReplyIsTrue` and `LeaseEnds` hold
   with streams in `transaction`.

Three smaller differences have no run. `docs/types.md:143-144` promises the path of a
failing value; on output `path_len` is set only when a value is entered
(`aphid_nif.zig:443-452`), so a failure at the charge of a field or pair is reported with
the length that the previous value left: the path may end before the value that failed,
or go on behind it with indices of an earlier one. As far as both go they agree
(`PathNamesFailure`). `docs/evidence/stage-03.md:30-31` says that collecting "always ends the
fetch/requests result destruction after acquisition"; when `aphid_fetch_begin` fails
after taking the result, the fetch ends but the destruction is left to the owner
(`FetchBegin`, `OwnerFinishes`). `docs/local-installation.md:118` says "Installation failures
raise `Mix.Error`"; an installer that loses the race for the staging directory or
the rename raises `File.Error` or `File.RenameError` instead (`raised` in
`BundleInstall`). In none of these is anything lost or damaged.

## 4. The proofs

### The native session

Assumption: `NoneAssumption` (the id 0 is no operation and no lease), and nothing
else: any sets of operations and leases, finite or not. The code hands out ids
once each, which is built into `Reserve` and `LeaseAcquire`.

| Theorem | Statement |
|---|---|
| `TypeCorrect` | `Spec => []TypeOK` |
| `AnswersOnce` | `Spec => []AnsweredExactlyOnce` |
| `IdleClean` | `Spec => []IdleIsClean` |
| `FetchSafe` | `Spec => []FetchedResultStays` |
| `NoStray` | `Spec => []NoStrayCancellation` |
| `TransactionOwned` | `Spec => []LeaseOwnsTransaction` |
| `CommitNeeded` | `Spec => []LeasedWritesNeedCommit` |
| `FailureIsFinal` | `Spec => FailedLeaseNeverCommits` |
| `SessionImplementsStore` | `Spec => ImplementsStore` |

The argument. Hardly any of these properties is inductive: each one is kept true
by the position of the worker and by what the session remembers about the
operation it serves. `NativeSessionTypes` proves `TypeOK` together with
`JobInHand` (the worker has a job exactly where it needs one, without which
the functions are applied outside their domains), and the effects of the steps
that compute a flag. `NativeSessionProofs` then has one conjunct per subject:

- `OperationInv`: `busy` and `id` agree, the pending job is the one reserved,
  a request to cancel or discard has an addressee. An abandoned lease has
  its operation cancelled and discarded.
- `WorkerInv`: for each position of the worker, what the session looks like;
  in particular nothing is pending while it cleans up, and a thread
  on its way out has the session stopped.
- `CursorInv`: a cursor implies `fetching` and its result, and keeps the worker
  from `destroy`.
- `AnsweredExactlyOnce`.
- `TransactionInv`: a transaction implies a lease; when the worker resets a
  session whose lease it saw abandoned, the transaction is gone already. This is
  where the local copy `releasing` matters: a release that arrives during
  the cleanup is left for the next round.
- `FailureInv`: an operation that failed under the current lease has left its mark, and
  a marked lease has nothing on its way to the engine.
- `CancelInv`: whoever is about to be cancelled is *entitled* to it: its handle
  was cancelled, its lease released, or the database is not open.
- `NoStrayCancellation`, `CommitInv`, `ExecutedInv`: history, with the step between an
  effect and its publication named (a commit being executed; a query that has
  run and is not run again).

`InvariantHolds` puts the ten preservation lemmas together, each of which takes
the actions one by one; the other theorems follow from it. `FailureIsFinal` is an
action property: only the engine's steps change `durable`, and under a failed
lease none of them is enabled. `SessionImplementsStore` maps every step to one
step of `LeasedStore` or to a stutter, using that a lease is only forgotten with its
transaction gone and that a query with an effect is not executed again. The last
three are what the run checks as `ImplementsStore`.

### The runtime

Assumptions: `LimitAssumption` (a positive limit, a bound on cursors) and
`NoneAssumption`; `Dbs` and `Paths` may be infinite.

| Theorem | Statement |
|---|---|
| `RuntimeTypeCorrect` | `Spec => []TypeOK` |
| `PathsExclusive` | `Spec => []PathExclusive` |
| `QueuedAtMostOnce` | `Spec => []QueuedOnce` |
| `ReferencesExact` | `Spec => []RefsExact` |
| `ClosedReleased` | `Spec => []ClosedIsReleased` |
| `GaugeCorrect` | `Spec => []LiveGauge` |

The invariant: `OpenInv` ties the state, the handle and the cursors of a
database to how far its open got; `QueueInv` says that whatever is being told, queued
or cleaned is retiring and is in one place, which makes the compare-and-swap of
`retire()` the only way in; `EngineInv` has threads inside engines inside
reservations and the cleaner taking them down in that order, from which
exclusion follows, since a reserved path has one database; `ReservedInv` keeps the
reservation from `reserve` to the cleaner's `erase`, which makes the gauge exact.
`RefsExact` is inductive with `OpenInv`; types need it too, since a count
may only be decremented by somebody who holds a reference (`HoldsReference`).

### The coordinator

Assumptions: `CapacityAssumption` (a natural number), `KindsAssumption`,
`SessionsAssumption` (finitely many sessions) and `NoneAssumption`. Calls and
closers may be infinitely many, and the sessions any number; the runs have one.

| Theorem | Statement |
|---|---|
| `TypesHold` | `Spec => []TypeOK` |
| `OneRunnerHolds` | `Spec => []OneRunnerPerSession` |
| `PlacesHold` | `Spec => []JobsArePlaced` |
| `RepliesHold` | `Spec => []ReplyOwed` |
| `ClosedHolds` | `Spec => []ClosedIsDrained` |
| `ServedInOrder` | `Spec => StartInOrder` |

A handler of the server is a composition (`cancel`, then `remove`, then `dispatch`),
and between the pieces the properties do not hold: after `remove` a session is free
while somebody queues. So the invariant is stated of a *server state* `c`, and each
piece has a lemma about what it needs and what it leaves:

- `Good(c, gone)`, which every piece keeps: the types (`CoordType`), `JobsInv` (a
  runner has a session; a job that lost its runner has been answered; a
  stream keeps its session), `PlacesInv` (a session is free once or held by one job,
  the queue holds the waiting jobs, once each) and `RepliesInv` (a caller waits
  exactly if it is owed a reply).
- `QueueInv`: the capacity, and nobody waits while a session is free; broken by
  `remove` and restored by `dispatch`.
- `RunInv`: a live process is the runner of its job and works on its session.
- `NativeInv`: how far the server and the native database have got in closing.

`DispatchKeeps` is the long one. `dispatch` takes the front of the queue for each
free session, and what is left must be `Good` with the queue cut from the front while
the started jobs take sessions one by one (`StartKeeps`, `RestIsAlmost`).
`Without` is what the queue is after `:queue.filter` (567): the jobs that stay, in their
order. It is defined by counting, not by `SelectSeq`, whose recursion the provers cannot
follow; `WithoutProperties` proves from the definition that it has the same elements but
the removed ones, once each and in the same order. For
`ServedInOrder` most handlers are `Calm`: nobody enters the queue or gets a session,
and whoever stays keeps his place. `AdmitInOrder` and `PollOpenInOrder` are the two
handlers that end in a dispatch.

### The transaction

Assumption: `MaxQueriesAssumption` (a natural number).

| Theorem | Statement |
|---|---|
| `RepliesAreTrue` | `Spec => []ReplyIsTrue` |
| `NoCommitAfterError` | `Spec => []IgnoredErrorNeverCommits` |

The invariant follows the commit through three parties. `CommitInv`: the coordinator is
told that the commit starts *before* it can reach the engine, so as long as the
outcome is `pending_rollback` nothing commits. `LeaseInv`: the engine transaction belongs
to the lease. `RollbackInv`: a rollback thrown while a stream is released
is not forgotten. `ClaimInv`: what the runner is going to claim, at each
of its positions, fits what the engine did. `ReplyInv`: what the coordinator
answers for a runner that is late or dead fits it too.

### The transfer of rows

Assumptions: `BoundsAssumption` and `LimitsAssumption` (limits are positive, as
`Options` requires, and every row costs something). Results may have any number of
rows up to `MaxRows`, which is any number.

| Theorem | Statement |
|---|---|
| `TypesHold` | `Spec => []TypeOK` |
| `PositionHolds` | `Spec => []PositionIsAbsolute` |
| `TooLargeHolds` | `Spec => []TooLargeIsTooLarge` |
| `RowsAreSafe` | `Spec => []RowsHaveTheirResult` |
| `StreamImplementsRows` | `Spec => ImplementsRowStream` |

`SessionInv` says who has the result: the session, from its publication until the
worker takes it, and the call that reads it as long as it is `fetching`. `RowInv` keeps
every borrowed row with its result. `PositionInv` is the crux: the engine is one row
ahead of `rowsRead` exactly when a row was put back. `BatchInv` makes of it what
the reader sees (everything received, then everything in the batch, is a prefix of the
result), and `CallInv` says how a call can end. The refinement maps a batch to the
step of `RowStream` that delivers it, and everything else to stutters; `ReplyBrings` is that step.

### The installer and the loader

Assumptions: `BundleAssumption`, `NamesAssumption` (the receipt is not a
library; nothing else is named like `SourceBuild`'s contents) and `ModuleAssumption`.

| Theorem | Statement |
|---|---|
| `DestinationHolds` | `Spec => []DestinationIsWhole` |
| `InstallsOnceHolds` | `Spec => InstallsOnce` |
| `StartedHolds` | `Spec => []StartedIsLoaded` |
| `LoadsHolds` | `Spec => LoadsTheClosure` |

The invariant has the staging directories (`StagingInv`: only files of the wanted
bundle, complete except for those still to be written; `OwnersInv`: no two installers fill
the same one), the comparison with an installation in place (`CompareInv`: what was
compared stays intact), builds from source (`SourceInv`), and on the side of the
loader what has been verified (`VerifyInv`) and what is loaded (`LoadedInv`). A
rename needs that the remaining files are none; then the directory is exactly
`Installation(bundle)` (`CompleteIsInstallation`). The environment damages files only
between verifications, as in the runs: the code reads and loads without a lock
against whoever has write access, and neither it nor the model promises more.

### Values

Assumptions: `HalfAssumption` (words of an even number of values), `DepthAssumption` and
`InputsAssumption`: every input is a finite map of parameters with values below it, in
their order, and a map among them has as many keys as values (`IsInput`). There may be
infinitely many inputs, of any depth and width.

| Theorem | Statement |
|---|---|
| `IntegersSurvive` | every integer of every type, there and back |
| `TypesHold` | `Spec => []TypeOK` |
| `NumbersHold` | `Spec => []NumbersSurvive` |
| `FreedHolds` | `Spec => []FreedExactlyOnce` |
| `LimitHolds` | `Spec => []LimitIsRight` |
| `PathHolds` | `Spec => []PathNamesFailure` |

`IntegersSurvive`: for every positive `Half`, every type of `IntegerTypes` and
every integer, `Accepted` holds exactly in the range of the type, and `Returned`
of what is stored is the integer. The run `values` shows it for words of eight
values, where it also sees the order of the checks; the theorem has the real 64-bit
words among its instances. Its lemmas are about quotients and remainders by a
symbolic base (`Division`, `Quotient`, `SplitJoin`), two's complement over two
words (`Negation`, `TwosComplement`, `Reading`), and one signed or unsigned word
there and back (`SignedRoundTrip`, `UnsignedRoundTrip`).

The other theorems are about the recursive conversion as a walk over a tree. `Before`
is the order of the walk on paths, `Cursor` the value that comes next, and `Done(p)`
that `p` comes before it. The lemma that carries everything is that when a value is
complete, exactly that value and what is inside it become done (`ValueCompletes`,
`ContainerEntered`, `Frontier`). Over it:

- `NumberInv`: a number that is done is stored as it was given; on the way out, one
  that is done has come back.
- `HomeInv`: who owns a native value is a function of where the walk is (`Owner`): a frame
  of the converter until its container is complete, then the container, or the
  parameters. When the walk gives up, everything not freed yet is below something that
  `Unwind` frees, once (`Reached`, `UnwindFrees`).
- `PathInv`: the path leads to the value converted next, or is that of something
  inside the open container: a completed value does not shorten the path it
  written, so the path may lie deeper than the cursor.
- `OutPathInv`: on the way out nothing keeps the length in step with the cursor; what holds
  is that the indices above the value being converted are those of its ancestors
  (`Trail`), from which every failure is reported near its place (`Near`).
- `BudgetInv`: what is gone from the budget is the total of a `Bill`, which says of every
  value what it has been charged where the walk is: all of it when it is done; itself
  and the entries that have been begun while it is open; its name and type when it is
  the next parameter; otherwise nothing. A step changes the bill of one value (`PaidEntered`,
  `PaidDown`, `PaidComplete`, `PaidParameter`). A refusal before the conversion is
  right because each value that it counts has still to pay as much as it is counted for
  (`Crowded`, `Overdrawn`): 8 bytes for an entry of an array, 16 for a parameter.

The cost of a parameter map is a sum over its values, a fold of the community modules.
The proofs take the equation of its recursive function (`Adds`, which `AddsExists` shows to
have a solution) and compare sums by the smallest set on which they would differ
(`Smallest`): `AddsAny` that the order is of no account, `TotalChange` what one changed
number does to a total, and `TotalGrows` that a sum is larger by what its numbers are.

### What is left to TLC

All liveness, and facts about ENABLED: outside what TLAPS can prove here. Every other
property of the passing runs has a theorem.

No module uses a RECURSIVE operator.

## 5. What is not modelled

- *Type inference and descriptors*, and the encodings of text, JSON, UUID, floats,
  dates and nodes: pure functions of one value without a decision that spans
  values; in `ValueCodec` such a leaf converts or fails.
- *Archive and member names, download* of the installer: they precede every write
  and decide between accepting and refusing.
- *Several streams of one transaction at once*, nested transactions and use of a
  token by another process, which the API refuses before it reaches the session.
- *Several sessions in the coordinator's runs*; the module has a set of them, and
  the theorems about it hold for any finite number.
- *Failure of an allocation* inside `complete()`, and a mutex that throws when the
  worker publishes: in both the code gives up the completion message.
- *Lost wakeups*: condition variables are taken to work.
- *Loss of written data in a power failure*: the installer does not sync.
- *Options, results, telemetry*: they decide nothing that the models depend on.
- *The engine*: external, as described.
- *Build, audit and release scripts*, `native/proof.*`: not part of the running system.
- *`docs/evidence/attribution-1/httplib-upstream.h`*: a third-party header kept as
  evidence for licence attribution. It is compiled into nothing of this
  repository and has nine tenths of its C++ lines; the map covers two thirds
  of `bridge.cpp` and half of `aphid_nif.zig`.

## 6. Plan

Done: the session, the coordinator, the runtime, the transaction with its
streams, the transfer of rows, the codec, the installer and the loader, and proofs
about each of them. Every safety property that a passing run checks has a theorem:
invariants, action properties and refinements. What would come next is the session's
contract for the coordinator (`NativeState`, which section 2 only argues), as an abstract
specification of a session that `NativeSession` implements and `Coordinator` uses.

## 7. Running

    tlc -config native_session.cfg MCNativeSession.tla
    tlc -config stream.cfg StreamTransfer.tla
    tlapm NativeSessionTypes.tla
    tlapm NativeSessionProofs.tla
    tlapm RuntimeProofs.tla
    tlapm CoordinatorProofs.tla
    tlapm TransactionProofs.tla
    tlapm StreamProofs.tla
    tlapm BundleProofs.tla
    tlapm ValueCodecProofs.tla

Each configuration belongs to the `MC` module of its component, where there is
one. The longest runs take two to three minutes on two workers, the proofs some minutes
from nothing.
