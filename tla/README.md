# OpenDownloadManager: formal models

TLA+ models of the core of OpenDownloadManager, checked with TLC on small
instances, with theorems about them checked by TLAPS for every value of the
constants. Paths below are relative to the repository.

## 1. The system

| part | source | state it keeps | operations |
|---|---|---|---|
| lifecycle | `crates/core/src/state.rs` | none, a table of seven states | `next_states`, `transition` |
| manager | `crates/download-manager/src/manager.rs` | `downloads` (record, Notify, JoinHandle), `queue`, `pause_intents`, `backends` | `enqueue start pause resume cancel retry remove shutdown`, internally `schedule begin_download transition_state on_progress run_download recover` |
| queue, scheduler | `queue.rs`, `scheduler.rs` | ids in FIFO order | `enqueue remove`, `select_for_start` |
| persistence | `persistence.rs` | one SQLite row per download, applied migrations | `open` (with `migrate`), `save list remove` |
| events | `events.rs`, `crates/core/src/events.rs` | a broadcast channel of 1024 events | `publish subscribe` |
| bandwidth | `bandwidth.rs` | per transfer: rate, tokens, time of the last refill | `limiter_for acquire` |
| engine | `crates/download-engine/src/{engine,backend}.rs` | locals of one `download()` | `download` = connect, stream, verify, flush, finalize |
| storage | `crates/storage/src/storage.rs` | a part file behind a `BufWriter` | `create_part_file write_chunk flush finalize` |
| HTTP client | `crates/http-client` | configuration | `download_stream inspect`, names in headers |
| paths, names | `crates/storage/src/path.rs`, `naming.rs` | none | validation and derivation of names |
| CLI | `binaries/cli` | none | `download`: one call of the engine, an exit code |
| app shell | `apps` | none | a placeholder |

**Interaction.** A caller's thread executes the API method itself, up to
spawning `run_download` as a tokio task. The task calls the backend (the
engine), which calls back `on_progress` synchronously; when it returns, the
task settles the state and calls `schedule()`, which may spawn other tasks. The
caller stops a task by `Notify::notify_one`, which leaves a permit, and
`shutdown` by `JoinHandle::abort`, which takes effect at an await. Everything
shared sits behind separate mutexes, each held for one statement or block: the
code between two of them interleaves with that of other threads. The manager
makes a rate limiter for each transfer; the engine awaits it between chunks.
On the next start, `open` migrates the database and rebuilds the map and the
queue from the rows. The CLI uses the engine without the manager.

**What is hard.** Actions that read the state under one lock and act on it under
another; a signal that must reach a task not yet waiting, and no other task; a
pause that is a flag in one place and a signal in another; slots, queue and
states that must agree without a lock around them; a crash or a refused write
between a change and its record; two transfers with one destination; a file that
must never appear half-written; waits that the cancellation signal does not
interrupt. `PROJECT.json` lists these hazards, each at its line with the
properties about it.

**What correct means.** Of the manager: one transfer per download, no more
downloads in slots than configured, no queued download forgotten beside a free
slot, a pause that lands and leaves the download resumable, rows and events that
tell the truth, nothing accepted that a crash can lose. Of a transfer: a
destination changes in one step from what it held to a complete file, or not at
all; a signalled transfer ends. Of the limiter: no more bytes than the rate and a
second's worth, and no wait without end. Of the database: a restart brings back
what was saved, once, and a record tells how its download ended. Of a command: a
refusal has touched nothing, and exit code 0 means that the file is there.

## 2. The modules

| module | what it is |
|---|---|
| `DownloadState` | the states and the transition table |
| `Lifecycle` | abstract: what a download's user is promised (a state moving along the table, never two transfers, settled only when none runs, nothing accepted lost by a crash) |
| `Manager` | the manager with queue, scheduler and rows, one step per critical section; implements `Lifecycle` |
| `Delivery` | abstract: what a transfer promises about its destination |
| `Transfer` | `download()` over the storage, one step per await; implements `Delivery` |
| `Service` | `Manager` and `Transfer` composed: the engine inside `run_download` |
| `Bandwidth` | the policy and the token bucket, in integer time |
| `Database` | records, rows, migrations, `open` and recovery, one step per statement or write |
| `Names` | validators, sanitizer, derived and suggested names, as operators over character classes |
| `Request` | one command of the CLI from what was typed to the exit code, over `Names` |
| `ManagerProofs` | theorems about `Manager` on any number of threads |
| `OneThreadProofs` | theorems about `Manager` on one thread, the refinement of `Lifecycle` among them |
| `QueueProofs` | the queue as a sequence, and theorems about `Manager`'s queue and scheduler |
| `TransferProofs`, `BandwidthProofs`, `DatabaseProofs`, `ServiceProofs`, `RequestProofs` | theorems about the module named (the last one also about `Names`) |
| `MCManager`, `MCTransfer`, `MCService`, `MCBandwidth`, `MCDatabase`, `MCRequest` | model values, symmetry and inputs for TLC |

Operators in the modules whose comment begins "Mutant:" are plausible mistakes
in the code (a dropped reset, a swapped order, an off-by-one). They are not part
of any specification; each property is known to fail when the definition below
the mutant is replaced by it.

### Manager

An *actor* is a caller thread or a `run_download` task. `act[a]` is its program
counter (`pc`), what it returns to (`op`) and the locals it has read (`id`, `to`,
`snap`, `run`). `pc` is `idle`, `done`, `spawned` or `transfer` outside a
segment (a stretch of code without await), else it names the next critical
section:

| `pc` | code |
|---|---|
| `insert`, `push` | `enqueue`, 167-174; `resume`/`retry`, 242-244 |
| `capacity`, `unqueue` | `start`, 190-193; `cancel`, 275; `remove`, 328 |
| `intend`, `signal` | `pause`, 216-226; `cancel`, 261-270 |
| `forget`, `erase` | `remove`, 329-330 |
| `count`, `select`, `take` | `schedule`, 393, 394-402, 405 |
| `move`, `copy`, `store` | `transition_state`, 447-478, 479-485, 487-491 |
| `launch`, `attach` | `begin_download`, 420-431, 432-437 |
| `report` | `on_progress`, 517-527 |

`st` is `info.state` of the map (`Absent` when the id is not in it), `db` the
state in the row, `told` the state the last lifecycle event reported, `created` the
creation rank. `created_at` has a resolution of milliseconds with the id as a
tie-break; the model uses a strict rank, so the order among downloads created in
the same millisecond (by the id, not by the call) is not represented. A `Notify`
is identified with its task; `permit[r]` says who signalled it, which the code
does not know and the properties need. Signals to a task that has ended are
dropped: nothing looks at them. Task numbers are a pool (`Runs`), reused when
nothing refers to them any more; the order of tokio's poll, the number of progress
reports and the outcome of the backend are nondeterministic. A call whose checks
fail changes nothing and has no action. A crash and `open` are one step
(`Reopen`): nothing else runs before `recover` returns, and a crash inside
`recover` leaves rows on which it does the same again.

`Workers` is the number of OS threads. With 1, which is the `current_thread`
runtime the tests use with the caller inside it, a segment runs to its end before
another begins; with more, segments interleave at each critical section. Some
properties hold only with one (section 6).

### Transfer

`pc[t]` names the await at which `download()` is, or the way it ended. Bytes are
counted: `got` is `downloaded`, `buf` what `BufWriter` holds, `part` what the
system has of the part file, `synced` what `sync_all` has put on disk. A
destination holds a record: who wrote it, its length, how much of it is on disk,
and the length of the complete body. A machine crash keeps any length between
what was synced and what was written, and may undo the last rename (the code does
not sync the directory). Part files are created with `create_new` and a fresh
UUID, never shared and never read again, so each belongs to its task. The server
announces a length or none, and sends any number of chunks up to `MaxBody`.
`Fails` is an error at any await; `Signal` and `Abort` are the manager's. A look at
the destination that fails is no such error: `exists()` (`engine.rs:80`) and
`try_exists(..).unwrap_or(false)` (`storage.rs:149`) take it for a free destination,
and the task goes on, from the second look at `pc` = `blind`, to the rename.
`Delivery` has this as `Overlook`, and only with `Faults`: a file gives way to a task
that may replace it, to one that overlooked it, and to no other.

### Bandwidth

`tokens` are bytes times `Ticks`, which makes the fractions of the code integers;
time goes in ticks and a sleeper may oversleep by any amount. `age` saturates at a
second, after which a bucket is full anyway. `ahead` is a history variable: what
was granted beyond the rate since the bucket was last full. A transfer is counted
(`Admit`) before its share is computed (`Limit`), as `begin_download` and
`run_download` do; one that was removed may run on uncounted (`Withdraw`).

### Service

Run `r` of `Manager` is task `r` of `Transfer`, and its permit is the signal the
transfer looks at. A step is one of the manager (`Manages`), one of the transfer
while the manager waits in `backend.run(task).await` (`HostWork`, `ServerWork`,
`FailedWork`), or one in which both move: the transfer ends and the manager takes
its error (`Awaits` with `FinishErr`) or its result (`Returns`), `shutdown` drops
both (`Drops`), a crash ends both and the manager is opened again (`Restarted`).
Progress is reported only where the engine calls `on_progress` (`MayReport`). The
history variable `cut` says that a crash or an abort fell between a rename and
the row that reports it. There is one destination.

### Database

`mem` is the manager's record of a download, `row` what SQLite has, with the
numbers its columns can take; `saved` is the record last saved and `times` how
often a migration was committed, both for the properties. `stage` is the point in
`open` or in a call between changing the record and saving it. What a call passes
to `transition_state` is `Reason`; what the engine, the only backend, returns is
`Outcome`, whose total is always there, so that of an earlier attempt, which
`Finish` would fall back to (`manager.rs:587`), is never kept by a completed download.
An empty body is reported once, as 0 of 0 bytes, at its end. Times are present or
absent; URLs and names are not part of a record. `OtherRelease` puts a row into the closed database that this
release cannot parse, as one with another backend would. A crash is possible
at every stage, a refused write in every call (in `open` it is an error that ends it, hence
`Crash` too).

### Names and Request

A name is a sequence of character *classes*: a harmless letter, a reserved device
name, dot, space, slash, backslash, one that Windows refuses, NUL, an ASCII control
character, one from U+0080 on. Each is one byte long. `Parts` is what
`Path::components` yields on Unix. `PercentDecode` works on bytes, and so does
`SuggestedName`: a `Content-Disposition` header is the sequence of its bytes, where
the words the code looks for (`filename*=`, `filename=`) are numbers above the bytes;
it is refused where `to_str` refuses it, split at semicolons, each part trimmed, and
the first part that names something wins. In `Request` the
user types a path or the last segment of a URL character by character, which
enumerates every name up to `MaxTyped`; from Enter on, a step is what the code does
between two answers of the network or the file system. The body, which is
`Transfer`'s, arrives whole, short or not at all. What a look at the destination
sees is `Seen`: what is there, or, where the look fails, nothing.

## 3. The runs

| run | instance | asks |
|---|---|---|
| `one_thread` | 2 downloads, 1 slot, 1 thread, all calls but shutdown | `NoIdleSlot`: no lost wake-up; `IntentsAnswered`: no pause outlives its transfer or is unheard; `RecordsAgree`, `QueueExact`: rows, events and queue agree with the states; `LimitRespected` and `OnlyStoppingBeyond`: the limit; `PauseNeverCancels`; `ImplementsLifecycle` |
| `threads` | 1 download, 2 callers, 2 threads | `SingleTransfer`, `SlotHasRun`, `QueuedIsPending` under every interleaving |
| `faults` | 1 download, 2 threads, failing writes, crashes, lost backend, shutdown | `TypeOK`, `AcceptedIsDurable` |
| `live` | 2 downloads, 1 slot, fair | `PauseTakesEffect`; `QueuedServed` |
| `service` | 1 download, 1 thread, all calls, engine inside, failing network and disk, process crashes, `RecoveryPolicy::Queued`, fair | `CompletedHasFile`, `DeliveredIsCompleted`: row and file agree; `QueuedIsPending` and `AnnouncedSurvives` across restarts; `SignalStops`, which `live` takes for granted |
| `alone` | 1 transfer, limiter, errors, crashes of process and machine, fair | `ImplementsDelivery`, `NeverTorn`, `SignalHeard` |
| `rate` | 2 transfers, cap 5, 3 ticks a second, fair | `WithinRate`, `SleepsOnce`, `SharesFit`, `AcquireReturns` |
| `database` | 2 downloads, empty bodies, counts too large for the column, 1 refused write | `MigratedOnce`, `RestartFaithful`, `FailedOpenHarmless`, `EndedExplained`, `CompletedTotal` |
| `request` | every path and segment of up to 4 characters, 2 redirects, weakly fair host | `RefusedUntouched`, `ExitTells`, `DerivedName`, `DecodeInverts`, `EndsOrStalls` |
| `v_limit`, `v_removed_row`, `v_clobber` | | counterexamples, section 6 |

Each property has its statement beside its definition. More downloads or slots on
one thread, and several transfers on distinct destinations, are left to the theorems
`LimitHolds`, `NoTornFile` and `DeliveryKept`, which hold for any number.

**Bounds.** One download and two threads are enough for every race about one
download: its thread, its task and one other caller or a second task. Two
downloads with one slot are the least for which a slot is contended. On one thread
`Runs` is one more than the downloads, so a task never waits for a number;
`threads` has four for its one download; `faults` and `service` have two, the least
with which a second transfer could run, and a start then waits while both are
referred to. In `alone` the chunk (2) is smaller than the buffer (3), so chunks are
kept and pushed out; in `v_clobber` (buffer 2) they are written through. Bodies of
up to 6 bytes fill the buffer more than once, and announced lengths 2 and 4 lie
below the longest body, so short, exact and long bodies occur. A crash undoes at
most one rename per destination. `service` keeps the body at one chunk of 1 byte,
announced or not, so it comes whole, short or empty, and has no limiter: what depends
on sizes is `alone`'s matter, what `service` asks depends on the order of awaits, calls and crashes. In
`rate`, a cap of 5 shared by 2 gives a share (2) that divides neither the ticks nor
the needs evenly. In `database`, `MaxInt` 1 and `MaxBytes` 2 stand for counts below,
at and above `i64::MAX`; one refused write (`Refusals`) is followed by any calls and
crashes, and `times` counts to two, one more than a migration may be committed. In
`request`, `MaxName` 3 and `Suffix` 1 make names too short, just right for a part file, just right for
the validator and too long within `MaxTyped` 4; `MaxRedirects` 2 is below, at and
above reached. The bytes of a suggested name are there a per cent sign, a hexadecimal
digit, a blank and a semicolon, the ones decoding, trimming and splitting act on.

`live`, `v_limit`, `alone`, `v_clobber` and `request` may stop: with every download
in a terminal state, every transfer done or the command ended, nothing is enabled.

**Fairness.** Code between two awaits runs to its end (weak fairness of each
segment), and tokio polls a woken task again and again (strong fairness of the
first poll: another segment on the only thread disables it for a while).
`QueuedServed` has "transfers end" (`TransfersEnd`) as a premise: this needs a
`request_timeout`, which is 0 by default, and a limiter no slower than a chunk;
`PauseTakesEffect` needs only that a signalled transfer ends, which is
`SignalHeard` of `Transfer` and, with the manager around it, `SignalStops` of
`Service`. For both the file system and the limiter answer (in `service` strong
fairness of whatever brings a run on, `Advances`, since a segment on the only thread
interrupts); that the server does is assumed only with a timeout, and nothing is assumed about its body: it may
stay open for ever. `AcquireReturns` needs time to pass and a woken task to be
polled. `EndsOrStalls` assumes only that the host carries out its own steps: nothing
makes a server answer or a body end, since the CLI's client has no request timeout
("A stalled server can hang a download indefinitely", README.md:150 of the
repository). So it says that a command ends unless it waits for one answer or for
one body for ever, and that no chain of answers keeps it going.

## 4. What is proved

Each theorem holds for all values of the constants the named assumptions of its
module allow (finite sets of ids, callers and tasks; `Limit` any natural number; any
number of threads, with failing writes and crashes or without; any sizes), and for
the further premises in the table.

| theorem | states | premise | inductive invariant |
|---|---|---|---|
| `ManagerProofs!TypeCorrect` | `[]TypeOK` | | itself |
| `ManagerProofs!OneTransfer` | `[]SingleTransfer` | | `SlotInv` |
| `ManagerProofs!AcceptedDurable` | `[]AcceptedIsDurable` | | `DurInv` with `SlotInv` |
| `ManagerProofs!NoSlotLeaked` | `[]SlotHasRun` | writes succeed, no shutdown | `HeldInv` |
| `OneThreadProofs!LimitHolds` | `[]LimitRespected` | `Workers = 1` | `LimitInv` |
| `OneThreadProofs!PauseKept` | `PauseNeverCancels` | `Workers = 1` | `PauseInv` |
| `OneThreadProofs!RecordsSettle` | `[]RecordsAgree` | `Workers = 1`, writes succeed, no restart | `RecordInv` |
| `OneThreadProofs!AnnouncedKept` | `[]AnnouncedSurvives` | `Workers = 1`, writes succeed | `RecordInv`, `Kept` |
| `OneThreadProofs!BeyondAreStopping` | `[]OnlyStoppingBeyond` | `Workers = 1` | `StopInv` with `LimitInv` |
| `OneThreadProofs!IntentsMeet` | `[]IntentsAnswered` | `Workers = 1`, writes succeed, no shutdown, no backend missing | `IntentInv` with `StopInv` |
| `OneThreadProofs!LifecycleKept` | `ImplementsLifecycle` | `Workers = 1` | `SlotInv`, `DurInv`, `StopInv` |
| `QueueProofs!QueuedRemembered` | `[]QueuedIsPending` | writes succeed | `PendInv` |
| `QueueProofs!QueueIsExact` | `[]QueueExact` | `Workers = 1`, writes succeed | `QueueInv` with `PendInv` |
| `QueueProofs!NoSlotIdle` | `[]NoIdleSlot` | `Workers = 1`, writes succeed, no restart | `IdleInv` with `PendInv` |
| `TransferProofs!TypeCorrect` | `[]TypeOK` | | `Bounded` |
| `TransferProofs!NoTornFile` | `[]NeverTorn` | | `TInv` |
| `TransferProofs!DeliveryKept` | `ImplementsDelivery` | `Unshared` | `TInv`, `Vacant`, `Named` |
| `BandwidthProofs!TypeCorrect` | `[]TypeOK` | | `Waits` |
| `BandwidthProofs!RateRespected` | `[]WithinRate` | | `RInv` |
| `BandwidthProofs!SharesHold` | `[]SharesFit` | | `ShareInv` |
| `BandwidthProofs!OneSleep` | `[]SleepsOnce` | | `SleepInv` |
| `DatabaseProofs!TypeCorrect` | `[]TypeOK` | | `Shape`, `Schema` |
| `DatabaseProofs!MigrationsOnce` | `[]MigratedOnce` | | `Schema` |
| `DatabaseProofs!EndsExplained`, `CompletedWhole` | `[]EndedExplained`, `[]CompletedTotal` | | `Told` |
| `DatabaseProofs!FailedOpensHarmless` | `FailedOpenHarmless` | | `Shape` |
| `DatabaseProofs!RestartsFaithful` | `RestartFaithful` | | `Faithful` |
| `ServiceProofs!ServiceManages` | `ServiceSpec => Spec` of `Manager` | | none |
| `ServiceProofs!CompletedBacked` | `[]CompletedHasFile` | no machine crash | `Backed` |
| `ServiceProofs!ServiceNotTorn` | `NeverTorn` in `Service` | | `TInv` |
| `ServiceProofs!DeliveredSettles` | `[]DeliveredIsCompleted` | `Workers = 1`, writes succeed, one download | `Settled` with `Attended`, `RecordInv` |
| `RequestProofs!RefusedEarly` | `[]RefusedUntouched` | | `RefusedInv` |
| `RequestProofs!ExitCode` | `[]ExitTells` | | `ExitInv` |
| `RequestProofs!NameDerived` | `[]DerivedName` | | `SegmentText` |
| `RequestProofs!DecodeReads` | `[]DecodeInverts` | | `SegmentText` |

No premise is about sizes or numbers. `Workers = 1` is the runtime the tests use
(section 2); each of the other premises is needed: section 6 or the
bullets below name what happens without it.

Why the invariants are needed:

* `SlotInv`. Whether a second task can start depends on who is about to start or
  settle the download. A slot has one holder, the task until it has settled, or the
  thread between its move to `Starting` and the spawn (`OneHolder`); a held
  download is in its slot, cancelled or removed, so nothing can queue it again
  (`HeldState`); only the end of a task moves a download out of its slot to a
  state from which it can be queued (`Targets`); an id being inserted is new
  (`InsertFresh`, `Uncreated`). The steps that matter are `Move` and `Launch`.
* `DurInv`. An id nobody has created has no state and no row (`Unheard`); one being
  inserted is in nobody else's hands (`CreatedAlone`); a row is erased only when
  the map has let go of it (`ErasesRemoved`), which no second insertion can undo;
  what is written is a state and never its absence (`CopiesReal`). All the
  other steps only copy (`Calm`).
* `LimitInv`. On one thread only one actor is inside a segment (`OneBusy`), and the
  room that `start` or `schedule` has seen is still there when it acts on it
  (`RoomKept`). It is exactly `RoomKept` that `v_limit` refutes on two threads.
* `PauseInv`. A permit belongs to a task that still listens (`Heard`), reached through
  the handle of its download (`Owned`), and a pause in it has its intent (`Meant`);
  a call about to signal or withdraw knows what it is about (`Meaning`).
* `RecordInv`. A row or an event that differs from the state is owed by the one busy
  actor (`Told`), and what it carries is the state as it is now (`Honest`). Nobody
  writes about a download that is in a slot except its holder, so a held download
  has not been cancelled from outside (`HeldActive`). The invariant itself
  survives a restart, after which an event may be missing for a state that the row
  has (`Spoken`); `RecordsAgree`, which asks for that event, is stated without one.
* `Kept`: a terminal state that was announced is the one in the row. A row is only
  changed by an actor that knows the state, and an event that repeats a transition
  refused by the table (`Announce` of a task that lost its download) is about a
  download the map has let go of: it is `HeldActive` that says so.
* `StopInv`. A transfer nobody has signalled has its slot and is the one the map can
  signal (`Slotted`); `remove` has signalled it before it lets go of the download
  (`Signalled`); a cancel without a signal has found no transfer (`Careful`). So the
  transfers not told to stop have different downloads in slots, which `LimitInv`
  counts.
* `IntentInv`. An intent is of a download that is in a slot, cancelled, completed or
  removed (`Intended`); if its transfer is not yet signalled, the
  pause is about to do it (`Answered`). An aborted task consumes no intent, and a
  task that starts without a backend does not either: hence two of the premises.
* `Lifecycle`. The mapping counts the transfers of a download. `SlotInv` makes the
  count 0 or 1 and says when (`SettledHasNone`, `HeldHasNone`, `StreamsAlone`); every
  segment is one abstract step or none. `StopInv` is needed for one step: a cancel that
  read a download as waiting must still find no transfer when it moves it
  (`StoppedIsStopped` in section 6 is what happens on two threads).
* `PendInv`. A queued download is in the queue or in the hands of an actor that will
  put it there, start, cancel or remove it (`Remembered`). Ids are
  created with different ranks (`Ranked`), so the queue that `open` builds
  has each once. `QueueInv`: what is in the queue is `Queued`, and nobody else is about to
  touch it (`Waiting`). `IdleInv`: whoever frees a slot or fills the queue is in the
  scheduler or on the way to it (`Awake`).
* The queue itself: `Ordered` lists a set by rank without recursion, so that what
  removing and ordering keep, drop and never repeat are lemmas (`OrderedLists`,
  `WithoutKeeps`) proved by counting (`PlaceGrows`).
* `HeldInv`. `SlotHasRun` itself, and that no task is aborted: an actor that lets go
  of a download has moved it out of its slot before, or in the same step.
* `TInv`: no byte is lost between socket, buffer and part file; a task at `rename`
  has verified, flushed and synced; files, and what a crash may bring back, are
  complete and on disk. For the refinement, a task at `rename` that may not overwrite finds
  its destination vacant (`Vacant`), unless its look failed, which is a step of
  `Delivery` of its own (`Overlook`; a file that is there has an owner, `Named`). This
  needs `Unshared`: tasks that may not overwrite have destinations of their own.
  Without it `v_clobber` is the counterexample.
* `RInv`: what was granted ahead of the rate is missing from the bucket, also before
  the next refill. `ShareInv`: of two running transfers, one has a share of at most
  half the cap (`HalfShares`), because it has counted the other. `SleepInv`: while an acquire within the rate sleeps, what the bucket
  will hold when it wakes covers what it needs (`Rested`).
* `Schema`: what migrations have made, noted and counted agree, and the open
  transaction is the next one. `Told`: errors and totals of records, rows and saved
  records fit their states. Only for the induction it also has that no record but a
  completed one says when it was completed; `EndedExplained` asks this of the downloads
  that have not ended, and says nothing of the time in a failed or cancelled record
  nor of the error in a paused one, where the code is not as documented (section 6).
  `Faithful`: while `recover` runs, each row is what was saved or what recovery makes of
  it, and recovering twice is recovering once.
* `Backed`: a run's file is at the destination, or nobody has said `Completed` in
  any record, row, copy or step about to be taken. A machine crash may undo the
  rename and breaks it (section 6). `ServiceManages` makes every theorem about
  `Manager` one about the composition.
* `Settled`: once a run has renamed its file, some run is about to settle as
  `Completed` or the download is completed or gone in map and row (`Closed`), unless
  a crash or an abort came between (`cut`). A transfer works only inside its
  `run_download` (`Attended`), so whatever the caller does meanwhile, the backend
  returns `Ok` next (`BackendStep`); from then on the task is the only busy actor, its
  download is still in the slot or removed with its row, and the table lets it
  complete from there (`LateSettles`, on `HeldActive`, `Honest` and `Told`). Nothing
  moves a closed download (`ClosedStays`). "One download" is a destination of its
  own: of two downloads with the same one, the second has not delivered the file
  that is there. A machine crash is allowed: what it may bring back is no run's file
  unless the newer one is too (`Outlived`).
* `RefusedInv`, `ExitInv`: stage by stage, what has been touched and where the part
  file and the output are. `NameDerived` needs no bound on the URL: the trimmed name
  exists (`KeptExists`, by the least element of a set of numbers, `LeastNat`), what
  the sanitizer makes of it has no separator, no control byte and no dot at its end
  (`Sanitized`), and such a name is its own only part (`OnePart`, `OnePartOk`).
* `DecodeReads` is an induction over data, done by counting up (`Climb`, from
  `LeastNat`). A recursive function is what its equation says once some function meets
  it: for `PercentDecode` (`DecodeTotal`) and `FlattenSeq` (`FlattenSteps`) one is
  built a place at a time. Each byte of the name then has its own one or three
  bytes in the escaped text (`FlattenPlaces`, `BlockSpells`), and decoding from where
  those of byte `k` begin gives the name from `k` on (`DecodeEscaped`). Before that the
  header has to be taken apart (`HeaderRead`): the escaped name holds no semicolon and
  no blank (`EscapedClean`), so splitting ends where the name ends and trimming keeps
  all of it. This is why the server has to escape those, per cent signs and what does
  not print; any other byte it may escape or not.

**Only model-checked.** Liveness (`AcquireReturns`, `SignalHeard`, `SignalStops`,
`PauseTakesEffect`, `QueuedServed`, `EndsOrStalls`) is out of the prover's reach.

## 5. What is not modelled

* **Two processes on one database.** Nothing in the code keeps a second one out; the
  program starts one.
* **The broadcast channel** and its lag: it is tokio's, and nothing but tests
  subscribes, so there is no reader whose behaviour could be modelled. `told` is
  the order of lifecycle events.
* **Parts of a record** that nothing reads: `updated_at`, `backend_meta`, the values of
  times. Ties in `created_at` (same millisecond) are broken by the id and not by
  the order of calls; the model uses a strict order.
* **Text**: UTF-8 and what `from_utf8_lossy` and `to_string_lossy` make of other bytes,
  wording of errors, Windows path prefixes, characters of more than one byte.
* **HTTP headers** other than the length and `Content-Disposition`: they are copied
  to `ResourceInfo` and nothing acts on them. TLS and the protocol itself are reqwest's.
* **CLI**: the progress bar, argument parsing, log filter, `version`.
* **Without a caller**: `remove_part`, `dequeue`, `is_fatal`. The desktop shell is a placeholder.
* A poisoned mutex (a panic while a lock is held): no code under a lock panics.

## 6. Where code and documentation disagree

Three counterexamples are kept as runs:

* `v_limit`: with two threads, two `schedule()` calls count the same free slot;
  ARCHITECTURE.md says the active count is always exact.
* `v_removed_row`: `on_progress` copies the record, `remove` deletes the row, the
  copy is written: the row is back and the next `open` revives the download.
* `v_clobber`: `finalize` looks at the destination and renames after another
  await; two transfers without `overwrite` replace one another's file. The same promise
  ("the rename is refused", `storage.rs:134-136`) is broken by one transfer alone when
  its look at an existing file returns an error, which `finalize` takes for no file
  (first row below).

Others were met while modelling. Each can be reproduced with TLC from the named
run's configuration with the change given:

| property | configuration | what happens |
|---|---|---|
| `NoClobber` | `alone`, `Crashes = {}` | a later run cannot look at the destination, goes on and replaces the file of the earlier one without `overwrite` |
| `CancelNeverPauses` | `one_thread` | cancel after a pause that is pending: the run settles as `Paused` |
| `TransfersWithinLimit` | `one_thread` | `remove` frees the slot and starts the next transfer while the removed one still runs |
| `NoIdleSlot` | `one_thread`, `Restarts = TRUE`, `Policy = "Queued"` | `open` fills the queue and does not schedule |
| `SlotHasRun` | `one_thread`, `SaveFails = TRUE` | a refused write in `begin_download` leaves `Starting` with no task |
| `IntentsAnswered` | `threads` | pause between the move to `Starting` and the store of the Notify signals nobody and returns `Ok` |
| `PauseNeverCancels` | `threads` | the transfer fails between intent and signal, a retry runs, and the signal cancels it |
| `StoppedIsStopped` | `threads` | cancel read `Queued`, the download was started, it becomes `Cancelled` and its transfer runs on |
| `SignalHeard` | `alone`, `TimesOut = FALSE` | the signal is not looked at before the response headers |
| `SignalHeard` | `alone`, `Rate = 1` | the signal is not looked at while the limiter waits, for ever for a chunk above the rate |
| `QueuedIsPending` | `threads`, `SaveFails = TRUE` | `resume` or `retry` returns on a refused write with the state already `Queued` and the id not in the queue |
| `CompletedHasFile` | `service`, `Crashes` with `"machine"` | the directory is not synced: a power loss undoes the rename while the row says `Completed` |
| `DeliveredIsCompleted` | `service`, `Workers = 2` | `remove` has taken a download out of the map whose transfer delivers before it hears the signal, and a crash comes before the row is deleted: the download is back as `Queued` beside its file |
| `SharesOverlap` without the half | `rate` | the sum of two shares exceeds the cap: each is computed once, when its transfer begins |
| `Runs(t) => rate[t] > 0` | `rate`, `Cap = 1` | two active downloads: the share is 0, which means no limit |

A few more, which follow from reading the definitions:

* **Bandwidth.** A removed transfer that still runs is not counted in the shares of
  those that begin (`active_count` looks at the map).
* **Retry.** A download whose process died between the rename and the `Completed` row
  is retried and fails with `AlreadyExists` (`engine.rs:143`): its file is complete.
* **Records.** `completed_at` is documented as "success or terminal failure"
  (`persistence.rs:43`); only `Completed` sets it. `error` is documented "if the
  download is in a terminal error state" (`persistence.rs:45`) and stays through
  `resume` and `retry` until the next end. The total of an earlier attempt stays
  while a retry runs whose server announces none. A destination that is not UTF-8 is altered in its row.
* **Open.** One row that cannot be parsed makes `open` fail for all downloads
  (`persistence.rs:261`). After a restart the queue is in the order of creation, not
  of queueing: a download resumed last may come first (ARCHITECTURE.md:48 says
  "in enqueue order").
* **Paths.** `validate_output_path` promises to reject control characters anywhere
  (`path.rs:108`); it looks at bytes in directories and lets those from U+0080 on
  pass. `sanitize_filename` is "always safe" (`path.rs:217`) except for names that
  are too long, to which it adds four characters, and reserved device names; both
  are refused later. A name of 217 to 255 bytes is validated, but the name of its
  part file is too long for the file system. An output that ends in a slash is
  accepted, and the rename fails after the whole download.
* **Exit codes.** A body of the wrong length is `InvalidResponse` and exits with 2,
  documented as "Invalid argument (bad URL/path)" (README.md:78). Too many redirects
  exit with 3: `Error::TooManyRedirects`, which would be 2, is never made.
* **Headers.** `filename*` is read only with an empty language tag (`''`); the comment
  at `inspect.rs:110` says RFC 5987, which allows one.

## 7. Plan

Done: every module of section 2. What is left, in the order of its worth:

1. `Service` with a limiter and with two downloads on one destination, which is
   beyond what TLC finishes in minutes with every call enabled.
2. Two processes on one database, once the program has to deal with them.
