# TLA+ models of the engine web adapter

`src/` is a browser adapter: it fetches the audio stems of a session, verifies
them, keeps them in the origin-private file system (OPFS), and streams PCM from
there into the rings an AudioWorklet plays. These modules model the parts of it
where several tabs, Workers, promises, timers and aborts meet. TLC checks small
instances; TLAPS proves what it can for every instance.

Paths below are relative to `src/src/`.

## 1. Inventory

### Components, state, operations

| component | state it keeps | operations | module |
|---|---|---|---|
| Verified store, `stems/store.ts` | finals, staging files, `index.json` rows with their pins; in memory: permits, lifetime locks | `open`, `openSession`, `#ensure`, `#ingest`, `#preflight`, `setOfflinePin`, `read`, `close` | `StemStore` |
| Named locks, `stems/lock.ts` | Web Locks per stem, per index, per lease; a queue where they are missing | `withNamedLock`, `acquireNamedLock`, `acquireStemLock` | in `StemStore`, `SparseStore`, `SparseSession` |
| OPFS write Worker and client, `stems/opfs-worker-client.ts`, `internal/engine-web-opfs-worker.ts` | generation, `#openWriters`, pending requests, idle timer; sync access handles | `createWriter`, write, close, abort, `assertWriteSupport`, `close` | `OpfsWriteWorker` |
| FLAC Worker pool, `stems/flac-worker-pool.ts` | slots, queue, constructions, shared module load, epoch | `retain`, `run`, release | `FlacWorkerPool` |
| Admission, `stems/flac-admission.ts` | leases of Workers, downloads, verifications | `acquire`, `release` | in `FlacWorkerPool`, `FlacDelivery` |
| FLAC decode job: resolver, Worker, input slot, credits | commands, blocks, watchdog; slot state word; credits; the consumer | start, feed, decode, pull, release, cancel | `FlacDecode` |
| FLAC delivery and byte source, `stems/flac-delivery.ts`, `stems/decoder-byte-source.ts` | attempts, admission lease, quarantined transports, who owns a range's buffer | `readExactFlacRangeEffect`; block, commit, release | `FlacDelivery`, `FlacDecode` |
| PCM pump, its Worker and client, `stems/pump.ts`, `internal/engine-web-pcm-pump-worker.ts`, `stems/worker-client.ts` | windows, reads, cursor, generation; drive token; pending requests | `pumpPass`, `seekFrames`, `close`; initialize, seek, stop | `PcmPump` |
| Session, `session.ts` with `console.ts`, `feed.ts` | opening with its cleanup stack, operation queue, pending seeks, pump failure | open, `play`, `pause`, `seekFrames`, `close` | `EngineSession`, `SessionPromise` |
| Sparse format, index, windows, `stems/sparse-format.ts`, `stems/sparse-pcm.ts` | none | validate, derive, locate, read a window | `SparsePcm` (operators) |
| Sparse resolver and response, `stems/sparse-resolver.ts`, `stems/sparse-response.ts` | one iterator, its pull, the promise in flight, the chunk's job, finalizers | `next`, `return`; open, `readChunk`, close | `SparseStream` |
| Sparse store, `stems/sparse-store.ts` | source lock, payload generations, commit marker, pending mutations | `openSource`, `installSource`, `inspectSourcePresence`, `openSession` | `SparseStore`, `SparseSession` |
| Sparse verification Workers, `stems/sparse-verify-worker-pool.ts`, `internal/engine-web-sparse-verify-worker.ts` | jobs, slots, generations, progress counters | `verify`, `close`; start, ack | `SparseVerify` |
| Stem session gate, storage backend, decoder, hashes, errors, types, progress | (see section 7) | thin or pure | not modelled |

### Interactions

- The **session** acquires its sources (a lease of the **store**, or a backend, a
  sparse store and its lease), the engine, the feed, the **pump client**, the output and
  the console, and closes them in reverse. The lease's blobs go to the pump client, which
  posts them to the **pump Worker**.
- The **store** calls a **resolver** (FLAC, sparse or in-memory) for the bytes of a
  missing stem and writes them through the **OPFS write Worker**. Tabs meet only in
  the shared files, the index and the Web Locks.
- The **FLAC resolver** runs its jobs on the **FLAC Worker pool**; the pool draws on
  the **admission** that all its owners share; a job's page side and its Worker share the
  input slot and exchange credits; its bytes come through the **delivery**.
- The **sparse store** pulls spans out of the **sparse resolver**, whose chunks are FLAC
  jobs, and verifies what is committed on the **verification Workers** of the
  preparation that has claimed them.
- The pump Worker and the audio thread share one ring per source; a seek's
  generation travels with each slot.

### What is hard here, and what makes it correct

- *Tabs over one folder.* Any step of any tab may fall between two steps of
  another. An open lease has its stems verified, indexed and pinned; an eviction
  never takes a pinned stem; a tab's death costs nobody else anything.
- *A chain of fallible steps*, in an ingest, in an installation, as in opening a
  session: each exit undoes exactly what was done, and after a step whose effect may
  still come it waits for it.
- *Generations*: the write Worker, the pool and the pump each retire a generation
  while its promises are still on their way. Late ones must neither harm nor be
  counted in the next one.
- *Counts and budgets* (writers, reservations, reads, windows): exact under every
  abort and timeout, never over the limit, and given back.
- *Promises and deadlines*: every call settles although a Worker, a read or a
  network may never answer.

`PROJECT.json` lists the hazards one by one with their lines.

## 2. Plan

Done, in this order:

1. `StemStore`, the heart of the system, with `StemStoreProofs`.
2. `OpfsWriteWorker`, what the store writes through, with `OpfsWriteWorkerProofs`.
3. `FlacWorkerPool` over its admission.
4. `PcmPump`: pump, Worker and client in one module, since the properties are
   about their races.
5. `SessionPromise`, what a session promises its caller, and `EngineSession`, which
   implements it.
6. `FlacDelivery`, one exact range read, and `FlacDecode`, a decode job over it.
7. `SparsePcm`, the arithmetic of sparse sources; `SparseStream` over it, the
   resolver's iterator; `SparseStore`, which composes the stream with the files, the
   marker and the lock of one source.
8. `SparseVerify`, pool and Workers of a warm verification; `SparseSession`, which
   composes them with preparations that share a resolver.

How they build on each other (EXTENDS):

    SparsePcm <- SparseStream <- SparseStore
    SparsePcm <- SparseVerify <- SparseSession
    FlacDelivery <- FlacDecode
    SessionPromise <= EngineSession           (refinement, checked as PromiseKept)
    StemStore <- StemStoreProofs, OpfsWriteWorker <- OpfsWriteWorkerProofs
    PcmPump <- PcmPumpProofs, EngineSession <- EngineSessionProofs
    FlacDecode <- FlacDecodeProofs, FlacWorkerPool <- FlacWorkerPoolProofs
    SparseStore <- SparseStoreProofs, SparseSession <- SparseSessionProofs

What would come next: an abstract *lease* (a stem set granted at once, kept, given
back) that `StemStore` and `SparseSession` both implement, and *gapless playback* as an
abstract specification of `PcmPump`.

## 3. The modules and the code

### StemStore

One opener is one `VerifiedStemStore` in a tab of its own, making one `openSession`
call. A task `<<o, s>>` is its `#ensure` of stem `s`; `pc` says where between two
awaits it stands, and `pass` whether it is the warm or the cold attempt.

| state | code |
|---|---|
| `final`, `staging` | the `blake3-<digest>` and `staging-<instance>-<digest>` files; content is absent, good or bad |
| `rows`, `pins` | the index and the `pins` of each row |
| `stemLock`, `indexLock` | the pair of global and folder locks of `#withLock`, always taken in one order, so one lock here |
| `pinLock` | the lifetime lock of `#holdPinLock` |
| `phase`, `abort`, `live` | where `open()` and `openSession` are, the abort reason, the lock snapshot of the folder sweep |
| `victims`, `victim` | the reclaim snapshot of `#preflight` and the row it is trying |

A critical section over the index that has no await inside it that matters is one
step guarded by `IndexFree`; eviction, which holds the index lock across a file
removal, and the sweeps of `open()` take several. Space is counted in units: one per
final or staging file against `Quota`. Files may go bad (`Corrupt`), the index may get
lost (`RebuildIndex`), reads, writes and removals may fail, the resolver may fail and a
tab may crash, each at any moment, at most `MaxFaults` times in all, and only the kinds
in `Faults`.

A removal that times out or throws (`stems/storage.ts:183`) is reported where the code
reports it: in the demotion of a stem, in an eviction, in the sweep (`RemoveFails`,
`SweepFails`). The cleanup of an ingest swallows it (`stems/store.ts:389`): after
`UndoFails` the task is "littered" where it would be "failed", its staging file stays, and
it has given back its locks all the same. The file then waits for some tab to open the
folder.

An eviction chooses its next victim first and then waits for the lock of that one
(`ChooseVictim`, `LockVictim`), whoever holds it. A move may be given up by an abort or
by its deadline and still take effect (`MoveAbandoned`). A failing `lease.read` removes the
final beside the index lock and rewrites the row under it (`LeaseReadFails`,
`DemoteRow`).

Nothing collects the pins a crashed tab leaves: the code retains stale-looking pins
on purpose (`stems/store.ts:427`), and so does `Crash`. Left out: the byte counts inside
a progress report, quota estimates that are wrong, and diagnostics.

### OpfsWriteWorker

A call is a `createWriter` with everything its writer does, or a capability probe.
`gen` is the generation a call acquired; `pending`, `inbox`, `outbox` are the
client's map and the two message queues, which only a retired generation empties.
Messages are a set because every call has at most one request at a time. `handles`
are the Worker's sync access handles and `file` counts the chunks written. Open, write
and close may succeed or fail in the Worker; the Worker may answer late or never, be
reported broken or refuse its capabilities. A short write leaves a part of its chunk
behind the offset; `file` counts whole chunks and does not see that part, whose writer
takes no chunk any more.

### FlacWorkerPool

Every handler of the pool that runs to completion is an action, every continuation
another. The record `Now` of the pool's own state goes through the helpers
(`Acquire`, `Disowned`, `BeginClose`), and what a handler leaves of it goes to `Continue`:
`#admitNext`, `#drain` and, through `Drained`, `#maybeFinishClose`. What a job does on its Worker is one step with an
outcome. `holder` follows the owners of an epoch; `module` and `owners` the
single-flight load.

### PcmPump

PCM is the interval of frames it holds: a window or a ring slot is a
`[from, to]`. A pass schedules, writes one quantum per source and schedules again, on a
record `Now` of the pump's state, as `pumpPass` does. Eight passes make one tick in the
code; here each is a tick of its own, which only adds interleavings. Round robin among
sources of equal urgency is a choice. A pump dies with the pass that finds its
failure. `TakeSlot` is the audio thread, which is not in this repository: it takes
slots in order and drops those of an older generation.

A read's deadline does not look at the generation (`stems/pump.ts:252`), so a read that a
seek made stale may still fail the pump; `ReadDeadline` does the same.

Left out: what the sparse pump reads, `SelfDrivingPcmPump`, and the reads of
descriptors before the request of `create`.

### SessionPromise and EngineSession

`SessionPromise` is the contract: the phases a caller can observe, what is held, the
answer of each call, and whether `onError` was told. `EngineSession` is
`openSessionCommon` with everything it defines. `todo` lists the stages that are left
(`DenseSources` and `SparseSources` are the two ways to acquire sources); a stage that
settles pushes its close on `cleanup`; `res` is what is physically open.
`attaching` is the one acquisition that can outlive the opening
(`attachSessionControl` under `abortable`). A lifecycle call is a record in `op`: the
step it stands at and what became of the promise it awaits; `queue` is the promise chain
of `enqueue`. `ctx` and `ctxq` are the AudioContext, which obeys its requests in order and
settles them; `Request`, `ContextSteps` stand for the platform. The stages "scratch",
"check" and "prefill" hold nothing (`Proceed`); the scratch boot may be the caller's own
(`session.ts:210`), which does not hear the signal, so an aborted opening may still pass
that one. An observer may throw when it is made, after the caller's signal was detached and
with the observers already on the stack (`HandOverFails`). `abort` fails every
`abortable` that is pending, at once, also one whose promise has settled
meanwhile (`AbortWaits`, `Awaited`).

Left out: the crossing of declarations, a session without stems, `output.connect`, and
views onto the session that only read.

### FlacDelivery and FlacDecode

`FlacDelivery` is one `readExactFlacRangeEffect`: attempt by attempt it takes a lease
of the download admission, asks the locator, fetches, reads the body. `flight` is the
physical transport: "open" until the headers, "body" while there is a body that is unread,
being read or being cancelled, then "settled". The finalizer of an attempt
(`stems/flac-delivery.ts:175`) waits for the fetch promise and then for `body.cancel()`,
each for a bounded time. `CleanedUp` is the finalizer that saw both settle; when either
deadline passes or `cancel()` rejects, `Quarantine` closes the admission, leaves the
transport `late` and makes the failure one that is not retried. In a browser the abort
of the attempt's scope also errors a body that is still open, so that its `cancel()` rejects and
the attempt ends in quarantine; another `fetch` may let it resolve, and the model
allows both.
`held` is who must give the range's buffer back.

`FlacDecode` has the page (host), the Worker, the shared slot, the messages each way and
the consumer of the stream. Every message handler is one action (`Hear`,
`WorkerSteps`); the Worker runs beside the page and, while it blocks on the slot, hears
nothing. `lane` is the input lane's fiber, `commands` its queue of at most one command,
`dog` the watchdog. `work` and `reason` follow the effect that settles the job.

A cancel that arrives after the job has succeeded discards the queued blocks and the
stream closes normally (`cut`); the code does the same.

Left out: the bytes, headers, sample formats; the choice between range-backed and
finite sources is the initial `mode`.

### SparsePcm, SparseStream, SparseStore

`SparsePcm` counts frames where the code counts bytes: a manifest is intervals and
chunks, `NextSpan` is one step of `mapNextBlock`, `Coalesce` and `DeriveIndex` build an
index, `ReadWindow` reads one window through it. They are checked inside
`SparseStore` on the sources it installs, against `Canonical`, the PCM of the source
frame by frame.

`SparseStream` is the iterator of `scopedAsyncIterable`: `pull` the fiber of its pending
`next`, `call` the platform promise in flight (which an abort lets settle and then
waits for), `closing` the finalizer that runs.

`SparseStore` is one source identity in several tabs. An operation's `pc` is the await
it stands at; a physical mutation is asked for (`Begin`), then lands, fails with its
effect or fails without (`Lands`, `LandsFailed`), and an abort in between waits for it.
A payload is the sequence of its frames, so that a wrong byte and a truncated file can
be told from the source. A crash may land the mutation in flight and frees the lock.

### SparseVerify and SparseSession

The pool of a preparation is one record, `pool`, so that a handler that settles a job,
terminates a Worker, starts the next job and closes the pool is a function of it, and a
set of pools where constructing or terminating may throw. A Worker is a record of the
slot, the realm and the two wires; its job is a list of updates of the hash, computed
from the index (`Updates`), and `ExpectedCounts` is what the host computes for itself. The
dispatch loop is a recursive function, `after`: the pool after so many jobs were given out.
`SparseSession` is `openSession`: the claim of the resolver's warm preparation, the
epoch, sources side by side under their locks, fail-fast interruption, the order in
which the scopes close, and readiness. The physical release of the epoch may fail
(`Leave`, a fault): the epoch is then held for good and the preparation is not announced as
ready (`Announce`). A lock request that was aborted gives its locks back before any scope
of the source exists, so it does not close the warm pool (`Grant`, `GiveUp`). Installation is
one step there, since `SparseStore` has it step by step.

## 4. Runs

| run | question | instance | states |
|---|---|---|---|
| `StoreShared` | Does an open lease keep its stems? `FilesBacked`, `PinnedFinalKept` | two tabs that share one of three stems, room for two, cancellations | 720,000 |
| `StoreOpening` | Do tabs that need each other's room settle, and do sweeps leave ingests alone? `OpenSettles`, `FilesBacked` | two tabs, a stem each, room for one, from `open()` on | 38,000 |
| `StoreFaults` | Does the bookkeeping survive faults? `TypeOK`, `PinsExact`, `NothingStranded`, `PinsKept` | two tabs on one stem, one with a wrong byte count, two faults out of seven kinds | 740,000 |
| `StoreSibling` | finding 1 below | as `StoreShared`, two stems verified at once | violation |
| `OpfsWriteWorker` | Are writers counted, threads and handles owned, acknowledged bytes kept, calls settled? `TypeOK`, `OwnershipExact`, `ResourcesOwned`, `AcknowledgedKept`, `CallsSettle` | two writers, one with a signal, and a probe | 240,000 |
| `FlacPool` | Are reservations, realms and the queue consistent, is an epoch's end final, does everything settle? `TypeOK`, `WorkersExact`, `EpochOver`, `Settles` | three jobs, two holders, two Workers | 345,000 |
| `FlacPoolModule` | finding 2 below | as `FlacPool` | violation |
| `PcmPump` | Is playback gapless and bounded, and does it end? `TypeOK`, `WindowsSound`, `Progresses` | three sources of 7, 1 and 1 frames, windows of 4, quantum 2, two reads, two slots, one seek | 17,000 |
| `Session` | Is exactly what was opened closed again, and is the promise kept? `TypeOK`, `CleanupExact`, `ContextAgrees`, `PromiseKept`, `NeverOpenedAborted` | one session, three calls of any kind; dense with a console, or sparse without | 237,000 |
| `FlacDecode` | Do page, Worker and network agree on credits, buffers, transports and the answer? `TypeOK`, `JobExact`, `BuffersReturned`, `TransportsBounded`, `ReaderAnswered` | one job: two headers, two ranges, two attempts each, three blocks of output, one download at a time | 123,000 |
| `SparseInstall` | Is only the complete source committed and read, under its lock? `TypeOK`, `CommittedExact`, `LockCovers`, `CleanWhenSettled`, `OperationsSettle` | two tabs, two operations on a source of six frames, silent or with two gaps; one fault, one crash | 141,000 |
| `SparseSession` | Do preparations that share a pool verify under the lock, become ready only when complete, and end? `TypeOK`, `VerifyUnderLock`, `ProtocolExact`, `ReadyComplete`, `SessionSettles` | two preparations over two sources, the second wants one of them; three Worker constructions, width up to two, one fault | 186,000 |

Several properties are conjunctions whose parts have names and comments of their own in
the modules: `FilesBacked` is `LeaseBacked` and `RowsBacked`, `WorkersExact` is
`ReservationsExact`, `RealmsExclusive` and `NoLostWakeup`, and so on.

Why the bounds are enough. Two tabs are the fewest that race and every property
relates at most two; a tab beyond them is one more of the same kind. `Quota` is
below what the tabs want together, so reclaim always has work to do. Two faults let a
second one hit the recovery from the first. `FlacPool` has more jobs than Workers, so
its queue is used, and two holders, so one may retain as the other's epoch ends. In
`PcmPump` the long source needs two windows and a short tail, the short ones are
smaller than a quantum and end before the frame the player seeks to, so the clamp is
used; there are more sources than reads, so sources compete, and a seek may find
reads, windows and slots of the old generation at once. `Session` has three calls, so
that a play can stand between a pause and a seek; a fourth queues behind them like the
third. `FlacDecode` has one block more than the two credits of the code
(`FLAC_DECODE_OUTPUT_CREDITS`), so the Worker blocks on them, and a retry after a
quarantined transport competes with it for the one download. In `SparseInstall` a chunk spans two intervals and an interval
two chunks, and each span is one frame, so every span, write and hash boundary is apart
from the others; two operations are an install racing another tab's install, open or
inspection. In `SparseSession` the interval is longer than a read and follows a gap, so a
source has several updates that may be coalesced into one report; the other source is
silence alone; the third Worker construction replaces one that failed.

Deadlock is checked in `Session` and `FlacDecode`, whose `Finished` step marks the
states in which everything is over: anything else without a successor is a hang. The other
runs say `CHECK_DEADLOCK FALSE`: each of their histories is finite (calls are made
once, seeks and faults are bounded), the system may stop in many ways, and their
liveness properties say what must have been reached.

### Fairness

- `StemStore`: each tab's promises run (`WF` of its opener and tasks), and a Web Lock
  is granted in turn (`SF` of `LockStem` and `LockVictim`: the lock manager queues
  requests, so one that is free again and again is not missed for ever). Nothing is assumed about what a
  resolver delivers; that it answers at all is the job of its own watchdog.
- `OpfsWriteWorker`: the client's continuations and timers only. The Worker
  may stall.
- `FlacWorkerPool`: each job's steps, which includes that constructing, executing
  and resetting a Worker end: each is under a timeout that terminates it.
- `PcmPump`: the drive loop's timer, the deadlines of reads and requests, and a
  running AudioContext that takes slots. Reads and replies may stay away.
- `EngineSession`: cleanup and the calls' own continuations. The platform's
  promises may stay pending; what makes calls settle is that closing fails them. For the
  same reason `PromiseKept` asks for the end of calls only once the session closes.
- `FlacDecode`: the page's continuations, its watchdog and deadlines, and other
  readers that leave the admission. Neither the Worker nor the network has to answer.
- `SparseStore`: each operation's steps and the stream's. A physical mutation is
  fair as well: the code waits for it without a deadline.
- `SparseSession`: the pool's handlers with their watchdog, and each preparation's steps.
  A hung Worker stays hung.

## 5. Proofs

`StemStoreProofs` proves, for every set of tabs and stems, every assignment of
wants, width, quota and set of faults that satisfies `StoreAssumption`:

| theorem | states |
|---|---|
| `TypeCorrect` | `Spec => []TypeOK` |
| `OwnershipInvariant` | `Spec => []Ownership` |
| `PinsAlwaysHaveRows`, `PinsAlwaysCovered`, `PinsNeverLeak` | the three parts of `PinsExact` |
| `PinsAlwaysExact` | `Spec => []PinsExact` |
| `StagingAlwaysOwned`, `LocksAlwaysReturned` | the two parts of `NothingStranded` |
| `NothingEverStranded` | `Spec => []NothingStranded` |

None of the five parts is inductive alone. `PinsHaveRows` breaks if an
eviction that has already decided removes a row that was pinned since; what prevents
it is that the eviction is inside the index lock, so a pin cannot be granted.
`Ownership` says so:

- `LocksHeld`, `IndexHeld`: a lock is held exactly by the task or tab whose program
  counter is inside it;
- `TasksInSession`: a task runs only inside its `openSession`;
- `PinLife`: a tab holds its lifetime lock from `openSession` to its rollback or
  close and has no pin outside of that;
- `PinsHaveRows` itself, and `VictimUnpinned`: what an eviction is about to unrow
  has no pin;
- `StagingInIngest`: a staging file belongs to an ingest in one of three steps, to a task
  whose cleanup could not remove it ("littered"), or to a dead tab.

`NothingStranded` does not say that a failed ingest always removes its file; the code
does not either. It says that nothing else leaves one behind: without a crash, a
staging file that no lock protects is one whose removal failed and was swallowed. The set of
faults is a parameter, so with "remove" outside of it no task is ever littered.

The proof goes in layers, each assuming the one before: types (`TypeNext`), locks
(`LocksNext`, from what entering, staying in and leaving a critical section and a
rejection do), pins (`PinsNext`) and staging files (`StagingNext`), one step per action.
The theorems then follow from `Ownership` by definition.

Four more theorems are about the files. Each has the hypotheses it needs; finding 1
of section 6 shows that they cannot simply be dropped:

| theorem | assumes | states |
|---|---|---|
| `PinsAlwaysKept` | nothing more | `Spec => PinsKept` |
| `LeasesAlwaysBacked` | `Calm`: no rotten file, no failing read of a lease, no lost index | `Spec /\ [][HashesDecide]_vars => []LeaseBacked` |
| `FilesAlwaysBacked` | `Quiet`: only the resolver fails; `Serial`: one stem at a time, `AbortError`s only | `Spec => []FilesBacked` |
| `PinnedFinalsAlwaysKept` | `Quiet` and `Serial` | `Spec => PinnedFinalKept` |

`HashesDecide` says of one step that a hash which was cut short is not taken for a
file with the wrong bytes. That is exactly what `#verifyFile` gets wrong when a sibling
fails, so `LeasesAlwaysBacked` says that this one place is the only way for an open
lease to lose a file, for any width and all other faults. Under `Serial`
no sibling can be in the middle of its hash and `HashesDecide` is a consequence
(`SerialHashesDecide`), from the invariant `OneAtATime`: at most one stem of a session is
under way, and a session is aborted with anything but an `AbortError` only after one of
its stems has failed.

The invariant is `Backing`: what a session pins is good (`SessionPinsGood`); what is
being demoted or ingested is pinned by no session (`MendsUnpinned`); what is about to
be indexed or pinned is good (`OwnsGood`); a stem that is done stays pinned while its
session lasts (`DoneIsPinned`). None of it survives a folder sweep that removes a file
somebody is about to pin. It cannot, and `SweepSpares` says why: the sweep holds the
index from before its lock snapshot, nobody gets past reading the index meanwhile, and
whoever is past it had its stem lock in the snapshot. For `FilesBacked`, `Vouched`
adds that every row has its good file except the one an eviction is about to unrow.

`OpfsWriteWorkerProofs` proves, for every set of writers and probes, every choice of
the writers with a signal and every number of chunks that satisfies `OpfsAssumption`:

| theorem | states |
|---|---|
| `TypeCorrect` | `Spec => []TypeOK`, with the bounds of the count, of the chunks and of the files |
| `OwnershipAlwaysExact` | `Spec => []OwnershipExact` |
| `ResourcesAlwaysOwned` | `Spec => []ResourcesOwned` |
| `AcknowledgedAlwaysKept` | `Spec => []AcknowledgedKept` |

The inductive invariant is `Consistent`, proved in layers as well:

- `Typed`: the types without their bounds (`TypedNext`);
- `Counts`: the count and the Worker agree with the calls of the current generation, no
  call is of a later one, and a request is pending for a counted call only (`CountsNext`);
- `Wires`: a pending call has one message on its way, in one direction, and only
  replies survive their generation (`WiresNext`). Without it a reply could answer the
  wrong request;
- `Contents` and `HandlesOwned`: at each place of a call, and for each message, what
  the file and the handle of its writer are (`ContentsNext`). An acknowledgement
  that is still on its way is one chunk that is already in the file.

What all of them share is a step that retires the generation; `RetiredCounts`,
`RetiredWires` and `RetiredContents` say once what it leaves behind.

`PcmPumpProofs` proves, for every set of sources of any lengths, every quantum,
window, ring, number of reads, seek target and number of seeks that satisfies
`PumpAssumption`:

| theorem | states |
|---|---|
| `SteadyAlways` | `Spec => []PumpInv`, the inductive invariant |
| `TypeCorrect` | `Spec => []TypeOK` |
| `WindowsAlwaysSound` | `Spec => []WindowsSound` |

`WindowsSound` looks at rings and windows only and is not inductive: an old read may still
land, and where depends on what is being read. `PumpInv` has

- `Bounded`: a source reads once at a time and has at most one window while it does, so
  that the window which lands is never a third; slots, reads and generations
  stay in range;
- `Playing`, until the pump is closed: the slots of a ring lead its reader to the
  cursor (`SlotsLead`); the windows hold the cursor, follow each other and consist of
  whole quanta up to the tail of the source (`WindowsHold`); a read of the current
  generation starts where the windows end (`NextFrame`);
- `Asked`: the Worker is asked for a pump once, before anything else, and the seeks
  under way count towards `MaxSeeks`.

That no write ever meets a window too short for its quantum (`WriteFits`) is arithmetic:
two different multiples of a quantum are at least one quantum apart (`QuantaApart`), and
a window of `WindowFrames` rounds down to at least one (`AlignedQuanta`). `Pass` is proved as the
code runs it, `ScheduledSound`, `WrittenSound` and `ScheduledSound` again; `LandSound` is
the window that arrives, `SlotsRestart` the generation a seek begins.

`EngineSessionProofs` proves, for every number of calls and every set of configurations:

| theorem | states |
|---|---|
| `ExactAlways` | `Spec => []Exact`, the inductive invariant |
| `TypeCorrect` | `Spec => []TypeOK` |
| `CleanupAlwaysExact` | `Spec => []CleanupExact` |
| `ContextAlwaysAgrees` | `Spec => []ContextAgrees` |
| `NeverOpensAborted` | `Spec => NeverOpenedAborted` |
| `PromiseImplemented` | `Spec => Promise!Init /\ [][Promise!Next]_(Promise!vars)` |

`Exact` goes in layers:

- `Typed`, and `Stack`: each stage of the opening comes once and the handover last, and
  the cleanup stack holds each resource once, those that are open while the session serves;
- `Queueing`: the queue holds exactly the calls that wait, in order, only its first
  is past "queued", and each awaits what its step awaits;
- `Counted`: `pendingSeeks` is the number of seeks in the queue. It is why no
  play is accepted behind a seek;
- `Agreement`: each control message on its way to the context is that of the call which
  waits for it, and what context and session state have to do with each other while it
  is. `ContextAgrees` alone says nothing of the messages still on their way, and breaks
  with the first one that arrives.

`PromiseImplemented` is the safety part of the refinement `PromiseKept`: every step
of the session is a step of `SessionPromise` or a stutter, one step of the proof for each
action. The rest of `PromiseKept` is liveness and stays with TLC.

`FlacDecodeProofs` proves, for every number of headers, chunks, blocks, credits,
attempts, downloads and other readers:

| theorem | states |
|---|---|
| `ExactAlways` | `Spec => []Exact`, the inductive invariant |
| `TypeCorrect` | `Spec => []TypeOK` |
| `TransportsAlwaysBounded` | `Spec => []TransportsBounded` (of `FlacDelivery`) |
| `JobAlwaysExact` | `Spec => []JobExact` |
| `BuffersAlwaysReturned` | `Spec => []BuffersReturned` |

`Exact` is `Reading /\ Job /\ Protocol`: a range read holds its permit exactly while it is
physical, and a transport that is open or has a body is that of an attempt which has not been
cleaned up, so whatever stays in the air without a permit went through `Quarantine`
(`Reading`); the job knows why it ended, and its blocks are delivered, kept or cut
off (`Job`). `JobExact` says that no message of a correct Worker counts as a breach of
the protocol, which takes what page and Worker know of each other, in `Protocol`:

- `OneCommand`: at most one command is under way, from the Worker's post over the page's
  queue and lane to its reply or to the full slot;
- `Refills` and `Order`: what the Worker waits for, and that ready comes before the
  credits and these before complete, with as many chunks read as sent;
- `CreditsKept`: what was made is what arrived and what is on the wire, and the credits
  circulate among Worker, wire, page and reader.

`Protocol` is claimed while the job produces: a job that was stopped leaves its messages
where they are, and nobody listens.

`FlacWorkerPoolProofs` proves, for every set of jobs and holders, every limit, with and
without a shared module:

| theorem | states |
|---|---|
| `PoolAlways` | `Spec => []PoolInv`, the inductive invariant |
| `TypeCorrect` | `Spec => []TypeOK` |
| `WorkersAlwaysExact` | `Spec => []WorkersExact` |
| `EpochAlwaysOver` | `Spec => EpochOver` |

Nearly every action is an edit of the record `Now` that is handed to `Continue`. The
invariant is therefore about such a record: `Coherent(p, one)`, for the pool's state `p` and
the one-shot jobs `one`, is

- `Paths`: one-shot jobs never mix with slots and constructions, each job between the
  queue and its Worker is counted by `#constructing`, and a slot exists only from its first
  job's run on;
- `Queues`: either queue holds exactly the jobs that wait in it, each once, and nothing is
  pending in a closing epoch;
- `Leased`: the reservations are those of the slots, of the one-shot jobs that run, and
  of the jobs just admitted, at most `Limit`;
- `Realms`: slots and running jobs match one to one, and `#activeJobs` counts them.

`ContinueKeeps` shows once that admitting and draining keep a `Coherent` record so, whatever
handler left it, and that no job then waits without a reason (`ContinueServes`,
`ServesWakes`): each prefix of a queue that is served is a set as large as the prefix is
long, so the arithmetic of the limit carries over to sets of reservations. What is left for
each handler is that its edit of `Now` stays `Coherent` (one lemma each, `...Coherent`), and
`PoolInv` adds `NoLostWakeup` and that `#retentions` counts the holders. The two
action properties come from the same steps (`EpochStep`).

`SparseStoreProofs` proves, for every set of stores and sources, every number of
operations, generations, faults and crashes:

| theorem | states |
|---|---|
| `InvAlways` | `Spec => []Inv`, the inductive invariant |
| `LockAlwaysCovers` | `Spec => []LockCovers` |
| `SettledAlwaysClean` | `Spec => []CleanWhenSettled` |
| `IndexAlwaysValid` | the index derived from the manifest of a source is valid |
| `ExactAlways` | `Spec => [](Inv /\ Exact)`, the second inductive invariant |
| `TypeCorrect` | `Spec => []TypeOK` |
| `CommittedAlwaysExact` | `Spec => []CommittedExact` |
| `HandedAlwaysStays` | `Spec => HandedStays` |

`LockCovers` alone does not survive a release: it does not say that the operation which
gives the lock back has nothing pending. `Inv` does, in

- `Locked`: who is inside an operation holds the lock, and a mutation that is pending is
  the one its store's present step asked for, with its file owned;
- `Owned` and `Holding`: an open stream is that of the lock's holder, in a step that reads
  it or waits for its close, and only an open stream holds anything;
- `Fits`: what each step of an operation knows of the files. It is why a marker is
  written for a complete payload only, and why nothing is removed that was handed out:
  who owns a file has handed out nothing, and nor has anybody else;
- `Published`: a marker, whole or partial, names a complete payload;
- `Tidy`: until something crashed or failed, what is not committed has an owner that has
  yet to remove it.

Only the holder of the lock can be past "locking" (`Alone`), so a step has one operation to
look at. A step that leaves the files alone keeps `Inv` if its own record still fits and it
loses no file it has to care for (`Decided`, `Minds`); a mutation's effect is described once
(`Effects`) and used whether it lands, fails with its effect or is left behind by a crash
(`EffectPublished`, `EffectTidy`, `NextFits`, `BrokenFits`).

`CommittedExact` also says what the bytes are: the marker carries the index that
`deriveSparsePcmIndex` gives for the manifest, and every window read through it is the
source's PCM. For that `Inv` is joined by `Exact`, which follows the frames:

- `Streamed`: the manifest under the iterator is the source's, blocks lie inside its packed
  frames, and a span is part of one interval;
- `Stored`: payloads and indexes have their types, and a whole marker carries `Index`;
- `Grown`: what an installation has derived of the index is the index of the frames it has
  written (`UpTo`), and the stream is exactly as far as that, plus a span that is taken and
  not yet written.

`Exact` rests on what the functions of `SparsePcm` compute for every source, of any length,
and every size of span and chunk. `Describes(i, A)` is the property they share: the intervals
`i` are runs of the active frames `A`, apart, packed without holes, and miss none of them.

- `ManifestDescribes`, `ManifestValid`: the manifest of a source has it, and is valid;
- `IndexDerived`: the derived index is the manifest's intervals, nothing being coalesced;
- `SpanIsPart`, `SpanExtends`, `UpToEnd`: a span is part of one interval and at most as long
  as the store accepts, appending the next one to the index of `d` frames gives the index of
  `d` frames and its own, and the index of all frames is the whole index;
- `PackedAre`: where each frame lies in the payload;
- `Bisected`, `WindowRead`: the bisection finds the first interval that ends after a
  frame, and the pieces that `ReadWindow` copies are the canonical PCM of the window.

The recursive functions among these (the coalescing fold, the bisection, the copying loop)
are shown to equal a closed form, such as "the first `n` intervals", by induction over the
number of steps.

`SparseSessionProofs` proves, for every set of preparations, sources and Workers, every
width and number of faults:

| theorem | states |
|---|---|
| `InvHolds` | `Spec => []Inv`, the inductive invariant |
| `TypeCorrect` | `Spec => []TypeOK` |
| `VerifyAlwaysUnderLock` | `Spec => []VerifyUnderLock` |
| `ReadyAlwaysComplete` | `Spec => []ReadyComplete` |
| `CountsAlwaysAgree` | `IndexesValid => CountsAgree` |
| `ProtocolAlwaysExact` | `IndexesValid` implies `Spec => []ProtocolExact` |

`ProtocolExact`, that every Worker message the host receives is the one it expects, needs to
know what every message under way was sent for, how far the Worker has gone since, and that
nothing older is still on the wire. `Inv` says that of each slot and relates it to the
preparations:

- `Kept(pool)`: the pool is well shaped, a pending job waits in the queue or in exactly one
  slot (`Places`), a closed pool has neither (`Closing`), and each slot is `Sound`. It `Rests`
  with both wires empty, or is `Fresh`, its start message not yet read, or `Runs`, and the
  wires hold only its own progress and the acknowledgement it waits for, or is `Over`, and its
  last message is on the way. A pool in which a terminate() threw is closed for good
  and exempt from the last part.
- `LocksHeld`: who is between its lock and its release holds it;
- `Phases` and `Claims`: that a preparation that is ready has released its epoch, what a
  source may be waiting for in each phase of its preparation,
  and that a source of which a job is pending belongs to the preparation that claimed the
  pool.

The handlers are functions of the pool, so each is shown once to keep `Kept`
(`DispatchedKeeps`, `FinishedKeeps`, `ClosedKeeps` and so on); for the dispatch loop that is
an induction over the jobs given out (`Loop`). `Steps` is what a handler may do to outcomes
and places; `PoolMoves`, `TaskKeeps` and `SessionKeeps` use it to keep the preparations'
parts.

`ProtocolExact` also needs `CountsAgree`: the counters a Worker leaves for an index are those
the host computes from it. They are different loops, the Worker's over the pieces it hashes and
the host's over the intervals. `CountsAlwaysAgree` proves that they agree for every valid
index and every size of pieces: `CountedTogether` lets the pieces of an interval be counted
apart, `PiecesCounted` counts them, and `UpdatesCounted` follows both loops from interval to
interval, with the frames hashed so far at the end of the last one. What is left as a
hypothesis is `IndexesValid`, that the indexes pass `validateSparsePcmIndex`, which the store
checks of every index. `IndexAlwaysValid` of `SparseStoreProofs` shows it for the index
derived from any manifest; it is a hypothesis here only because the two proof modules
are about different specifications and share no theorem.

The lemmas on sequences at the head of the proof modules say what happens to a sequence that
loses its first, last or a middle element, how often a message occurs in a queue, and what a
queue without repetitions keeps. `AllNumbers` is induction over numbers in a form that takes
a set, not an operator, as its parameter, which is what these provers can instantiate.

All inductive invariants were checked by TLC on the instances of section 4 before they
were proved. The constants' assumptions, which the proofs use, are evaluated by
every run of the module.

Only model-checked:

- `FilesBacked` and `PinnedFinalKept` with more than one stem at a time, in the runs whose
  faults allow it;
- all liveness, `ENABLED`, and the liveness part of `PromiseKept`: outside what the prover
  handles.

## 6. Where code and documentation disagree

1. `StoreSibling`. When one stem of an `openSession` rejects, `runBounded` aborts
   the siblings with that stem's own error. `#verifyFile` rethrows only an
   `AbortError` (`stems/store.ts:306`), so a sibling in the middle of its hash
   answers "not verified" and `#verifyIndexed` removes a healthy final, even one that
   another session has pinned. `tests/store.test.ts:724` expects that "failed opens
   roll back only their ownership". The content is fetched again on the next open; a
   lease that was open loses its file.
2. `FlacPoolModule`. `NativeDecoderModuleLoader.acquire`
   (`stems/flac-worker-pool.ts:84`) joins whatever load is pending. One that its last
   owner has aborted is still pending until it rejects; a construction that arrives in
   between is cancelled with it, while the comment at line 379 says a load is aborted
   "only when no other construction still owns it".

Each run states the documented promise as its one property and TLC finds the history
that breaks it.

## 7. Not modelled

Components without a module:

- `stems/gate.ts`: a guard over one lease at a time; no other file under `src/src/`
  calls it, so the orders in which it is called are not known. Its check for a superseded
  `open()` comes before the wait for the prior lease to close (`stems/gate.ts:33`), which
  is listed as a hazard.
- `stems/storage.ts`: the adapter between the stores and the browser's files, which
  are variables of `StemStore`, `SparseStore` and `OpfsWriteWorker`; that it may refuse or
  time out is among their faults.
- The decoder, the FLAC header parser and the hashes: pure functions, mostly generated
  WebAssembly. The models ask only whether content has the right digest.
- Diagnostics and progress: nothing reads them back. That a throwing `onProgress`
  aborts an operation is one of the failures the models already have at each step.
- Declarations, capability tests, assets, errors and types; `scripts/` (browser test
  drivers).

Left out of modelled components:

- in `StemStore`: a move, writer or other file operation that timed out and takes effect
  after the step which gave it up (`MoveAbandoned` lets a move take effect at that step at
  the latest); failing index reads and removals within a rebuild of the index; a failing
  removal in the demotion that a failing `lease.read` starts. The victims of a reclaim are
  tried in any order, where the code takes the least recently used first;
- in `SparseStore`: storage that silently writes other bytes than it was handed. The hash
  gate of an installation is over the bytes handed to the writer
  (`EndOfSpans` compares the file with the source), so it would not notice either;
- the wait for the resolver of `SparseStore`, which is one step (`ResolveSource`): the
  operation holds its lock throughout and has no file yet, and a resolver that fails or
  is late leaves the files as one that was aborted does;
- the process-local lock queue used where Web Locks are missing: it grants the same
  locks within one page;
- `verify()` of the store on its own, and the quota figures;
- derivation of admission widths from memory and cores, and of byte budgets;
- `SelfDrivingPcmPump`, the sparse pump's reads and the rings' words in shared memory;
- the `cancel` request of the verification Worker, which its host never sends (it
  terminates the Worker), and its counters' exhaustion;
- sparse sessions without a resolver, which take the path of `openSource`;
- a resolver's answer that arrives after its deadline: the code drops it without a
  `return()`, and the models give a resolver that is late no stream at all;
- orphan payload generations of a crashed tab: no code sweeps them, and a marker that
  a crash left partial reads as corrupt, by design; `CleanWhenSettled` says what holds
  without a crash or a failed storage.
