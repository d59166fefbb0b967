# A TLA+ verification of xmBase

xmBase is a C++17 base library for robotics software: wait-free message
passing between threads and processes (`include/xmbase/concurrency`), a
telemetry API with a small built-in console backend
(`include/xmbase/telemetry`, `src/`), and plain helpers (types, byte order,
checksums, test support). This directory models the parts that keep state and
run concurrently, and the arithmetic they rest on, checks them with TLC on
small instances and proves the most important invariants with TLAPS for every
value of the constants.

## 1. Inventory

| Component | State | Operations | Hard because | Correct when |
|---|---|---|---|---|
| `detail::SeqlockRing`, under `MessageSlot` (N = 1) and `MessageBuffer` | N cells of sequence, index and words; the write cursor | `Store`; `Load`, `LoadBounded`, `Snapshot`; `RepairAfterWriterCrash` | readers copy while the writer overwrites; the writer laps them, or dies in mid-store and is replaced | a read returns one published value, the newest or consecutive ones; bounded reads return |
| `SpscQueue` | head, tail, cells, in private or shared memory | `TryPush`, `Full`; `TryPop`; `Size`; attach | plain accesses to cells ordered only by the indices; a side may die and be replaced | FIFO, nothing lost or doubled, no race on a cell |
| `EventCount`, `CondvarEventCount` | the 32-bit epoch or a mutex, threads parked on it | `NotifyAll`; `WaitUntil`, `WaitFor` | the notification between test and park; spurious wakes, deadlines, wrap-around | no wakeup lost, every wait returns |
| Worker inbox (example) | a queue, a waiter, a flag | push and notify; drain and park; shutdown | queue, flag and park are looked at one after the other | no sleep on work, the join returns |
| Storage policies | where cells live, who initializes | heap; carve from a region | every process must carve the same way; overruns are only asserted | carves disjoint, every view the same |
| Binding seam | active table, latch "explicitly set" | `InstallBinding`, `ActiveBinding` | lazy adoption of the console races installs and unbinds | an explicit install wins |
| Console binding | level, source registry, the line being written | level, intern, emit, health, write | first use by several threads; ids used long after they were given; partial writes | levels stick, lines name their source and arrive whole, faults are heard |
| `ArgPack` and the formatter | a bounded pack, a bounded buffer | `PackArgs`; `FormatMessage` | two limits, uint8 fields, arguments cut or dropped | no access out of bounds, arguments where they belong |
| Metric slots | counter, gauge, histogram | `Add`, `Set`, `Record` | compare-and-swap loops, NaN, infinities, bucket edges | nothing lost, exact extremes and ranks |
| Context and spans | the thread's current context, open scopes | guard, span, link, inject, extract | nesting; envelopes that are late, repeated or garbled | contexts restored, spans form trees |
| Serialization, benchmark statistics | none | loads and stores, checksums; percentiles | boundaries and widths | values come back, damage is seen, nearest ranks |
| Time, types, allocation probe | none, or a local one | | | |

How they interact. `MessageSlot` and `MessageBuffer` are the ring with one and
with N cells and forward every call. An `EventCount` is a member of the ring
and of an application's worker loop, next to an `SpscQueue`; the ring's own
verbs never touch it. Every telemetry call site goes through `ActiveBinding`
and then calls a function of the table; the table's `emit_event` gets an
`ArgPack` by reference; metric handles keep a pointer to a slot and do not
come back to the table. The only state the telemetry API itself keeps is the
thread's current context.

PROJECT.json lists each component with its status, each hazard with the line
where it bites, and for each definition the lines it stands for.

## 2. Modules

| Module | Models | Used by |
|---|---|---|
| `SeqlockRing` | `detail/seqlock_ring.hpp`, one step per atomic access | runs `slot_torn`, `slot_stall` |
| `OverwriteHistory` | what a slot or buffer promises: an atomic store, reads of a bounded history | through the next |
| `SeqlockRingRefinement` | the refinement mapping from the ring to the history | run `ring` |
| `SeqlockRingProofs` | the proofs about the ring and its refinement | |
| `SeqlockFences` | `Store` and the reads again, under the C++ memory orders | run `fences` |
| `SpscQueue` | `spsc_queue.hpp`, accesses to a cell as intervals | through the refinement |
| `BoundedFifo`, `SpscQueueRefinement` | a FIFO with atomic push and pop, and the mapping | run `queue` |
| `SpscQueueProofs` | the proofs about the queue and its refinement | |
| `EventCount`, `EventCountProofs` | the futex eventcount of `event_count.hpp`, and its proofs | run `park` |
| `WorkerInbox`, `WorkerInboxProofs` | `examples/concurrency_worker_inbox_example.cpp`: `BoundedFifo` and the three waiters of `event_count.hpp` composed, and the proof | run `inbox` |
| `RegionStorage` | `Carve` of `storage.hpp` and the layouts of ring and queue | assumptions checked in run `ring` |
| `TelemetryBinding`, `TelemetryBindingProofs` | `telemetry_unbound.cpp`, the call sites of `event.hpp` and `health.hpp`, level and registry of `telemetry_console_binding.cpp`, and the proofs | run `unbind` |
| `MCTelemetryBinding` | the symmetry of threads and names | run `binding` |
| `ArgPack` | the pack of `binding.hpp` and the two formatters, the console's `FormatMessage` and the unbound `FormatInto` | through the next |
| `ConsoleLine`, `ArgPackProofs` | `EmitLine` and `WriteLine` after `ArgPack`, and the proofs about both | run `event` |
| `MetricSlots`, `MCMetricSlots` | the slots of `binding.hpp`; an instance with a sample in every bucket | run `metrics` |
| `ByteOrder` | `byte_order.hpp` | through the next |
| `MemoryProofs` | the proofs about `SeqlockFences`, `RegionStorage` and `ByteOrder` | |
| `Checksum` | `checksum.hpp` | assumptions checked in run `metrics` |
| `BenchStats` | the statistics of `bench_harness.hpp` | assumptions checked in run `metrics` |
| `TraceContext` | `context.hpp`, `span.hpp` | through the next |
| `MCTraceContext` | what a garbled envelope may carry, and the symmetry of threads | run `trace` |
| `TelemetryProofs` | the proofs about `TraceContext` and `MetricSlots` | |

Conventions. A thread's place in a function is its `pc`; a local variable of
the code keeps its name. Variables marked *ghost* record history for the
properties and never guard a step of the program. A definition named with the
suffix of a fault and commented `Fault:` is a plausible mistake in the
definition it precedes; each property is shown to notice one of them.

### What the models keep and what they abstract

* **Ring.** A value is its number, copied into every word; a copy that mixes
  two numbers is torn. `Store` is five kinds of steps: the odd sequence, the
  index, each word, the even sequence, the cursor. Reads are the same for the
  three verbs up to what they do when the cell does not validate. Accesses
  take effect in program order; `SeqlockFences` is where they do not. A crash
  stops the writer at any step and only the repair, followed by a new writer,
  leaves that state.
* **Fences.** Each atomic keeps all values stored in it, in modification
  order, and each value the *view* it carries: for every atomic, the oldest
  store that somebody who has read this value may still read. A relaxed store
  carries the view of the last release fence, a release store everything
  before it; an acquire load takes the view over, a relaxed load keeps it for
  the next acquire fence. A reader may otherwise read any store that its view
  does not exclude. Loads are not performed early and stores not late, which
  loses nothing here: the readers store nothing, and a late store is a store
  that nobody has read yet. Crashes are left to `SeqlockRing`.
* **Queue.** The write and the read of a cell are intervals, so that two
  overlapping ones are a data race; a cell is `Torn` while it is written.
  Indices grow without wrapping (64 bits). `Size` is called by the consumer,
  whose own head is exact, and by a third thread, the depth gauge that its
  comment names: there it is two relaxed loads, each of which may return any
  value from the last one this thread saw to the present one. A side that dies
  leaves the control block as it is and a new one attaches with fresh locals.
  The initialization of a region is `Init`; initializing it again under a live
  producer is outside the contract.
* **Eventcount.** The epoch counts modulo `EpochModulus`, which stands for
  2^32, so that wrap-around happens in the runs. The predicate is one
  Boolean which a notifier makes true before it notifies and a waiter that
  returned may take. The futex compares and parks in one step, as the kernel
  does.
* **Worker inbox.** The queue is the `BoundedFifo` that `SpscQueue` is shown
  to implement. The waiter is chosen at the start: a futex; the sleep of other
  systems, which nothing wakes; or a mutex with a condition variable, which
  gives the mutex up and parks in one step. The predicate reads `Size` and the
  flag in two steps. The epoch does not wrap here.
* **Storage.** Offsets from the base of the region; the mask of `RoundUp` is
  the next multiple, which is what a mask by a power of two gives.
* **Binding.** Every access to the two globals is a step. The table of an SDK
  is external. The severity, the source and whose id it is are kept of an
  event, the state of a health report. The stream macros ask for the binding
  twice, as the code does. `EnvLevel` is what `LevelFromEnv` makes of the
  environment.
* **Event.** An argument is its kind and size; a piece of the format is a
  character or a placeholder; text is its length. The sizes of the buffers are
  constants. A byte of a line is its position; `write(2)` takes any number of
  the bytes it is offered, or fails, and the lines of others come between two
  writes. Tag, colours, time and names of a line are the size of its prefix.
* **Serialization and statistics.** Functions on tuples, no state. In the
  loads, `|` of bytes shifted apart is a sum.
* **Metrics.** A double is an integer, an infinity or NaN; rounding is left
  out. `compare_exchange_weak` may fail for no reason. `HistogramBucketOf` is
  the set of indices that a build may compute: one of them, except for
  +infinity, where a signed overflow leaves the last bucket or an index outside
  the array (section 6). An increment outside the array changes no bucket; what
  else it would change, or that the program is stopped there, is left out.
* **Contexts.** Ids are fresh numbers. `SetCurrentContext` is used as its
  comment demands, outside open spans. `Extract` looks at the length of an
  envelope and at nothing else, so an envelope carries what was injected,
  nothing, or any context of `Garbage`, a set the proofs leave open: a span
  without a trace, a trace that nobody minted, a trace with the span of
  another. Of the links of a span only their number is kept.

## 3. Runs

| Run | Bounds | What it shows |
|---|---|---|
| `ring` | 3 cells of 2 words, 6 stores, 1 reader, 1 retry, snapshots of 0, 2 and 4, 1 crash | reads are whole and consecutive (`ReadsAreWhole`); a snapshot ends only where history does (`SnapshotLosesNothing`), and what is gone never becomes readable again (`NothingComesBack`); `kEmpty` means empty; a read beside an idle writer succeeds; the ring implements `OverwriteHistory`; every read returns, wherever the writer stops or dies; the inductive invariant of the proofs |
| `fences` | 2 cells of 2 words, 5 stores, 1 reader | whole reads with the fences and memory orders of the code (`FencedReadsAreWhole`), and a published position lost to a lap only (`LossesAreLaps`); without (W1), without (R2), or with a relaxed cursor, they fail |
| `slot_torn`, `slot_stall` | 1 cell, 3 stores, 1 crash | two statements about crashes that do not hold, see section 6 |
| `queue` | 2 cells, 4 pushes of 2 values, 2 deaths, 1 observer | order, no race, answers to both sides and to the depth gauge, refinement of `BoundedFifo` |
| `park` | 2 waiters, 2 notifiers, epoch modulo 2, 3 notifications | no lost wakeup; a true predicate wakes without the clock; every wait ends with it |
| `inbox` | an inbox of 2, 4 commands, the 3 waiters | the worker does not sleep on work; what is pushed is taken; the shutdown joins; all without the deadline |
| `binding`, `unbind` | 2 threads, 3 calls each (2 for `unbind`), a good and an incompatible table, 2 sources, 2 severities, 3 health states, level 3 in the environment | who wins between installs and adoption; levels, sources and faults under it |
| `event` | packs of 3 entries and 26 bytes, strings of 0, 15 and 300, message buffer of 12, line buffer of 16 | the limits of the three buffers, from all sides; lines through partial writes |
| `metrics` | 2 threads, 3 calls in all, samples -3, 1, 2, 4, NaN and both infinities, 4 buckets | no update lost, extremes, ranks, return of every call |
| `trace` | 2 threads, 4 ids, 2 open scopes each, 1 injected and 1 garbled envelope of 3 kinds | restored contexts, spans that form trees |

Why the bounds are enough to be interesting. With 6 stores on 3 cells, or 5 on
2, the writer laps a reader twice, so that a cell can change between any two of
its accesses to a value of the right parity and the wrong index. 4 pushes on 2
cells wrap every cell once in each direction; 4 commands on an inbox of 2 fill
it and have one rejected. An epoch modulo 2 wraps within two notifications,
which is what would need 2^32 of them. The pack of 26 bytes leaves room for a
bool and not for a word after a string of 15 and a word. Prefixes of 4 and 9
make lines shorter than, as long as and longer than their 16 bytes. A root
takes two ids, so 4 ids are two traces, or one with three spans, and a garbled
envelope adds a trace that nobody minted or mixes the two. Each of the 4 buckets
has a sample at its lower end; 3 calls let two threads meet in every loop while
one of them comes back with another sample. Readers do not interact, so one is
enough; threads of the binding, the slots and the contexts interact pairwise.
Threads and source names of the binding, and the threads of the contexts, are
interchangeable, hence the symmetry; their properties are invariants.

The runs of `TelemetryBinding` and `MetricSlots` end when every thread has
used up its calls, that of `WorkerInbox` when the worker is joined, so deadlock
is not checked there. The others are checked for deadlock.

Four modules hold functions rather than machines. `RegionStorage`, `Checksum`
and `BenchStats` state what their functions should compute as named
assumptions, which TLC evaluates at the start of a run: `RoundUp` gives the
least multiple; the check values of the catalogue come out, a frame followed by
its check reduces to zero, and no damage to one byte goes unnoticed;
percentiles are nearest ranks around the counts where p99 and p99.9 leave the
maximum. `ByteOrder` is proved.

### Fairness

* `FairReadersSpec` of the ring: a reader inside a call is scheduled (it is
  straight code without locks); nobody is obliged to begin a call, and nothing
  is asked of the writer, which may be dead. `Load` is only promised to return
  when the writer stops, which the bound on stores gives.
* `FairSpec` of the inbox: producer and worker are scheduled, a sleep ends, and
  the producer gets a mutex that is free again and again (strong fairness of
  `EmptySection`). The deadline is not fair: both liveness properties hold
  without the 50 ms bound, except that the sleeping waiter ends its sleep.
* `FairSpec` of the eventcount: threads inside `NotifyAll` and `WaitUntil`
  are scheduled. The clock is not fair: `WakesWithoutClock` must hold without
  it. `WaitReturns` assumes `FairClock`, time passing and the kernel ending
  overdue waits, as its hypothesis.
* `FairSlotSpec` of the slots: a thread is scheduled, and an exchange that could
  succeed does not fail spuriously for ever.

## 4. Proofs

All theorems hold for every value of the constants that the named `ASSUME`
allows, and are checked by TLAPS down to the leaves. Every invariant below was
checked by TLC on small instances before it was proved.

* **Ring** (`SeqlockRingProofs`), about `CrashSpec`, so with crashes and
  repairs, unless said otherwise.
  * `TypeCorrect`, `InvariantHolds`, `WholeReads`. `ReadsAreWhole` is not
    inductive: that a copy is whole when it validates needs to know what the
    copy is while it is being made. `IInv` adds: the cell at the cursor is the
    only one that can be odd, and holds the store in progress as far as the
    writer has come (`WriterInv`); a cell at rest holds the published value of
    its index (`CellInv`); a walk stays among published positions (`WalkInv`);
    and what a reader has copied is what the cell holds *as long as the
    sequence is the one it first read* (`CopyInv`). The last is where the
    monotone sequence is used, and why reads that a repair ran under are set
    apart (`straddled`).
  * `SnapshotsLoseNothing`, `EmptyRingsOnly`, `QuietReads`, and the action
    property `GoneIsGone`. They are about what
    the cells hold and for how long, which `IInv` does not say. `JInv` adds it:
    the N - 1 newest positions are held, and without a crash the N-th too until
    the writer comes to it (`HeldInv`); positions go in their order and never
    come back (`GoneInv`); a copy that will not validate is of a position that
    is gone, and what a finished walk left out stays gone (`LossInv`); the
    newest cell of a call has been written (`NewestInv`); and a call that has
    seen only an idle writer has the present cursor and sequence (`QuietInv`).
    `QuietReads` assumes N > 1: a repaired ring of one cell stalls, which is
    finding 2 below. `QuietReadsInProcess` has no such hypothesis: without
    crashes it holds for N = 1 too.
  * `RingRefinement`: for N > 1 the ring implements `OverwriteHistory`, and
    `RingRefinementInProcess`: without crashes it does for every N. The
    publication of the cursor is the abstract `Store`, a repair that retracts a
    cell is `Retract`, the step in which a call returns is its answer, and the
    lemmas `PublishIsStore`, `RepairIsRetract`, `CallIsInvoke`,
    `RunningIsHidden` and `ReturnIsAllowed` show each step to be what it
    should. A third invariant, `CountInv`, bounds the walk by what was asked.
* **Memory orders** (`MemoryProofs`): `FencedReads` and `OnlyLapsLose`, for
  every depth, value size and number of stores: the same two promises with
  loads that may return any store the view does not exclude. The invariant
  numbers the entries of each atomic (`SizeInv`, `ValueInv`), says what the
  orders buy (`ViewInv`: with a word comes the odd sequence before it, with an
  even sequence the index and the words, with the cursor every publication) and
  what a reader in the middle of a copy has therefore seen (`ReaderInv`).
  Validation succeeds only if no word was of a later store, because the acquire
  fence would have made that store's odd sequence the oldest one readable.
* **Queue** (`SpscQueueProofs`): `InvariantHolds`, `FifoHolds`,
  `NoDataRaceHolds`, `AnswersHoldAlways`. The invariant orders the index a side
  saw, the index itself and the other side's, `headSeen <= head <= tailSeen <=
  tail <= headSeen + Capacity` where each is meaningful, and says that the
  cells between them hold what was pushed (`SidesInv`); and that a third thread
  has seen no more of either index than there is (`GaugeInv`), which says
  nothing of the order of the two it has, hence the test in `Size`.
  `QueueRefinement`: the queue implements `BoundedFifo`, deaths of the sides
  included; the publication of an index is the abstract push or pop.
* **Eventcount** (`EventCountProofs`): `InvariantHolds`, `NoWakeupIsLost`, for
  any number of threads and any modulus. `GenInv` relates the epoch to a
  waiter's generation by the bumps it missed, until it missed a whole turn;
  `CommitInv` says that a waiter that saw the predicate false, and missed no
  bump, can count on the notifier that made it true.
* **Worker inbox** (`WorkerInboxProofs`): `NeverSleepsOnWork`, for every
  capacity and number of commands and all three waiters. `CommitInv` says that
  what came after a committed worker's look was brought by somebody who has not
  notified yet; committed means that the epoch has not moved, or that the
  worker holds the mutex.
* **Event** (`ArgPackProofs`): `PackStaysInBounds`, `MessageStaysInBounds`: the
  entries tile the pack and the message with its terminator fits its buffer,
  for every size of the two buffers that a byte can count. `StringsAreKept`,
  `FittingEventsAreAligned`: they need that entries are the arguments in order
  as long as there is room for a word (`CountInv`), and that the placeholders
  took them in order (`ShownInv`). `ConsoleRunsEvents`: `ConsoleLine`
  implements `ArgPack`, so all four hold of the events that become lines.
  `LinesArriveWhole`: the line as far as it was written is on stderr in order
  (`LineInv`), whatever `write(2)` takes.
* **Storage** (`MemoryProofs`): `CarvesAreDisjoint`, for every type and
  cursor; `StorageBytesExact`, the sentence of the ring's header comment about
  what its two carves consume, for every depth and value size;
  `QueueViewsAgree`, that a side which attaches with the region's bound finds
  what the creator laid out with its own depth.
* **Byte order** (`MemoryProofs`): `RoundTrip16`, `RoundTrip32`,
  `SignedRoundTrip16`, `SignedRoundTrip32` and `LoadsAreInjective`, for every
  value of the width.
* **Binding** (`TelemetryBindingProofs`): `ExplicitInstallWins`,
  `NeverUnboundByItself`, `LevelIsKept`, `NeverSilent`,
  `LinesNameTheirSource`, for any number of threads, tables and calls.
  `LatchInv` says that the latch is set before anything is stored, so a
  binding that the adoption left is empty again only after an explicit call;
  `MadeInv` that nobody has the console, or a level set through it, before its
  static table is made, so the seed of the level comes first; `SeedInv` that
  until somebody chooses a level the console has that of the environment, which
  is what decides whether a report of a fault is shown; `RegistryInv` that an
  id the console gave out stays that of its name.
* **Contexts** (`TelemetryProofs`): `ThreadsAreNotPolluted`,
  `EventsCarryTheirSpan`, `RecordsAreTrees`, for any nesting, number of threads
  and set `Garbage` of contexts that the carrier may make up. `StackInv` says
  what will be current again under each open scope, `ContextInv` that every
  valid context anywhere, envelopes included, is of a span minted in its trace
  or came garbled, `SpanInv` and `OnceInv` that open and recorded spans are in
  the tree, and there once. That a parent is an earlier span of the same trace
  does not hold of a span begun under a garbled context, and `RecordsFormTrees`
  says so: such a span has exactly that context's trace and span for its trace
  and parent, its own id is still fresh, and its children are under it.
* **Metric slots** (`TelemetryProofs`): `NothingIsLost`, `ExtremesAreExact`,
  `BucketsRank`, for any number of threads, calls, buckets and samples,
  infinities and NaN included, with failing exchanges. They follow from
  `SlotInvariant`. Its part `CallInv` says that a thread inside a call is in
  one it announced, and that no other thread is at its place, so a step moves
  one call past one field of the slot and leaves the sums over the other calls
  alone. `StaleInv` says that the expected value of a loop on `min` or `max` is
  out of date on the safe side only: the field has moved towards the extreme
  since. With that `ExtremesExact` is inductive, since the doubles other than
  NaN are ordered (`LessOrders`). Sums over finite sets are handled by
  induction stated over sets: a smallest counterexample under strict inclusion,
  from the library's theorem about minimal elements (`FiniteInduction`,
  `SumStep`, `TotalAdds`). Powers of two are numbers of subsets
  (`PowerDoubles`), and `BucketRanks` shows that a sample is in a bucket up to
  i exactly when it is below i's upper bound, which a sample of +infinity never
  is: it can be missing from the last bucket and disturb no other.

Only model-checked: the liveness properties, which are out of the prover's
reach under fairness, and the assumptions about `Checksum` and `BenchStats`,
whose functions work bit by bit or on sorted samples.

## 5. Not modelled

* `MutexMessageSlot`: both verbs hold the mutex from beginning to end, so each
  is one step of `OverwriteHistory` with depth 1.
* `HeapStorage`: `make_unique`.
* Signals, resources, and the registration of metrics: one call through the
  table each, to an SDK that is not in this repository; the console's are
  empty or return a static slot. `Publish` may hand a table the slot of
  another one, which only an SDK could notice. `GetLogLevel` only reads.
* The wording, colours and time stamps of a console line.
* The measuring loops, hardware context and JSON of the benchmark harness, and
  the allocation probe: test support, input and output.
* The benchmarks and the other examples: callers of what is modelled.
* Types: plain data.
* `EventHub`: described in `docs/event_hub.md`, not in the code.

## 6. Where code and text disagree

1. `slot_torn`. The repair sets the sequence of the cell in flight back to 0.
   In a slot, that is the cell readers copy. A reader that took an even
   sequence before the crash can find the same number after the repair and
   the next stores, and its copy of two stores' words validates, against
   "A torn read can never validate." (`seqlock_ring.hpp:35`).
2. `slot_stall`. A writer that dies between the even sequence and the cursor
   leaves an even cell one ahead of the cursor. The repair finds nothing to
   do, and an idle, repaired slot answers `kStalled` until the next `Store`,
   against the test that wants the repair to return it to "never written".
3. `unbind`. `ActiveBinding` tests the latch and adopts the console in two
   steps; an explicit unbind between them is undone, against "never
   auto-adopted again" (`telemetry_unbound.cpp:27-29`).

Five more are visible in the models and have no run of their own:

* An argument dropped for room does not stop the ones after it
  (`binding.hpp:170`): its placeholder shows a later, smaller argument and the
  `{?}` comes at the end, against the comment of `FormatMessage`
  (`telemetry_console_binding.cpp:344-345`) and a test
  (`test/test_logging.cpp:232-233`). `FittingEventsAlign` holds because it is
  about events that fit.
* In a buffer of several cells, a reader whose cursor is a lap old and that
  meets a cell the repair has set to 0 answers `kEmpty` at once
  (`seqlock_ring.hpp:302`), where for any other mismatch it loads the cursor
  again. `EmptyIsHonest` leaves out the calls a repair ran under for this
  reason.
* `Record` of +infinity: `std::ilogb` returns `INT_MAX`, and `e + 1` overflows
  (`binding.hpp:103-104`), which is undefined. A build that folds the test into
  `e >= 22` counts the sample in the last bucket, as the comment at
  `binding.hpp:97-98` has it ("bucket 23 holds v >= 2^22"); one that wraps
  computes a negative index and increments memory outside the histogram.
  `BucketsRankSamples` allows a sample of +infinity in no bucket and nothing
  else.
* A line is one `write(2)` only if the kernel takes it at once; the comment at
  `telemetry_console_binding.cpp:444-446` relies on that, the loop below it
  does not. `LineArrives` allows others in a line only after a short write.
* Commands of the worker inbox that are pushed after the worker's last look at
  an empty queue and before its look at the flag stay in the inbox when it
  stops. `InboxDrains` is therefore about the time before the shutdown.

## 7. Plan

Done: the ring, also under the memory orders of the code, the queue, both
eventcounts, their composition, the storage layouts, the binding seam with
health, events down to the bytes of their lines, metrics, contexts, byte order,
checksums and statistics. Every safety property that a passing run checks is
also a theorem (section 4), and so are the action property of the ring and the
refinements. Next:

1. A larger instance of `SeqlockFences` with a crash and a repair, where the
   release store of the repair matters.
2. Signals and handles, once a drain is in the repository.
