# A TLA+ model of tierstore

tierstore stores keys in an ordered stack of tiers: a router probes the tiers
from the top, promotes hits, and lets what a bounded tier displaces roll over
into the tier below. This directory models the library's core in TLA+, checks
it with TLC on small instances and proves with TLAPS, for all instances, the
safety of every component that keeps state and two refinements.

Paths below are relative to the repository.

## 1. Inventory

| Part | Source | State | Operations |
| --- | --- | --- | --- |
| Router | `crates/tierstore/src/router.rs` | the stack of tiers, the policy, counters | `get`, `read_one`, `read_many`, `get_many`, `exists`, `put`, `put_many`, `delete`, `remove_many`, `delete_many`; inside them `demote` and `promote_batch` |
| Read flow | `crates/tierstore-core/src/read.rs` | position in the stack, failures so far | `step`, `on_get`, `on_promote` |
| Policy | `crates/tierstore-core/src/policy.rs` | none | four choices: promotion, read errors, write mode, write errors, and demotion on or off |
| Tier traits | `crates/tierstore-core/src/tier.rs` | none | the contract of `put`, `delete`, and looping batch defaults |
| Memory tier | `crates/tierstore/src/memory.rs` | map, queue of tickets, weight total, stamp counter, one mutex | `insert`, `fetch`, `touch`, `remove`, `evict_over`, `compact` |
| Single flight | `crates/tierstore/src/single_flight.rs` | map from keys to gates, and per gate a flag and wakers | `acquire`, drop of the guard |
| Concurrency limit | `crates/tierstore/src/limited.rs` | permits and wakers | every tier operation behind `acquire` |
| Offload | `crates/tierstore/src/offload.rs` | channel, worker threads, a oneshot per operation | `run`, `poll`, the worker loop, drop |
| Cache | `crates/tierstore/src/cache.rs` | a router and the gates | `get`, `lookup`, `get_or_load`, and forwarding |
| Store | `crates/tierstore/src/store.rs` | a router | forwarding; displaced entries become `StoreError::Evicted` |
| Mmap disk tier | `crates/tierstore-mmap/src/tier.rs` | directory, mappings, sizes, tickets | `get`, `put`, `delete`, `clear`, reopening |
| Disk tier | `crates/tierstore/src/disk.rs` | directory | `get`, `put`, `delete`, `list` |
| Slot tier (demo) | `crates/rollover-demo/src/slot_mmap.rs` | mapped slots, index, FIFO order, free list | `insert`, `remove`, reopening |
| Verified and codec tiers | `verified.rs`, `codec.rs` | none of their own | forwarding with a check or a conversion |
| Moka tier | `crates/tierstore-moka` | a third-party cache, which evicts on its own | forwarding |
| Errors, reports, demo | `error.rs`, `report.rs`, `crates/rollover-demo` | none | formatting, printing |

How they interact. The cache and the store own a router; the cache takes a
single-flight gate around a read. The router calls its tiers through boxed
futures, one call at a time for each operation, and holds no lock: operations
of different callers interleave at every `await`. Middleware tiers (limit,
offload, verification, codec) wrap one tier. A tier protects its own state
with one mutex. Everything that waits does so with wakers: there is no
executor in the library, and a future may be dropped at any `await`.

The disk tiers make file system calls outside their lock, and their files, as
the slots of the demo's tier, outlive the process.

What is hard. The router's operations are sequences of tier calls, some of
which fail, beside other callers' sequences: copies of different age move up
(promotion) and down (demotion) past each other. The gates, the permits and
the oneshots are hand-written synchronisation with cancellation. The memory
tier's eviction queue is lazily cleaned and must agree with the map after any
sequence of calls. The disk tiers read state, release the lock, make calls that
may fail or never happen, and take the lock again; a crash at any point leaves
files that the next process must make sense of. `PROJECT.json` lists these hazards, each at its line.

What makes each part correct:

- router: the topmost copy of a key is the last one written; a miss is
  confirmed by all tiers; a delete or an invalidation names the tiers where
  copies survive; no accepted key disappears without a report; read-only
  tiers are never written; operations end;
- read flow: the outcome says what the probes said, hits are promoted as the
  policy says, the driver is never asked for the impossible;
- memory tier: it is a bounded FIFO or LRU queue, its tickets and its weight
  agree with its entries, its queue does not grow with use;
- cache: concurrent misses of a key share one load, waiters do not reach the
  cold tier again, a leader that fails or is dropped blocks nobody;
- disk tiers: index, tickets, total and directory agree, the budget is kept,
  files are whole values, a view never changes, what was put survives a crash;
- slot tier: it serves what it held after reopening, a torn record harms no
  other, a view is stable;
- gates, permits, pool: mutual exclusion, nothing lost or forged, no lost
  wakeup, progress.

## 2. Modules

| Module | Models |
| --- | --- |
| `KeyGates` | what the single-flight gates promise (abstract) |
| `SingleFlight` | the gates, which implement `KeyGates`; `SingleFlightProofs` its theorems |
| `Router` | the router over abstract tiers, for any policy; the store is its `StorePolicy`; `RouterProofs` has its theorems and the cache's |
| `Cache` | the cache: `Router` composed with `KeyGates`; `RouterProofs` |
| `ReadFlow` | the sans-io flow and its driver; `ReadFlowProofs` |
| `BoundedTier` | what a bounded tier promises (abstract) |
| `MemoryTier` | the memory tier, which implements `BoundedTier`; `MemoryTierProofs` |
| `Limited` | the permits; `LimitedProofs` |
| `Offload` | the worker pool and its oneshots; `OffloadProofs` |
| `Enumeration` | what a filter, a scan or a `retain` leaves of a sequence, for `Router`, `DiskTiers` and `SlotTier` |
| `DiskTiers` | the mmap disk tier and the disk tier over a small file system; `DiskTiersProofs` |
| `SlotTier` | the demo's slot tier; `SlotTierProofs` |
| `MC...` | constants, symmetry and refinement mappings for TLC, where a module needs them |

Operators whose comment says "Mutant" are wrong variants of the operator that
follows them. They are not used by the specifications; `PROJECT.json` says
which property each of them violates when it takes that operator's place.

**SingleFlight.** A task goes idle -> entered -> pending -> holding -> waking ->
cleaning -> dropping -> idle. Each critical section (of the map's lock or of a
gate's) is an action: `Enter` is `entry(key).or_default()`, `Poll` is
`try_acquire`, then `Release`, one `WakeOne` per waker, `Cleanup` and
`DropArc` are the guard's drop in its order. `Cancel` drops the future of a
pending acquire. The strong count of an `Arc` is not a variable: it follows
from the references that the map and the tasks hold. A waiting task owns two
clones and a guard one, so the test `strong_count == 2` is "no other task
refers to this gate". `Holders`, the pairs of a task and the key it holds, maps
these states to `KeyGates`.

**Router.** A tier is a function from keys to values, with a predicate `Fits`
for its bound. One tier call is one action, and what the code does between two
calls is an operator on the caller's registers (`AfterProbe`, `Settle`,
`NextWrite`, ...), applied in the action of the call before. A failing call
leaves the tier's contents for its key unspecified, as the trait's contract
says. Which keys a full tier displaces is left open (`Victims`): the trait does
not say, and the key that is put may be among them. A single-key operation is the batch of
one: the code has both forms, with the same order of calls. The default
`put_many` and `delete_many` loops are steps, or any prefix, of single puts and
deletes. `Drop` is the caller's future dropped at an await: the registers are gone and
the tiers stay as they are. Which router it is, and what its callers do, is the
variable `config`, chosen in `Init`, so that one run covers several stacks and
policies. `latest`, `owed` and `torn` are history variables, read by properties
only: what was last written to each key, which accepted keys have been neither
deleted nor reported, and for which keys the last put or delete failed or was
dropped.

**Cache.** It extends `Router` and uses the actions of `KeyGates`. `flow` says
where a client's call is between gate, tiers and loader; every tier call is an
action of `Router` on the same client's registers. Acquiring the gate and making
the first call under it is one step, as is the end of an operation and the drop
of its guard: nothing is awaited between them. `CancelCall` drops a future at
any await and with it the guard. `loads`, `cold` and `spoiled` count loads and
reads of a read-only tier per key and note the keys for which a second one is
legitimate: deleted, displaced (also as they are put), failed or dropped.

**ReadFlow.** `OnGet` and `OnPromote` are the driver's two reports; the policy
and the number of tiers are chosen in `Init`. `answers` and `copied` record
the reports for the properties.

**MemoryTier.** One action per operation of a batch; the lock is held for the
batch (`batch` is what is left of it). Tickets carry increasing stamps, so the
queue is a set ordered by stamp. `EvictOver` says which prefix of the queue the
loop pops: the shortest after which the tier is within its limits.

**BoundedTier** has a queue of keys without stamps and without stale tickets;
`Contract` in `MemoryTier` maps the keys of the live tickets, in the order of
their stamps, to it.

**Limited.** As `SingleFlight`, with a counter instead of a flag and one queue.

**Offload.** Jobs are result cells that are reused when nobody refers to them.
A worker locks the receiver, receives, runs the job (which returns or panics),
stores the outcome and takes the waker under one lock, and wakes. Tasks may be
polled at any time and with different wakers, and only the last one counts.
Dropping a future leaves its job behind. `Close` and `Join` are the drop of the
pool; futures borrow the tier, so none is left by then.

**DiskTiers.** A directory is two functions from keys to inodes, one for files
and one for temporary files; an inode has a body, a sequence of pieces each
marked with the value it was written for. Inodes are reused when no name,
mapping, view or open file refers to them. Each critical section and each file
system call is an action: `PutOpen`, `PutWrite`, `PutRename`, `PutRemap`,
`PutAccount`, then `Evict` and `EvictUnlink` in turn under the lock. A ticket is
its key: stamps only tell the last ticket of a key from older ones, and
`Ticketed` lets them wrap at any point. `Restart` ends the process anywhere and
scans the directory, with any order of mtimes. The disk tier is the same file
protocol with no memory at all. `kept` and `settled` are history variables.

**SlotTier.** Callers are serialised by the lock, so one insert is in progress
at a time (`put`), but the stores of `write_slot` into the mapping are separate
actions, and `Reopen` may come between any two of them. A record is its used
byte and what its bytes read as: a key, a name nobody asks for, or nothing.

## 3. Runs

Bounds are constants of the configurations; the caps in guards are `MaxStamp`
(stamps of the memory tier) and `MaxCount` (where the cache's histories stop
counting).

| Run | Instance | Shows |
| --- | --- | --- |
| `singleflight` | 3 tasks, 1 key, 3 gates | `MutualExclusion`, `NoDetachedGate`, `NoLostWakeup`, `HeldByHolder`, `Progress` |
| `router` | five configurations: 1 caller, 3 tiers of 1, 1, 2 entries, 3 keys, batches of 2, inclusive promotion; the cache's policy with dropped futures; 2 callers of a store of two tiers of one entry with a read-only tier between them; a store of 3 tiers that never overflows, with dropped futures; 2 callers of a cache over a read-only origin, with failures | `Fresh`, `LossIsLoud`, `Inclusive`, `OriginServes` |
| `router_failures` | 1 caller over tiers that all may fail: write-around over 3 tiers, and fail-fast write-through over 2 with dropped futures | `HonestMiss`, `SurvivorsReported`, `Fresh`, `OperationsEnd` |
| `readflow` | all policies, 0 to 5 tiers, all answers | `OutcomeIsHonest`, `PromotesPerPolicy`, `StepsAreSane` |
| `memory_tier` | 3 keys, FIFO and LRU, bounds of 1 and 2 entries and of 3 bytes, weights 1, 2, 4, up to 6 stamps | `TicketsInSync`, `BooksInSync`, `WithinEntries`, `Implements` |
| `limited` | 4 callers, 2 permits | `PermitsConserved`, `NoLostWakeup`, `Progress` |
| `offload` | 2 callers, 2 workers, 3 jobs of which one may hang, 2 wakers | `JobsAccounted`, `NoLostWakeup`, `Answered`, `DropEnds` |
| `disk_tiers` | 2 threads, 2 keys, values of length 1 and 2, 5 inodes, budgets of 1 and 2, FIFO and LRU: one caller; a writer with two readers and every error; two writers of different keys and of one key; both kinds of tier | `InnerInSync`, `WithinBudget`, `WholeValues`, `IndexMatchesDisk`, `PutKept`, `ViewsImmutable` |
| `slot_tier` | 3 keys, 2 slots, 2 values and one that fits no slot | `ServesHeld`, `SlotsInSync`, `ViewStable` |
| `cache` | 2 clients, single flight on and off: 1 key over two tiers; 1 key over a failing read-only origin with dropped futures; 2 keys in a tier of one entry | `CacheTypeOK`, `LoadOnce`, `ColdOnce`, `GatesHandedOn` |

Some of these are conjunctions of named parts: `Fresh` of `FreshTop` and
`FreshRead`, `BooksInSync` of the weight total, the byte budget and the length
of the queue, `JobsAccounted` of `OnePlace` and `DropDrains`, `InnerInSync` of
tickets, total, queue length and mappings, `SlotsInSync` of `Partition` and
`IndexPointsHome`. They include the `TypeOK` of their module; `CacheTypeOK`
includes the router's. The types of the gates, the read flow and the limit are
proved. `LoadOnce` is about stacks with a writable tier: a stack of read-only
tiers has nowhere to keep what it loads. A property names the configurations it is about in its antecedent: `LossIsLoud` the store's
policy without dropped futures, `Fresh` a single caller, `IndexMatchesDisk` a
single caller without errors but of a write, `WholeValues` one writer per key.
The runs with wider use show in which sense these conditions are needed; see
below.

Why the bounds suffice. Three tasks give a holder, a waiter that is cancelled
and a third that depends on what the two leave behind; there are gates enough
that a key's gate can be removed and allocated again while the old one is still
referred to. (A second key makes the instance too large for checking progress;
the safety properties of the gates are proved for any number of keys.) Three tiers are the smallest stack in which a
cascade passes a tier between its ends, and one entry more than a tier holds
makes every put displace. Two values tell an old copy from a new one. Two
callers give every interleaving of two operations, and the races of the router
are between two. In the memory tier the compaction threshold is 3 instead of
16 so that compaction happens within six stamps, and the third weight is
heavier than the whole budget. In the disk tiers the long value fills a budget alone and two
short ones fill it together, so that a put evicts none, one or two others or
itself; five inodes are a file and a temporary file of each key and one more
that only a view refers to. Two slots for three keys make every third insert
evict, and deletes in either order leave stale records below and above the
current one. Two clients are a leader and a follower. The pool needs a job more than there are
callers, for a job that outlives its dropped future, and two wakers, for a
future that is polled with a new one.

### Where the code and its words differ

Two runs are expected to fail. Each checks a sentence of the documentation, and
TLC finds the behaviour of the code that contradicts it.

- `router_silent_abort`: "Loss is loud". When an upper tier rejects a put, what
  the put displaced from the bottom is dropped with the error.
- `disk_overwrite`: "reads after the overwrite see the new one". A `get` of the
  mmap tier maps the old file without the lock, a `put` of the key completes,
  and the `get` then replaces the new mapping with its old one, which all later
  reads return.

More deviations show when a configuration is changed, and are listed with the
hazards instead of having runs of their own:

- a best-effort put skips an upper tier that rejects it; if that tier still has
  the old value, the put returns Ok and the old value is read (`Fresh` with
  the cache's policy and a failing top tier);
- a `put_many` of several keys writes tier by tier, and what an earlier key of
  the batch displaces may be the old copy of a later one. It cascades below the
  new copy that the tier gets next; once that copy leaves and its own cascade is
  dropped or rejected, the old value is read (`Fresh` with the cache's policy,
  batches of two and dropped futures). The proof of `Fresh` found this;
- a read that found a key before a concurrent delete promotes it again after
  the delete, and an entry on its way down in somebody else's cascade is put
  back after its delete (`Fresh` with two callers). In the cache the fill
  after a load does the same to an `invalidate` during the load;
- what a read's promotion pushes off the bottom is dropped without a report
  (`LossIsLoud` with the cache's policy), and so is an entry whose demotion is
  rejected;
- a `put` may report an entry as pushed out that a tier above still holds;
- the gates' map keeps the entry of a key whose waiter is cancelled after the
  holder's cleanup has counted it, or whose two last guards are dropped at the
  same time, until the key is used again. The comment in that function allows
  for the opposite, an acquire on a detached gate, which `NoDetachedGate`
  excludes;
- "map, tickets, and weight total stay in sync" (`memory.rs`) fails where the
  total saturates: if a FIFO tier replaces its oldest entry by one that takes
  the total past `usize::MAX`, the old weight and then the evicted entry are
  subtracted from the saturated number, and the total falls short of the entries
  that stay (`BooksInSync` with weights 1, 2, 7 and `UsizeMax` 7). The proof
  found this: without a bound on the weights its induction step is false;
- two concurrent puts of a key share a temporary file: one renames what the
  other is writing, a torn value is published, and a mapping of it changes
  (`WholeValues`, `ViewsImmutable` with two writers of a key);
- a put of the mmap tier renames before it locks; another writer's eviction or
  `clear` in between unlinks the file that the put then accounts
  (`IndexMatchesDisk` with two callers). An error of the mapping or of the
  unlink in `delete` leaves index and directory apart as well;
- in the slot tier the used byte is stored first: a crash right after it
  revives what a removed record held. If the key is now in another slot, the
  key is found twice, one slot is lost, and an insert fails with "index and
  order out of sync". `ServesHeld` says how far the harm goes: to the keys
  of that slot.

### Fairness

Liveness is checked under weak fairness of the steps the code's environment
owes: an executor polls a task that was woken (and polls a future it has
started), a thread that runs goes on running, a tier call returns, the holder
of a gate or a permit finishes.
Nobody is assumed to call, to cancel, or to poll without a reason. Fairness is
on each task or worker, with one exception: the lock of the pool's receiver,
which goes to some waiting worker and not to each of them, as `std`'s mutex
promises no more. Woken waiters of a gate or of a permit race, so the
`Progress` properties are about the queue and not about one waiter: a single
task may lose every race. For the cache, weak fairness of `Step` says that tier
calls and the loader return, and that a waiter takes a gate that stays free,
which is the gates' `Progress`; `GatesHandedOn` accordingly promises that a gate
opens again and again, not that each waiter gets it.

Deadlock is checked in all runs but `readflow`, whose flow ends in `Done`. In
`Offload` the state after the drop of the pool is final and steps to itself.

## 4. Proofs

The theorems are of the form `Spec => []Inv`, two are action properties
(`ViewsStayStable`, `ViewsStayImmutable`) and two are refinements
(`GatesImplemented`, `ContractImplemented`). None bounds the sets of tasks, keys, values or tiers. Each
proof module defines an inductive invariant (`IInv`, or one for each property),
proves that `Init` implies it and that every action preserves each of its parts,
and derives the properties.

- `SingleFlightProofs` (assumption: `NoGate` is not a gate). Mutual exclusion
  is not inductive: two tasks could hold one key through two gates. `IInv` adds
  that a gate serves one key (`MapInjective`), that every active task uses the
  gate in the map (`NoDetachedGate`), that a holder's gate is locked and has no
  other holder (`HolderLocks`), and that a locked gate has a holder. `Enter`
  preserves them because a new gate is referred to by nobody, `Cleanup` because
  it removes a gate only if no other task refers to it. `GatesImplemented` is the
  refinement: every behaviour of `SingleFlight` is one of `KeyGates`, because a
  successful `Poll` finds its gate unlocked, hence, by `IInv`, its key without a
  holder; `Release` ends a holder, and no other action changes the holders. What
  `Cache` is checked with is therefore what the code provides.
- `ReadFlowProofs` (assumption: `MaxTiers` is a natural number). `IInv` relates
  the flow's position to the answers received: while probing tier i there are i
  answers, none of them a hit, and the failure counter is positive exactly if
  one of them is a failure; while promoting, the copies made are 0, 1, ... up
  to the next target.
- `MemoryTierProofs` (assumptions of `MemoryAssumption`: finitely many keys,
  positive limits, not both limits at once, as the constructors guarantee).
  `IInv` puts the types, the tickets, the limit on entries and the length of the
  queue together. Every entry has its live ticket, so that popping the whole
  queue empties the map and the loop stops within the limit; the limit bounds
  what a compaction leaves, one live ticket per entry, and so the queue. `WInv`
  is about the total: it is the sum of the weights, within the budget, and 0
  where there is no budget. It needs `NoOverflow`, that an entry on top of a
  full budget stays within a `usize`: without it the saturating arithmetic
  loses weight (section 3). `ContractImplemented` is the refinement, under the
  same assumption: every behaviour of `MemoryTier` is one of `BoundedTier`. `CInv`
  adds to `WInv` that entries carry the weights of their values (`Weighed`), so
  that the contract's sum is the tier's, and that the keys have an order by age
  (`Aged`). That order is unique (`AgedUnique`), which ties the mapping to the
  steps: what appending, `RemoveFirst` and cutting do to the contract's queue
  leaves the keys in order (`AgedAppend`, `AgedRemove`, `AgedSplit`), hence is
  the queue after the step. What the loop pops is a prefix of the queue
  (`PopsOldest`), and it stops exactly where the contract cuts (`CutStep`),
  because stale tickets change nothing that the loop tests.
- `LimitedProofs` (assumption: finitely many tasks, at least one permit). The
  free permits and the running tasks add up to the limit; that a release does
  not exceed the limit needs that the releasing task is one of the running.
- `OffloadProofs` (assumption: finitely many tasks and workers, and a worker). `IInv` says
  that a job is in one place at a time: once in the channel or with one worker,
  and awaited by one task (`QueueDistinct`, `TakenOut`, `OneWorker`, `OneTask`);
  that it has no outcome in these places; and that an awaited job without an
  outcome is in one of them (`AwaitedSomewhere`). For the wakeups it follows the
  waker: with the cell until the job is done (`CellHasWaker`), then with the
  worker until it has called it (`DoneWakes`). `JobsAccounted` and
  `NoLostWakeup` follow; the drop's part rests on `LeaveAfterSender`: workers
  leave only when the sender is gone and the channel is empty.
- `SlotTierProofs`. `InsertSound` says for every moment of an insert what is true
  of its slot: not free, indexed under no other key, the stores made so far
  visible. Elsewhere the index points to the record of its key (`IndexHome`),
  and a key that is not in doubt has one record (`OneRecord`), so the scan after
  a crash finds the right one; before the first torn insert no slot is lost
  (`Untorn`). `Ascending`, the order of the scan, is proved to enumerate a
  finite set of numbers, each once: its elements have as many ranks as there are
  elements, and no two the same.
- `DiskTiersProofs` (assumption: finitely many keys, a positive budget). `IInv`
  has three parts. `Synced` is about the memory behind the lock alone: each
  operator on it (`Stored`, `Touched`, `RemoveAccounting`, `Popped`, `Scan`, ...)
  is shown to preserve it, and the actions inherit that. `Registered` says what
  a thread between two critical sections knows, and that eviction holds the
  lock. `FilesSound` is about the file system: names, mappings, views and open
  files are apart (`NamesApart`, `TmpPrivate`), a writer writes only the file
  it has created (`WritesOwnFile`), and with one writer per key nobody else
  has that file open (`Exclusive`), so that what is renamed is whole and what is
  viewed is not written. `QInv` adds what one caller alone may rely on: other
  threads are idle, and during each phase of its call the index lags behind the
  directory by exactly the step in progress. It yields `PutKept` and
  `IndexMatchesDisk`.
- `RouterProofs` (assumption: finitely many clients and keys). `Base` has the
  types and what the registers of an operation mean in each phase (`Sound`): who
  puts has something to put, puts and deletes go to writable tiers, a hit has a
  value, and a client that makes no calls stays as it was. The local code
  (`NextPromotion`, `Settle`, `NextWrite`, `NextRemoval`, ...) is described by
  relations between the registers before and after, and `StepCases` reduces `Next`
  to six kinds of steps in these terms: calls, probes, accepted and rejected puts,
  removals, and drops. Each property then has an invariant of its own, which says
  what is true in the middle of an operation:
  - `OriginServes` and `HonestMiss` from `ToldOf`: the tiers already probed do not
    have the keys still unresolved. For read-only tiers that is stable because
    nothing is written to them; for the others, with one caller, because promotion
    carries no unresolved key (`CarriesFound`): hits were found, and what they
    displace was in a tier;
  - `SurvivorsReported` from `GoneSoFar`: the tiers behind a removal are free of
    its keys or among its failures;
  - `LossIsLoud` from `Loud`: an accepted key is in a writable tier or carried by
    an operation. It is proved for stacks without failing tiers
    (`Fallible = {}`), which is as far as it is true: `router_silent_abort` is the
    counterexample with one. Callers, tiers, bounds and batches are arbitrary;
  - `Inclusive` from `InOrder`: a put has its entries in all tiers below the one it
    is at, and in that one those it has finished with; a delete has emptied the
    tiers above. Nothing is displaced, because every contents fit;
  - `Fresh` from `AllFresh`, for `Orderly` routers: writes that cascade are of one
    key, and no best-effort write-through meets a tier that may fail. Section 3
    has the counterexamples without either condition. That the topmost copy is
    current is not inductive, as it may leave and uncover the next; so `AllFresh`
    says that every copy of a key, in whatever tier, is the last one written,
    unless the key is torn. In the middle of an operation the registers carry
    nothing older (`CarriesCurrent`), a write has replaced the copies in the
    tiers it has done and sends nothing older down (`WritesOver`), and a removal
    leaves only what is current (`RemovesRest`).

  The cache's theorems build on the router's. `CacheBase` adds to `Base` the
  types, that each gate is held by one call, which is past it (`Guarded`), and
  with single flight by every call that is past it (`Closed`), and that the
  router's registers are those of the call (`Serves`); it gives `CacheTypeOK`.
  `LoadOnce` is not inductive: the next call must find what the first has
  loaded. `AllLoaded` says where that is: after a load, unless the key is
  spoiled, it is in a writable tier or the call that holds the gate is filling
  it in, and a call that looks again under the gate will find it. `AllServed`
  says the same for `ColdOnce`: what a cold read has found is in the top tier
  or is being promoted there by the holder of the gate.

Sums. `MapThenSumSet` is a recursion over sets, of which the library's induction
theorems say nothing to these provers. The proofs of `DiskTiersProofs` and
`MemoryTierProofs` go around them: a sum of natural numbers is the cardinality of
the set of its units (`Units`), the cardinalities solve the recursion, and a
least set on which another solution differs (`WFMin`, on the strict subsets of a
finite set) does not exist (`SumCounts`). From there, sums are unions of
disjoint finite sets.

Left to TLC is liveness, which needs `ENABLED` (`Progress` of the gates and of
the permits, `OperationsEnd`, `Answered`, `DropEnds`, `GatesHandedOn`), and
`Fresh` for the routers that are not `Orderly`: it holds of those the runs check,
and fails for others (section 3). Every other property of the passing runs is a
theorem: `BooksInSync` and `Implements` with `NoOverflow`, `LossIsLoud` where no
tier fails, the others without such a condition.

## 5. Not modelled

- The counters of `Router::stats` and the was-present flags of deletes: no
  decision depends on them. Listing and paging: they read only.
- Batches that are empty or name a key twice.
- Overflow of the mmap tier's total beyond `u64`.
- Loss of power: a crash ends the process, and what it wrote is kept by the
  system (neither disk tier syncs). In the slot tier a store of one field is
  atomic, and the bytes of one record are not another key's name by accident.
- Foreign files in a tier's directory, and several processes on one.
- Verified and codec tiers have no state of their own; towards the router they
  are tiers that may fail. The demo's `main` and simulated remote print and
  sleep.
- The moka tier. It forwards to a cache that evicts in the background and never
  reports what it displaced (`tierstore-moka/src/lib.rs`), so that a key may
  leave a tier between any two calls; no action of `Router` does that. The
  crate's documentation excludes it from rollover stacks, where `LossIsLoud`
  would not hold. Nor would the cache's `LoadOnce` and `ColdOnce`: such an
  eviction would be one more reason for a second load or cold read.
- What `put` of the mmap tier pops to make room is handed out when the put
  returns. If the process ends between the two, nobody is told. `PutKept` gives
  the value up when it is popped.

## 6. Plan

Done: all components that keep state, the cache as a composition, the
refinements of the gates and of the memory tier, and the proofs of their safety.
Next, in this order:

1. A second key in the cache's origin configuration, and batches beside gated
   reads.
2. The tiers of `Router` as instances of `BoundedTier`: its `Victims` allow more
   than `BoundedTier` does, which is stated but not checked as a refinement.
3. A weaker condition than `Orderly` for `Fresh` of cascading batches: without
   dropped futures and failing tiers it may hold for them, too.
