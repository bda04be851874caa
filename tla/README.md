# Goldilocks_solver in TLA+

This directory models the Goldilocks solver (a C++/CUDA program that solves
univariate systems over the field with p = 2^64 - 2^32 + 1 elements by means of
very large polynomials) in TLA+.  It says what the shared parts of the program
promise, checks those promises with TLC on small instances, and proves the most
important ones with TLAPS for every size.

## 1. Inventory

| part | source | state | operations | what makes it correct |
|---|---|---|---|---|
| chunk cache | `src/manager.hpp` | a status word per chunk id, a table of slots, a stack of deleted ids, a queue of chunks to sync, two counters, two thread pools | `create_chunk`, `prefetch`, `fetch`, `release`, `release_sync`, `release_del`, `wait_work`, `set_*`, and the tasks `__load_chunk`, `__sync_chunk` | one holder per chunk, a pointer stays valid until the release, what was written is read again until the chunk is deleted, ids and slots are reused only when nobody uses them, every load and sync ends |
| chunk files | `src/manager.hpp` (`chunk_t`) | a file per chunk id | `load`, `sync`, `del` | a load returns what was synced last, or zeros |
| page pool | `src/resource.hpp` | a stack of pinned pages | `get`, `put` | no page is handed out twice |
| thread pool | `src/thread_pool.hpp` | a queue of tasks, threads, a busy count | `push`, `enqueue`, `run`, `wait_work`, `wait_sleep`, `resize`, `barrier` | every task runs once, a wait returns only when all have run, `resize` loses none |
| polynomial pages | `src/poly.cpp`, `src/poly.h` | the list of chunk ids of a polynomial, its length and its limit | constructor, destructor, `copy_from`, `alloc_page`, `free_page`, `sync`, `load` | every page is on one list, and deleted once; what is stored comes back, or an error is reported |
| polynomial algorithms | `src/poly.cpp` | shared counters per page, shared result lists | `period_red`, `collect`, `compose`, `tg2` .. `tg257`, `roots`, `enum_roots` | a page is deleted after its last use, the result is the polynomial the name says, all roots are found |
| field arithmetic | `src/fft.h`, `src/fft.cpp`, `src/gpu_impl.cuh` | none | `add`, `sub`, `mul`, `cumul`, `inv`, `pow`, `root`, `rou`, choice of a transform's size | equal to arithmetic modulo p although words wrap; a transform no longer than needed |
| CPU transforms | `src/fft.cpp`, `src/gpu_impl.cu` | the page lists of the polynomials | `fft_impl`, `invfft_impl`, `cpu_fft_even`, `cpu_invfft_even` | forward, product and backward give the cyclic product, for every group |
| GPU pipelines | `src/gpu_impl.cu`, `src/gpu_impl.cuh` | a thread per device and stream, a stack of chunks per thread | `gpu_eval`, `gpu_fft_odd`, `gpu_invfft_odd`, `gpu_fft_even`, `gpu_invfft_even`, `gpu_tg2`, the kernels | the same results as on the host; no chunk lost or used twice on the way |
| root driver, oracle | `src/poly.h`, `src/solver.cpp`, `src/oracles.hpp` | none shared | `eval`, `root`, `main`, `check_sol` | `root` finds a root if there is one |
| logger | `src/log.hpp` | none shared | messages and timers | output only |

How they interact: every polynomial is a list of chunk ids in the one
`cache_manager_t`.  The algorithms run as tasks of a thread pool; each task
fetches a chunk, computes on the memory the pointer names and releases it in one
of three ways: `release` (unchanged, or nothing to save), `release_sync` (to be
written to disk) or `release_del` (the chunk is gone).  The cache itself pushes
load and sync tasks to two thread pools of its own.  There are no messages; the
threads share the status words, the slots and the counters, under one spin lock
per chunk, one per slot and two for the lists.

What is hard here is concurrency: status words that are read without a lock and
tested again with it, words rewritten without the lock of their chunk, a pointer
that outlives the lock, ids and slots that are reused, a counter that follows the
thing it counts, a queue whose entries may be stale.  Nothing survives a restart
(files are removed at start and end), so there is no crash recovery, and there
are no timeouts but the ten seconds of `set_max_cached_chunks`.
`PROJECT.json` lists each hazard at its line with the property that covers it.

## 2. The modules

| module | what it is |
|---|---|
| `ChunkStore` | what a caller of the cache may rely on: an abstract store with the operations create, fetch, write, release and delete |
| `CacheManager` | `cache_manager_t` as it is coded: one action per critical section |
| `CacheSafety` | its properties, and the refinement mapping to `ChunkStore` |
| `CacheHistory` | `CacheManager` with a history variable, `excused`, for what may be left in the queue |
| `TaskBag` | what those who push to a thread pool may rely on |
| `ThreadPool` | `thread_pool` as it is coded, with the worker's function |
| `PoolSafety` | its properties, and the refinement mapping to `TaskBag` |
| `Goldilocks` | the arithmetic of the field, on a field of the same shape |
| `FftSizes` | `fft_group`, `fft_pages`, `next_smaller_pages` |
| `Kernels` | one block's transforms: the host's loops and the device's kernels with their packed factors |
| `Transforms` | the operations on pages that transform: `eval`, `fft_impl`, `invfft_impl`, `tg2`, `gpu_tg2` |
| `TransformSafety` | their properties, and those of the arithmetic, the sizes and the kernels |
| `Poly` | `poly_t`, its files, the algorithms and the driver as sequences of calls; `period_red` with its threads |
| `PolySafety` | their properties |
| `ArithmeticProofs` | addition, subtraction and the kernels' product are exact for every modulus of the shape; the choice of sizes |
| `TransformProofs` | `gpu_tg2` and its chunks, for every group; the sizes as the transforms rely on them |
| `PolyProofs` | `period_red` with its threads, and `sync` and `load` with their failures, for every size |
| `CacheSafetyProofs` | the cache: typing, the inductive invariant, with eviction, and the safety theorems |
| `CacheCountProofs` | marks and tasks, ids, slots, the queue and the count of syncs; types |
| `CacheHistoryProofs` | what is left in the queue when all is done |
| `CacheStoreProofs` | the cache implements `ChunkStore` |
| `ThreadPoolProofs` | the pool: types, what a wait means, the implementation of `TaskBag` |
| `MCCache`, `MCHistory`, `MCPool`, `MCTransform`, `MCPoly` | the small instances for TLC, with their symmetry or their inputs |

Upward, each layer relies on what the one below has been shown to do: `Poly` takes
a transform by its result (`ProductCyclic`, `Tg2IsGraeffe`, `EvalInterpolates` in
`Transforms`), and both take the cache as the store `ChunkStore` promises, in
which a chunk is its values while it is live.  What they check in return is the
contract the cache's callers are modelled by: they fetch live ids (`FetchedLive`)
and delete each once (`ChunksOwned`, `NoChunkLost`).

### CacheManager and the code

`_chunk_status[c]` is split into its flags `bits[c]` and the low bits `low[c]` (a
slot number, or `_ck_size_mask` for a deleted chunk).  `_cached_chunks[s].id` and
`.data` are `slot_id[s]` and `slot_data[s]`; a chunk's data is one value.
`_deleted_ids` is a stack, but which of several ids is on top depends on
nothing the properties see, so the model counts how often each id is on it
(twice would be an error, `IdsKept`) and pops any.  `_to_sync_chunks` is a
sequence.  A task pushed to a pool and not yet started is a count per chunk.
`ptr[t][c]` is not a variable of the manager: it is the pointer `fetch` gave to
caller `t`, and is what makes the contract of the callers expressible.

A step is one critical section or one unlocked access that matters.  `fetch`
(350-378) is `FetchCall`, then one of `FetchNull`, `FetchLoad` (starts a load)
and `FetchTake` (marks the chunk and returns); while none is possible it spins.
`create_chunk` (298-328) is `CreateCall`, `CreatePop`, `CreateNext`,
`CreateTake`.  `release` is one step; `release_sync` (386-408) is
`ReleaseSyncStart` and `ReleaseSyncCount`, or `ReleaseSyncQueue`; `release_del`
(411-431) is `ReleaseDelReset`, `ReleaseDelMark`, `ReleaseDelPush`.
`__load_chunk` with `__fetch_cache_for` (567-616, 719-735) is `LoadTake`, `Scan`
and `Look` (the unlocked reads of a slot's id and of that chunk's word), `Claim`, the eviction `EvictMark`, `EvictSwap`, `EvictUndo`, `EvictUnmap`, and
`LoadData`, `LoadPublish`.  `__sync_chunk` with `__signal_sync_done` (621-690,
738-748) is `SyncTake`, `SyncDone`, `Count`, `SignalSize`, `Purge*`, `Try*`,
`Busy`, `PutBack`, `Stale`, `SignalEnd`.

The callers are modelled by their contract, read off the code that calls
(`src/poly.cpp`, `src/fft.cpp`): a thread fetches ids that exist, writes only
what it holds, releases what it holds once, and without a copy in the queue or
on disk uses `release` only for what it has not changed.

Two configurations: `CacheOnly = TRUE` is `cache_only`, the one the solver ships
with (`ram_only = 1`): as many ids as slots and no eviction.  `CacheOnly = FALSE`
has the disk, and more chunks than slots.

### ThreadPool and the code

`tasks`, `busy`, `size` and `stop` are `_tasks`, `_threads_busy`,
`_threads.size()` and `_threads_stop`; `size` changes when `resize` returns, as in
the code.  An agent is a caller or a worker; `job`, `todo` and `ret` are the task
it runs, what that task pushes, and where it goes on afterwards.  `pushed`, `done`
and `awaited` are history.  A task is one call of `push`, so that "runs once" means
something; `Follow` says which tasks a task pushes.

The worker's loop (331-349) is `WorkerStop`, `WorkerSleep`, `WorkerBusy`,
`WorkerPop`, the task, `WorkerDrop`.  Its critical section is split between the
count and the pop because `wait_work` and `wait_sleep` look at both without the
mutex; nobody who takes the mutex gets in between.  `push` (220-236) is `Push` or,
from a task, `RunPush`, and then `NotifyOne`.  `wait_work` (206-212) is `WaitWork`,
`Work` and `WorkNone`, `NobodyBusy`; `wait_sleep` (214-218) is `WaitSleep`, `LoadSize`,
`SizeZero` or `SizeAgain`, `BusyAgain`, `AllStill`; `run` (249-289) is `Run`, `NotifyAll`, the task and then
`wait_sleep`; `resize` (291-322) is `Grow` with a `wait_work` and `InitThreads`, or
`Shrink` and `Join`.  As in the repository, one thread (`Owner`) waits for the pool
and resizes it, and others only push.

`wait_sleep` reads the size of a `std::queue` that workers change, a data race.
libstdc++ computes it from the two ends of a deque, each a node of `Block` (16) tasks
and a place in the node.  `front` counts the tasks popped, so that the ends are
at `front` and `front + Len(tasks)`; `LoadSize` loads the four words one by one, in any
order, while pushes and pops go on, and `SizeSeen` is the size computed from what was
loaded.  The words of one end are only inconsistent when it has moved to another
node in between, as in the code.

`CacheManager` does not contain two copies of `ThreadPool`: it relies on what
`TaskBag` and `TasksDone` say of them, that a pushed task is started once.

### Goldilocks, FftSizes and the code

The modulus 2^64 - 2^32 + 1 is b^2 - b + 1 for b = 2^32, and its order is
b (b - 1).  With b = 16 the modulus is 241, again a prime, 7 generates it as in the
code, the 2-part of the order is b and its odd factors are 3 and 5.  A word has b^2
values and `W` wraps the expressions that wrap in the code (`add`, `sub`, the
accumulator of `cumul`).  `root` and `inv` are the algorithms of the code; its
constants (`rou2` .. `rou65537`, the exponents in `root`) are modelled by what they
are: powers of 7, and inverses of e modulo the rest of the order.  The sizes 2^30 to 2^32
in the table of `fft_group` are b/4, b/2 and b.

### Transforms, Kernels and the code

An operation is a sequence of stages, a stage one call or one parallel section.  The
parallel sections over pages with their own stack of chunks or their own tasks
(`gpu_fft_odd`, `gpu_invfft_odd`, `gpu_eval`, the first pass of `gpu_tg2`) are done
task by task, thread `ct` taking every `ctp_threads`-th task, in any interleaving of
the threads, until `ctp.wait` returns (`StageDone`).  The other stages work on one
block with threads that write disjoint values between two barriers, so that a
block is one step (`EvenBlock`, `EvenPost`, `Tg2Top`, `Tg2Group`, `Tg2Back`).  The
factors are looked up where the code looks them up: `PackTwist` is how the host
packs them, `Packed` and `rowTwist` how the kernels index them,
`compute_chunk_twist` the rows of a page, `twist_bias` the part that depends on the page and
the block.  The chunk that a thread of `gpu_tg2` keeps is on its stack `holding`.
The layers inside a kernel are written as layers; how they are spread over warps and
shared memory is left out, as are device buffers, streams and CUDA errors.

### Poly and the code

A call is one step; `calls` is what is left of the algorithm, and `Tg`, `RootsCode`,
`Halve` and `RootCode` are the functions of `src/poly.cpp` and `src/poly.h` written as
the calls they make.  A polynomial is its list `page`, which keeps its entries beyond
`pages` as the code does, and `data` gives the coefficients of the live chunks; an id
is never used twice here, so that reading a chunk after its deletion shows (as
the value 1, which no property expects).  `period_red` is the exception to one
step a call: its threads take the tasks of the shuffled list in any order,
and hold the task's page while they fetch, add, count and delete the pages of the
segments (`TakeTask`, `Segment`, `SegmentRest`, `TaskDone`, `RedDone`).  `points` says that
a polynomial is transformed, and an operation that takes values for coefficients,
or the reverse, spoils it.

`files` is the directory that `sync` writes and `load` reads: page number to contents,
with `Short` for a file cut by a short write and `Before` for a page of an earlier
polynomial.  `sync` is `NoDirectory` (156-168: a directory cannot be made; those before
it have been cleared) or `WritePages`; `load` is `LoadRefused` (every return before 119),
`LoadUncounted` (87: the number of files could not be read, and `load` goes on) or
`LoadPages`.  `Faults` chooses what fails: any set of the files the clearing command (171)
leaves behind, any set of files that do not open, any set of short writes and reads.
The algorithms call `sync` to keep intermediate results that nothing reads, and
there nothing fails.

The field is a parameter of a run (`field`): `tg17` and `tg257` need a field whose order
has that factor.  The hash that `eval` samples is modelled as the polynomial with
which a run begins; nothing else of it matters to what follows.

### Bounds

`HoldMax` bounds the chunks one caller holds, `QueueMax` the length of
`_to_sync_chunks` at which nobody deletes (each delete of a queued chunk leaves a
stale entry, so the queue is otherwise unbounded), `Recycle` says whether ids are
reused.  `SyncLimit` is 6 in the code and `PurgeFactor` 5; the instances use 1 so
that the limit and the purge are reached with one or two chunks.  Two callers,
two loading workers and two syncing workers are enough for every race in the
hazard list, since each is between two threads over one chunk, one slot or one
counter; two chunks give one to delete and one to reuse the slot, three chunks
and one slot give an eviction by two workers at once.  In `cache_ram` `SyncLimit`
is 3, so that nothing is queued there; the queue is the subject of `cache_pass` (two
syncing workers), `cache_disk` (stale entries and the purge) and, for the count of
syncs, `cache_live` (two callers).  A stale entry whose id is reused needs deletions, a
queue and no disk at once: the theorems `ToSyncQueuedCorrect` and `SyncCountExactCorrect`
cover it, and TLC has checked both properties for two callers and one chunk, which is
no run of its own.  Callers are bounded to what the hazards need, never the cache's own
threads.

For the pool, two threads and three tasks, one of which pushes another, are enough
for one task to be queued, one to be counted but not popped, and one running,
while the owner waits; the pool is grown from nothing, shrunk and grown again.
`Block` is 16 in `pool`, as in the code, where the loads of the size interleave with
everything else but four tasks cannot fill a node, and 2 in `pool_torn`, so that
they can.

`transform` has pages of four values in rows of two, groups of two pages and
`tg2Bits` 3, so that there are transforms shorter than a page, of a page, of a group (with
and without layers above it), with `p0` of 3 and 5 and with `p1` of 3; the groups
are those whose number of points divides 240, and that with all the 240 points runs
`gpu_tg2` with `p1` > 1.  Two device threads have several tasks each.  Every
element of the field is an operand of `FieldExact`.

`poly` has pages of eight coefficients; periods below, at and above a page, and one
(15) that is no multiple of it, so that segments straddle pages; two threads
of `period_red`, and three roots to find at most, fewer than some inputs have.
The inputs have no root, one, two, the root 0, more roots than there is room for, and
roots in the 2-part, in the odd part and in both.  A polynomial of three pages is stored
in an empty directory, and one of two pages over files of before, which leave a gap or not,
and some of which have the numbers of its pages.  `tg3` and `tg5` run for several sizes, below
and above a page, `tg17` in the field of 103 elements and `tg257` in that of 1543.

### Fairness

`FairSpec` assumes that a caller in the middle of an operation and a worker in
the middle of a task go on (`WF`: they are threads of an operating system), and
that a task in a pool's queue is started although others are pushed (`SF` per
chunk: the pool's queue is first in, first out, and a worker takes the front).
Nothing makes a caller start an operation.  Spinning in `fetch` or in the scan
is a thread that runs and does not get on; which thread then wins a spin lock is
left open, so `FetchServed` says that *somebody* gets the chunk.

In `ThreadPool`, `FairSpec` assumes that a worker, a running task and the owner in a
wait go on.  Nothing makes a caller push or wait, and nothing wakes a sleeping
worker but a notification.

## 3. The runs

| run | question | states |
|---|---|---|
| `cache_ram` | the shipped configuration: types, one holder, valid pointers, words, loads, ids; does it implement `ChunkStore`? | 0.31 M |
| `cache_disk` | eviction by two workers that choose the same chunk: pointers, slots, words; does it still implement `ChunkStore` when data moves to disk and back?  are entries lost from the queue by passes and purges? | 2.7 M |
| `cache_pass` | is a chunk written out twice, and what is left in the queue when everything has come to rest? | 4.3 M |
| `cache_live` | without deletions, do loads and syncs end, and does a fetch spin on a chunk that nobody uses?  is the count of syncs exact? | 0.11 M |
| `pool` | does the pool implement `TaskBag`, do waits mean what they say, are tasks run and do waits end? | 0.23 M |
| `transform` | do the transforms of host and device multiply, interpolate and take the squares of the roots, in every group, and what becomes of the chunks? are the arithmetic, the sizes and the packed factors right? | 3.8 k |
| `poly` | are pages fetched while they live and owned once, does `period_red` reduce whatever the order of its threads, are `tg3` .. `tg257`, `roots` and `root` right, is a stored polynomial read back or an error reported, whatever fails? | 4.4 k |
| `cache_quiet` | (violation) is the queue empty when all work is done? | |
| `cache_recycle` | (violation) is the word of a held chunk always marked, with a disk? | |
| `pool_nested` | (violation) does `wait_work` wait for tasks that tasks have pushed? | |
| `pool_torn` | (violation) does `run` wait for its tasks when the queue's size is read in pieces? | |
| `save_uncounted` | (violation) does `load` return an error when it has failed? | |

In the runs of the cache and the pool deadlock is not checked: callers may each wait for a chunk another holds, a call
of `abort` ends the program, and nobody has to call anything.
`transform` and `poly` check it: an operation ends, or something can still be done.

What the five violations show:

* `cache_quiet`: a chunk in `_to_sync_chunks` is fetched again, is skipped as busy
  by the last pass over the queue, and is then released: `release_sync` sees that
  it is queued (389) and returns.  No sync is in flight, so nothing will look at
  the queue again, although `wait_work` is to "wait until all tasks are done"
  (64) and warns (467).  There is one other way to be left behind, a purge of the
  queue (633-655): it moves entries to the end, and while another worker puts back an
  entry it has in hand, the purge and the pass that follows it can both count
  their tries out before they come to the last one.  Without the excuse for purges in
  `CacheHistory`, TLC finds this with two chunks and `PurgeFactor` 1, through an id that is
  reused and queued again until the queue is longer than the chunks; with the code's
  factor of 5 it needs more than five entries to a slot.  `cache_pass`, where no purge runs, and the theorem `OnlyExcusedLeftCorrect` show
  that there is no third way: every other chunk left behind is picked up.
* `cache_recycle`: with a disk, a worker that chose a chunk to evict (574) and
  meets it deleted (594: the deleted word is not busy) marks the deleted id.  When
  the id is reused meanwhile, the marks are taken off the new owner's chunk (602).
  The runs of the disk configuration that pass therefore do not reuse ids
  (`Recycle = FALSE`).
* `pool_nested`: a task pushes another just before it ends, as `__sync_chunk` does
  (`manager.hpp` 686).  `wait_work` found the queue empty before the push and nobody
  busy after the end, and returns while the second task is queued.  What it was
  called for, the tasks pushed before the call, is done (`WaitedDone`).
* `pool_torn`: the front is at the last place of its node and as many tasks are queued
  as a node holds.  `wait_sleep` loads the place of the front, a worker pops, which
  moves the front to the first place of the next node, and `wait_sleep` loads the
  node: a node's worth too much is subtracted, the size is zero, and `run` returns
  with tasks queued.
* `save_uncounted`: `load` asks a command for the number of files (81).  When no number can be
  read, it logs the failure (88) but does not return, as it does for the failures
  before and after: the count stays -1, which compares as a large unsigned number
  (107), so that every name passes; `alloc_page(-1)` and `free_page(-1)` fill the list
  and empty it, no page is read, and the result is 0.

What `transform` and `poly` show holds: the code computes what its names promise
for the inputs above.  Modelling it led to remarks that are no violations of a stated
promise, and that no run reports:

* `sync` with `rm_src` does not delete the chunk of a page whose file it could
  not open, and yet forgets the page; it reports the error.  `ChunksOwned` makes this
  exception.
* `load` with `rm_src` removes a file after a short read too (and reports it), and `sync`
  does not look at the result of the command that clears the directory (171).
  Files left behind pass for further pages, and one in the place of a page
  that could not be written for that page; `sync` has then reported an error.
  Likewise fewer files, with the first names, pass for a shorter polynomial.
  `SavedOrReported` says that, but for `save_uncounted`, no call of both returns success
  without the pages that were stored.
* `load` goes on when there are more files than the polynomial has room for
  (119: `alloc_page` refuses, and nobody looks at its result) and reads page numbers
  beyond the list.  The model's polynomials have room for every file.
* `create_chunk` aborts (327) when no id is left, also while another thread is
  between the deletion of a chunk and the push of its id (423-428).
* `collect` reads pages up to the last coefficient it wants and deletes those from the
  first page boundary after `tg*n - 1`.  A page that begins between the two is neither read
  nor deleted (`Passed`).  For the sizes `roots` uses there is none, and the runs for `tg`
  with other sizes show what remains.
* `fft_group` of one coefficient counts the leading zeros of 0, undefined in C++; nobody
  calls it so (`Sizes` begins at 2).  `tg2_gpu` aborts for groups with `e2` of 26 or less.
* the tasks of `copy_from`, `tg2` and `collect` hold two to four chunks at once: with
  fewer slots than threads need together, they would wait for each other.  The
  cache the solver configures has a slot for every chunk.

## 4. Proofs

Every theorem holds for any sets of threads, and for every size and bound that
satisfies the assumptions named here; TLC evaluates the assumptions in every run.

### The cache

The theorems about the cache hold for any number of callers, workers, chunks and
slots, any limit on the syncs in flight, any deleted-word value `SizeMask` and any data;
the bounds on the callers (`HoldMax`, `QueueMax`) are arbitrary too.  They rest on
`SizesAssumption` (sizes are natural numbers, most of them positive, and `None` is
nobody's name) and `ModeAssumption` (`CacheOnly` and `Recycle` are Booleans, and without a
disk there are as many ids as slots).

They hold with a disk and without.  But for `SlotForLoadCorrect`, which is about the
cache without a disk anyway, each has the hypothesis `ReuseInRam`: ids are reused only
where there is no disk.  It cannot be dropped: with a disk and reuse the properties are
false, as `cache_recycle` shows.  So without a disk, the configuration the solver ships
with, the theorems say everything; with a disk they speak of runs in which nobody is
creating a chunk once one has been deleted.

The modules build on each other:

* `CacheSafetyProofs` begins with `TypeInv`, the part of the typing that holds whatever the
  threads do.  `TypeOK` is not inductive: a step that stores `low[arg[t]]` as a pointer is typed
  only if the thread has a chunk in hand and the word of a cached chunk names a slot, and
  only a cache with a disk evicts.  `TypeInv` adds these, and leaves out what the data
  can be.
* The safety theorems of `CacheSafetyProofs`: `OneHolderCorrect`, `PointerValidCorrect`, `HeldWordCorrect`,
  `HeldWordStableCorrect`, `SlotOwnedCorrect` follow from one inductive invariant, `SafeInv`.
  A chunk that is held, or about to be deleted, has `writing` and `caching` in its
  word and no load or sync under way (`UsedWord`), so `fetch`, which requires the
  word to show no use, cannot take it a second time (`OneUser`).  A cached chunk owns
  the slot its word names (`CachedSlot`), because a slot is claimed only when free, by
  the worker that loads (`ClaimedSlot`), and every slot taken belongs to the
  chunk cached in it or to the one being loaded into it (`SlotOwner`); at most one load
  of a chunk is queued or running, and only while the chunk is marked and not in
  memory (`LoadWord`, `LoadOnce`).  A worker that evicts has the victim's word to
  itself from the mark to the moment the slot changes hands (`MarkedWord`,
  `OneMarker`).  A word is emptied only for a fresh id (`FreshId`) or for a deleted one,
  which is on the stack at most once (`DeletedOnce`) and empty but for the marks of
  such a worker (`GoneWord`).  Those marks on a deleted word are where `ReuseInRam` is
  needed: `NoCreation` says that with a disk and a deletion behind it nobody creates.
* `CacheCountProofs`, what is counted and queued.  `OneLoadCorrect` and `OneSyncCorrect`:
  marks and tasks correspond; `SafeInv` gives that a task has its mark, `LoadKept`
  and `SyncOnce` that a mark has its task, exactly one.  `TypeCorrect` (`TypeOK`)
  stands here, because that `__sync_chunk` reads the data of a slot at all (740)
  needs `SyncOnce`: the chunk it syncs is in memory.  `IdsKeptCorrect` adds that a
  deleted id is on the stack or being pushed (`IdKept`).  `SlotForLoadCorrect` is a pigeonhole
  argument: the slots taken belong to different ids (`SlotOwner`), none of them the
  id being loaded, and without a disk there are as many slots as ids.
  `ToSyncQueuedCorrect` follows a chunk through the appends, pops and rotations of the
  queue (`Kept`).  `SyncCountExactCorrect` counts three finite sets of threads and one of
  chunks step by step; each step moves one element into or out of one set
  (`AtMoves`), or changes the counter as a thread passes.
* `CacheHistoryProofs`: `OnlyExcusedLeftCorrect`, about `CacheManager` with the history of
  `CacheHistory`.  A chunk that waits and has no excuse is not busy, so a worker
  that takes it from the queue starts its sync; and it is due (`Due`): it is
  among the first entries of the queue, as many as some worker's pass has tries
  left (`InTurn`), or a sync is in flight whose end begins a pass over
  all entries (`Coming`).  A pass that ends early does so because the count has reached
  the limit, and then, the count being exact (`SyncCountInv`), a sync is in flight
  (`LimitMeansComing`); the same holds when `release_sync` queues instead of starting.
* `CacheStoreProofs`: `StoreImplemented`, the refinement `ImplementsStore` of `ChunkStore`.
  The mapping gives a live chunk the data of its slot, or of its file, or zeros, and
  `StoreInv` says that these agree whenever the manager is about to drop
  one: what a worker has loaded and not yet published is what the file
  says (`Loaded`), a chunk in memory that nobody holds and no sync waits for equals
  its file (`Clean`), so that evicting it loses nothing, and an id not handed out has
  no file (`FreshFile`), so that it begins as zeros.  There is one lemma for each kind of step,
  `...Shows`, which says that the step keeps `StoreInv` and is a step of the store or
  leaves it unchanged.

Each lemma `...Safe` proves one kind of step, part by part; `SafeFrame` covers the
parts whose variables the step leaves alone, and `SafeClient`, `SafeLoader`,
`SafeSyncer` show that every action is one of those steps.  Three lemmas say once
what a step may do to a status word (`ClientWord`, `LoaderWord`, `SyncerWord`), and the
proofs about marks cite them instead of the actions.  TLC has checked `TypeInv` and
`SafeInv` on the instances of `cache_ram` and `cache_disk` as well.

### The thread pool

`ThreadPoolProofs` holds for any sets of callers and tasks, any number of threads and
any `Follow`, from `PoolAssumption`.  `PoolTyped` and `PlacesCorrect` (a task is in
the queue once, or with one agent, or done) need no more.  `WaitedDoneCorrect` rests
on `PoolInv`: `_threads_busy` is the number of workers with a task (`BusyExact`, by
cardinalities), so that 0 means that only the owner can have one; what was waited
for leaves the queue before the wait looks at the count (`Waits`); and `Places`
says there is nowhere else for a task to be.  For `resize` to nothing the argument
is that a thread ends only when it sees the queue empty (`Threads`, `Waits`).
`PoolTyped` states `BusyExact` beside the types.
`RunBlocksCorrect` and `BagImplemented` have the hypothesis `[]FewQueued`: in the course of one
reading of the size, from the load of the front's place on, fewer tasks are queued
and pushed than a node of the deque holds.  Without it they are false (`pool_torn`);
with it a size of zero can only come from a front that had reached the back
that was seen (`ZeroSeen`): a multiple of `Block` smaller than `Block` is zero.  It is true of the pools
that `src/gpu_impl.cuh` (139, 156) waits for, which have one task at a time, and of the
instance of `pool`.

### The arithmetic

`ArithmeticProofs` holds for every b of at least 16 (`HalfWord`), and so for the 2^32 of the
code, prime or not: `ArithmeticExact` says that `add`, `sub` and `cumul` of two elements are
their sum, difference and product modulo b^2 - b + 1, the first line of `FieldExact`.
For `add` and `sub` (`AddExact`, `SubExact`) the argument is that the modulus needs the highest
bit of a word (`ModulusInWord`), so that a sum wraps at most once and the subtraction that
follows wraps it back (`WordArithmetic`).  `CumulExact` is about any two words.  The four
products of halves fold by b^2 = b - 1 and b^3 = -1 (`FoldMiddle`, `FoldHigh`): what is
left is an accumulator between -2b and 4b, which may wrap below zero and is then
corrected by one modulus, plus a multiple of b below the word, added as `add` does.
That the result is the remainder follows because it lies in the field and differs
from the product by a multiple of the modulus (`ModUnique`).

The sizes need that b is a power of two (`HalfWordBits`).  `Log2` is a recursive function
where the code counts leading zeros, and `Log2IsHighestBit` says that it is the
number of the highest bit.  `FewestPoints`: the group `fft_group` chooses holds the size, and no
row of its table and no power of two with fewer points does; the search takes the first row
that is large enough of a table that grows.  `SmallerPagesFit`: from a size above a page
`next_smaller_pages` never goes up, for which the smallest rows of the table must be whole
pages: `PageBits + 2 <= Log2[b]`, which in the code is 18 + 2 <= 32.  `SizesFitAlways`
puts the two together as `SizesFit`, the property of `transform`.

### Polynomials

`PolyProofs` is about two of the operations of `Poly`, called with any arguments they admit, on
pages of any size.

`RedSpec` is a call of `period_red` for any size and period that have a row in the
table of sizes, with any number of threads.  The threads take the tasks in any order; a
task adds the coefficients of every segment of a period's length into its own page, and
who adds the last coefficient of a page deletes it.  `RedInv` says of each page
that `chunk_used` is the number of its coefficients that have been added (`Counted`, `CountExact`), and
that it lives exactly while that is less than the page has (`LiveUntilUsed`).  Which coefficients
have been added is a statement about the tasks: all those of a task that is done, and
those before the place a thread has come to, which is always a multiple of the
period away from its own page (`WorkerPlaced`).  Tasks are done once
(`TasksOnce`), so the coefficients of two threads are different ones, and each addition
adds to the number what it adds to the set: an interval inside a page.  A thread that
comes to a page stands before coefficients of it that are not yet added, which is
why the page lives (`FetchedLiveCorrect`); the pages of the tasks live because their
first coefficients are never added to anything.  In the end all beyond the period is added, and
what lives is what p lists (`ChunksOwnedCorrect`).

`SaveSpec` is a `sync` and then a `load` of any polynomial, with or without deletion of the
source, over any files of before, in which any directory, any set of files the
clearing leaves, and any set of pages may fail to open, to be written or to be read.
`SaveInv` follows the three states it passes through, and says what the files hold: after a
`sync` without an error each file of a page holds that page, and every other is one of
before that was left.  Because the number of pages that `load` reads
is the number of files and the first failure is kept in the result, coefficients are
the ones stored, in the first pages, or a call has returned an error, or `load` could not read
the number of files, the path of `save_uncounted` (`SavedOrReportedCorrect`); and no page is
lost or deleted twice but the ones whose file did not open (`SavePagesCorrect`), on that path too.

### gpu_tg2

`TransformProofs` is about the calls of `gpu_tg2`: `Tg2Spec` is `Next` from a call with any odd
`p0` and `p1`, any `e2` that `tg2_gpu` hands to the device, any coefficients, pages of any
size and any number of device threads that `ThreadBits` allows.  `ThreadBits` says that the number of threads is a
power of two and that a block has at least two pages for each thread: 2^5 threads, pages
of 2^18 coefficients and `e2` above 26 in the code.  It is what makes the stacks of chunks come
out even: p's pages reach to the middle of the middle block, and each thread has as many tasks
below the middle of a block as above (`Numbers`).

A task takes the chunks of its pages of p onto its thread's stack and pops as many as there are blocks
for the even half.  `Tg2Inv` follows the phases of a call.
While the tasks are done (`Filling`), the height of a stack is a function of the number of
its thread's tasks (`Turn`): one more with each until half are done, then one
less, so that it is never popped when empty and is empty in the end.  What is on the
stacks or in fe are pages of p that a task done has taken (`Stacked`), no two the same: as
many are pushed as popped, over all tasks, and so in the end fe has all of p's chunks.
With one block the invariant is another one (`Replaced`): fe has new chunks and those
of p are deleted with their task.  The passes over the blocks delete the odd half one block
after the other (`Passing`).  At the end p gets fe's chunks with the blocks transposed, which is a
permutation of the positions (`Given`), and `gpu_invfft_odd` keeps the list.
`HeldOnceCorrect` follows at once; `NoChunkLostCorrect` adds that what is live then is
what p lists.  TLC has checked `Tg2Inv` on the calls of `gpu_tg2` in the instance of `transform` as well.

### Only model-checked

* What the transforms compute (`ProductCyclic`, `Tg2IsGraeffe`, `EvalInterpolates`,
  `KernelsReadTheirFactors`), what the algorithms compute (`Reduced`, `TgIsNorm`, `RootsFound`)
  and the lines of `FieldExact` about `inv` and `root`.  Products, transforms, norms and
  powers are recursive over data of any length.  Induction over numbers is available, as the
  least element of a set of numbers, and the sizes and page counts are proved so; but that a sum
  taken in another order is the same sum needs an induction over the sequences themselves.
* `NoChunkLost` for `mul`, the host's `tg2` and `eval`, and `FetchedLive` and `ChunksOwned` for
  the operations other than `period_red`, `sync` and `load`.
* Liveness (`LoadsEnd`, `SyncsEnd`, `FetchServed`, `TasksDone`, `WaitEnds`), because liveness
  under fairness is beyond this prover.  `LoadsEnd` is checked with two loading
  workers but without deletions: if callers create and delete without
  pause, a scan of the slots can miss the free slot on every round, and no fairness
  of the threads forbids it.

## 5. What is not modelled, and what could follow

Not modelled in the cache: `set_max_cached_chunks`, `__free_all` and the other
functions that no other thread may run beside; errors of file I/O in `__load_chunk` and
`__sync_chunk` (the code logs and goes on; those of `poly_t::sync` and `load` are modelled);
the branch of `release_del` for a chunk that is syncing (434-453), which a holder's
chunk never is (`HeldWord`).  In the thread pool: `barrier`, which nothing uses; the
future of `enqueue`; several threads that wait or resize at once; a task that waits
for its own pool.  The device threads of the pipelines wait with `wait_sleep` on pools of
one thread with one task queued, where the torn size of `pool_torn` cannot occur.

Not modelled elsewhere: the page pool (`src/resource.hpp`), from which one thread takes and
to which it gives back, with nothing that interleaves; the logger; `main` and
`check_sol`, which print; the hash itself (`src/oracles.hpp`), whose only promise, that host
and device compute the same function, needs 64-bit words and its own constants; on the
device the layout of buffers, streams, copies and errors; the names of files.

Could follow, most useful first: `CacheResize` (growing and shrinking the cache and the
ten seconds after which shrinking gives up, with the page pool); errors of the
cache's own file I/O; the stages of one device thread's stream, with the copies that
overlap the kernels.  Theorems: what the other callers of the cache owe it (`NoChunkLost` for `mul`, `tg2` and `eval`,
`ChunksOwned` for `collect` and `compose`), from statements about page
lists as those for `period_red` and `gpu_tg2`.

Abstract specifications stated: `ChunkStore` and `TaskBag`; and, as values in the properties
of `TransformSafety` and `PolySafety`, the polynomial as a function from exponents to coefficients.
