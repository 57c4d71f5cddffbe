# MSToolkit: models, checks and proofs

MSToolkit (JSI-Toolkit) records what a parallel program does: wrappers around MPI,
OpenMP, pthread, memory and accelerator calls produce records, the record writer
stores them, per thread, in sections of a *section file*, and readers and tools look
at the finished trace. All processes of a node write **one** section file through
their own mappings of it; the file carries its own allocation counter and its own spin
locks. That storage engine (`lib/pse`) is the heart of the system, its concurrency is
between threads *and* processes, and little of it can be reached by a test. It is
modelled first. There are three more concurrent cores: the life of the traced threads
(wrappers, guard, signals, shutdown), the buffers in which kernels on MATRIX
accelerators leave their records for the host, and the double-buffered pool in which
the host side of that tracer hands records to a consumer thread.

The TLA+ here is written from the source. Paths are relative to the repository
(`lib/...`, `include/...`); a line number next to a property is the code the
property is about. `PROJECT.json` holds the map from every definition to its
lines, the list of hazards with their lines, the runs, the faulty variants and
the findings in machine-readable form.

## 1. Inventory

### 1.1 Storage engine (`lib/pse`, namespace `pse::fsl`)

| Part | State | Operations | What is hard | What makes it correct |
| --- | --- | --- | --- | --- |
| Pages, blocks, lock: `FileSectionLayerDriver` (`src/fsl/fsl_lib.cpp:137-320`), `SpinLock` (`include/utils/lock.h`) | in the file: length, `SuperBlock::blockAllocated`, the lock word; per process: `mapedEnd`, and whether it owns a lock yet | `allocateBlock`, `allocateBlock(n)`, `loadBlock`, `tryLoad`, `load` | `mapedEnd` is read outside the lock and not tested again inside it; length is read and changed by two calls; a joining process has no lock at all; a killed process leaves the lock taken | nothing mapped lies behind the end of the file (SIGBUS), the returned address is mapped, the file never shrinks while it is written, the mapping stays within its reservation, `load` returns |
| Opening and closing: `ShmCounter`, `~FileSectionLayerDriver`, `BlockManager::BlockManager` (`fsl_lib.cpp:43-104, 324-457`) | shared-memory counter and ready sign, the `.lock` file, the file | constructors in WRITE and READ mode, destructors | three "I am ready" signs of a creator, polled by all other writers and looked at by no reader; the last one to close truncates | no writer joins too early or fails, a reader fails only on a file in which nothing has been written, the counter covers everybody inside, truncation keeps all that was written, an open returns |
| Directories: `openSection`, `findEntry` (`fsl_lib.cpp:461-774`), `DirSectionIterator` (`include/fsl/fsl_lib.h:239-365`) | a row of `<desc, blockId>` entries in the directory block and in chained tables; a spin lock per directory | open with and without create, `getSectionType`, iteration | creators race, lookups take no lock and read packed 48-bit ids, a creator may die between the two fields of an entry | one entry and one block per desc, the section opened is the one asked for, a lookup never misses what was there before, nothing is refused while there is room |
| Data sections: `writeDataSection`, `loadDataBlock`, `allocateAtDataSection`, `readDataSection` (`fsl_lib.cpp:541-647, 802-905`), `RawDataSection`, `RawStringSection` (`include/fsl/raw_backend.h`) | `sectionSize`, an index of blocks | append, positioned write, reserve and write, read | a write is cut at blocks, pages and runs; other sections allocate in between | what was written is read back, no block belongs to two places, `memcpy` stays in the mapping, a write ends |
| Block index (`getDataBlockId`, `fsl_lib.cpp:802-858`; constants `fsl_block.h:219-337`) | direct words, index blocks allocated on demand | block number to id | level arithmetic at its boundaries; a run that crosses a level; index blocks allocated between the blocks of a run | one word per block number and one number per word |
| `ral` (`include/ral`) | buffers of `DataSectionWrapper` | buffered access to sections | flush on destruction | buffered = unbuffered |
| `dsr`, `sql` | none of their own | views and export of finished traces | | |

### 1.2 Recording

| Part | State | Operations | What is hard | What makes it correct |
| --- | --- | --- | --- | --- |
| Record writer (`lib/record/record_writer.cpp`) | per thread: directory and section maps, `record_fini`; global: `threads`, completed flag | `record_init_thread`, `record_fini_thread`, `traceStore`, `samplingStore`, `extStore`, `recordWriterCacheFinalize` | shutdown signals every thread and joins it; the handler finalises a thread wherever it is; the sampling timer walks the set of threads unlocked; deleting one thread's sampler ignores the signal of the process; what keeps samples out of the shutdown is a flag that the next allocation clears | no record into a freed section; every thread finalised once; a quiet process shuts down cleanly |
| Guard (`lib/record/safe.cpp`, `include/utils/safe.hpp`) | thread-local `in_tool`, `unsafe_state`, `thread_data_initialized` | enter, exit, mark unsafe | pairs, nesting, signals; `unsafe_state` is a flag and not a count, and the memory wrappers of the same library set and clear it around every allocation (`memory_wrapper.cpp:33-39`) | no record inside a record |
| pthread wrapper (`lib/record/pthread_wrapper.cpp`, `pthread_instrument.h`) | `threads` under `threads_lock` | create, start routine, join, detach | the child may erase itself before the creator inserts it; joined threads stay in the set | the set holds exactly the threads to be joined |
| Record area (`lib/common/record_area.cpp`) | two buffers, one aio request | allocate, flush, finalise | a buffer must not be refilled while it is written | bytes reach the file once and in order (not part of the present build) |
| Memory wrappers, MPI wrappers, OpenMP, ROCm, function tracing | none beyond the guard | one record per call | | |
| Sampling (`lib/mpi_wrapper/jsi_sampling.h`), PMU collection | counters per call site | decide, read counters | | |
| Backtrace tree, state transition graph, record metadata (`lib/common`) | trees and graphs of one thread | insert, dump, parse | | round trip |

### 1.3 Accelerators

| Part | State | Operations | What is hard | What makes it correct |
| --- | --- | --- | --- | --- |
| Memory pool (`lib/accl/matrix/host/mt_memory_pool.cpp`, `include/record/mt_memory_pool.h`) | two buffers, four pointers, `consumer_arg_`, two mutexes, one condition variable | `Write`, `Flush`, destructor, consumer loop | producers fill one buffer while the consumer reads the other; one condition variable with opposite predicates; data too big for the pool stays with the caller | a FIFO queue, nothing overwritten, nothing lost at destruction, everybody returns |
| Double buffer (`device/mt_double_buffer.c`, `host/accl_tracer_double_buffer.cpp`) | writing and ready index, used bytes per buffer | allocate on the device, drain on the host | two processors and plain memory | no record overwritten or drained twice (not part of the present build) |
| Tracer and instrumentation (`device/mt_buffer.c`, `device/mt_tracer_dev_callbacks.c`, `host/accl_tracer.cpp`, `host/instrumented_func_host.cpp`) | per loaded cluster a block of device memory with a buffer and a counter per core; on the host **one** `buf_args`, `callback_used_host`, `opened_cluster` for all clusters | cores: reserve and fill a record; host: load, unload, start a group, wait and collect | the host collects and resets all cores after it has waited for one group; it knows only the cluster loaded last; unload and wait do not look at `dat_loaded`; allocation reads its counter three times | no record lost or collected twice, a stream holds the records of its cluster, nothing freed is used, nothing leaks |

### 1.4 Afterwards

Compression (`lib/compress`, `tool/compress`, `tool/decompress`; not part of the
present build), the trace reader (`lib/reader`), and the tools (`tool/*`,
`lib/pse/tools/sls.cpp`): sequential programs over finished files.

### 1.5 How the parts interact

A wrapper enters the guard, asks the record writer for a record, and leaves it.
The writer opens (once per thread) *root / process / thread* directories by
`openDirSection` and data sections by `openDataSection`, and appends with
`writeDataSection`. These call `allocateBlock` and `loadBlock`, which may call
`load`, which grows the file and the mapping. So the calls go strictly down
(writer, section, block, page), and below the section everything is shared by all
threads of all processes of the node: the allocation counter, the file length,
one spin lock per directory and the one of the super block. A process
meets the others only through the file, the two shared-memory segments and the
`.lock` file. `pthread_create` adds the new thread to the set over which the
sampling timer and the shutdown iterate; both reach the thread by a signal whose
handler runs inside whatever the thread is doing, wrappers of the tool included,
and goes through the same guard and the same maps. The pool and the device
buffers are independent of all this: what they collect ends in the writer or in
files of its own.

## 2. Modules

| Module | What | Lines of code it stands for |
| --- | --- | --- |
| `SectionFile` | pages, blocks and the spin lock; several processes with several threads | `fsl_lib.cpp:137-320, 406-457`, `lock.h:46-58` |
| `SectionLifecycle` | opening, writing and closing by several processes, readers, kills | `fsl_lib.cpp:43-104, 324-457` |
| `Directory` | what a directory promises: a map that only grows | `fsl_lib.h:131-175` |
| `SectionDir` | the entries, tables, lock, unlocked lookups and iterations; implements `Directory` | `fsl_lib.cpp:461-539, 649-774`, `fsl_lib.h:239-365` |
| `BlockIndex` | the path through the index blocks to the id of block number *e* | `fsl_block.h:219-337`, `fsl_lib.cpp:802-858` |
| `DataSection` | writes and reads of data sections, on `BlockIndex` | `fsl_lib.cpp:541-647, 802-905`, `raw_backend.h` |
| `ThreadLifecycle` | threads, guard, signals, sampling and shutdown | `pthread_wrapper.cpp`, `pthread_instrument.h`, `safe.cpp`, `safe.hpp`, `record_writer.cpp:120-411` |
| `DeviceTrace` | the records of kernels and their collection by the host | `mt_buffer.c`, `mt_tracer_dev_callbacks.c`, `accl_tracer.cpp`, `instrumented_func_host.cpp` |
| `RecordQueue` | what the pool promises: a FIFO queue | `mt_memory_pool.h` |
| `MemoryPool` | the pool, its producers, owner and consumer; implements `RecordQueue` | `mt_memory_pool.cpp:7-155` |
| `SectionFileProofs`, `SectionLifecycleProofs`, `SectionDirProofs`, `DataSectionProofs`, `ThreadLifecycleProofs`, `ThreadShutdownProofs`, `DeviceTraceProofs`, `MemoryPoolProofs` | theorems and their proofs | |
| `MC*` | the constants TLC needs | |

The modules cut the storage engine by layer. Each keeps the steps of its own
layer and does the layer below in one step, whose effect the lower module checks:
`SectionLifecycle` and `DataSection` grow mapping and file atomically
(`MappedIsBacked` and `FileNeverShrinks` of `SectionFile` are what entitles them
to), and `SectionDir` allocates a block in one step (`BlocksAreDisjoint`).
`ThreadLifecycle` knows of the sections of a thread only whether they are alive.

### 2.1 State and actions against the code

*SectionFile.* Lengths and `mapedEnd` are counted in pages, block ids are
numbers. `pc` of a thread is its place inside `load()`: *try* (tryLoad), *lock*,
*size* (compute the new length, read `fileSize()`), *grow* (`ftruncate`), *map*
(`mmap`), *unlock*, *use*. A process whose constructor has not ended is
`~attached`; its `load()` takes no lock, since the lock is made from the super
block it is loading. `Kill` stops all threads of a process wherever they are and
leaves the file, with a held lock, as it is.

*SectionLifecycle.* One `pc` per process; a process that opens the file again is
another element of `Writers`. `counterId` and `lockId` are the states of the two
shared-memory keys; an `shmget` of a removed key fails, which is why
`AttachCounter` may end in *failed*. Inside, a writer allocates, extends and
touches one block at a time. `written` remembers the highest block ever touched.
A reader looks at neither sign and may come at any time. A file without a length
cannot be mapped, and a page whose super block is not written fails an assertion;
`InitSuper` makes the page and the super block in one step, so that both are the
*failed* of `OpenRead`. A reader that finds no file leaves an empty one
(`O_CREAT`): it ends *orphaned*, as does the file, of which no writer is then the
creator, and all writers wait for a sign nobody will give. `own` of a reader is
what had been written when it opened.

*SectionDir.* `slots` is the row of entries in the order `findEntry` visits them;
the "NoDesc" blocks of levels two and three only find the next table and are
folded into `tables`. The order of the two stores into an entry is kept, since it
differs: a direct entry gets its `desc` first and its `blockId` later, an entry
of a table the other way round. A block id is loaded in two steps, and the two
halves of different stores may be combined (`Torn`). In `Directory` a directory is
the map from descs to sections and one word on where its next entry would go
(`room`: the directory block, the tables, nowhere), since what a call that finds
nothing is told depends on it; `Room` is that word read off the entries.

An iteration
is a function of one state of the directory (`Iterated`), evaluated in every
state: it meets half-made entries, not a directory that changes under it.

*DataSection.* Writers copy cells `<<section, position>>`, so that a cell in the
wrong place is visible. A write alternates the load of blocks (through the words
of the section and the index blocks below them: `loadDataBlock` and its variant
for runs) and the copy. Each block the walk misses, index block or data block, is
taken from the file's counter in a step of its own (`AllocateIndex`,
`AllocateOne`, `AllocateRun`), and so blocks of the other section come between. A
run goes on to the next word (`EnterNext`, `CompareNext`), also into another
index block or another level. One writer per section, as the record writer has it
(every thread its own). Loads of index blocks that are mapped already change
nothing and are left out. The arguments of `compare_exchange_weak` are in the
order the code has them.
The recursions of the code (`power`, the sums of the levels, the walk from block to
block) are recursive functions: `Walk[<<s, e, k>>]` is the *k*-th block on the way
to entry *e* of section *s*.

*ThreadLifecycle.* A thread is a stack of frames; the last one runs.
`jsi_thread_finalize` and the handlers of `SIG_THREAD_EXIT` and of the sampling
signals are pushed on whatever they interrupt, the tool's own code included. Values of
`pthread_t` are given out again after a join or a detach. `tls` holds what is
thread-local (`in_tool`, `unsafe_state`, `thread_data_initialized`, `record_fini`,
whether the section maps are alive); `fini` says which destructors have got how far.
Undefined behaviour (freed maps used or freed again, the set of threads read while it
changes, an id of a thread that is gone), a sample in the middle of a store that is
not under the guard (*nested*) and the default action of a signal end an execution
with a `fault` that names it. `unsafe_state` is what the code makes of it: unless
memory functions are recorded (`MemoryCollect`, off by default) every allocation and
deletion marks it and clears it again, so that whoever had set it for longer has it
set only up to the next one (`Allocated`). Hence the finalisation is five steps
(*fini* tests, *finiSet* marks, *finiSampler* deletes the sampler, *finiFree* dumps
the backtraces and deletes the maps, *finiEnd* ends with the thread no longer
initialised), and a sample may come between any two. The timer is the process's: any
thread may run `main_thread_timer_handler` (`Timer`). The histories `hit` (the exit
signal landed in the tool), `odd` (a thread ended without its erase or before its
insert), `quiet` (exit was called with nobody else left) and `known` (who was in the
set then) are the premises of properties.

*DeviceTrace.* A core reserves a place (`Reserve`), reads the counter again (`Read`),
writes the sum (`Bump`), fills the place (`Fill`). A host call is a sequence of
`Flush`, `Reset`, `Free`, `Alloc`; kernels go on meanwhile, except where the program
must have waited for them. The host collects all cores in one step and resets all in
another, which is enough, as each core runs at most one kernel during a host call.
Freed memory or a null pointer ends an execution with `fault`. Only load and
`hthread_dev_close` look at `dat_loaded` (`DatLoad`, `DevClose`); an unload or a wait
with nothing loaded goes through the same pointers (`Unload`, `Wait`). The histories
are `raced` (cores that ran during a collection), `disorder` (two clusters were loaded
at a time, one was unloaded that was not loaded, or a group was waited for while no
cluster was loaded) and `crossed` (a cluster was loaded again beside another). `Exec`
asks for a loaded cluster: a kernel is part of the image that is loaded. That the
program has waited for the kernels of a cluster it loads, unloads or closes is an
assumption about the program.

*MemoryPool.* Addresses count from `pool_begin_`. The producer mutex is a
variable with a holder; the consumer mutex is held across steps only by the
callback (`pc[Consumer] = "read"`), by everybody else for one step.
`condition_variable::wait` is explicit: a thread whose predicate is false goes to
sleep, `notify_all` wakes everybody, `Wake` is the spurious wake-up, and whoever
is awake looks at its predicate again. The memory holds, cell by cell, which
record it belongs to, so that any overwriting shows when the callback reads.

## 3. Runs

Every module ends its list of definitions with *faulty variants*: operators with
the name of the definition they stand in for and a suffix (`NextBuffer_Same`).
They are used nowhere in the specifications. Put in place of the definition,
each makes TLC find a violation of the property it is listed with in
`PROJECT.json`: a plausible mistake in that code (a dropped guard, a missing
reset, a lock that does not exclude) is noticed.

### 3.1 Passing runs

| Run | Instance | Properties |
| --- | --- | --- |
| `section_file` | two processes; two threads in the creator, one in a joiner; pages of 2 blocks; runs of up to 3 blocks; up to 5 blocks; the creator may be killed | `MappedIsBacked` no page mapped behind the end of the file; `UseIsMapped` the address `load` returns is mapped; `MappingBound` threads that queue for one page double the mapping at most once each; `FileNeverShrinks`; `LoadReturns` |
| `lifecycle` | three writers, a reader that may come at any time, pages of 2 blocks, 4 blocks, two writers may be killed; nobody closes before all have opened | `CounterCoversOpen`; `NobodyFails` no constructor of a writer throws, no write hits a missing page, and a reader fails only if nothing had been written when it opened; `WrittenIsKept` no truncation cuts off a block; `MappingsAreBacked` nor the mapping of a writer, nor what was written before a reader opened; `ClosedFileIsTrimmed`; `OpenReturns` |
| `directory` | two threads, one of which may be killed; descs 0 to 4, created as directory or data, looked up, typed; one direct entry, two tables of one entry | `OneSectionPerDesc` one entry and one block per desc; `IterationFindsSections` an iteration at any time yields sections, or id 0 of an entry whose creator has the lock (for ever, if it was killed), and all of them when nobody is inside; `ImplementsDirectory` a lookup misses only what was not there when it began, a creator is refused only in a directory without room, and a lookup is refused, instead of answered with null, only under the condition of `RefuseLookup`; `HolderReturns` |
| `data` | two sections, writes of 5 cells into blocks of 2 cells and pages of 2 blocks, an index of one direct word and two levels of fan-out 2 | `WrittenIsReadable`; `BlocksAreDisjoint` over all words of sections and index blocks; `CopyIsMapped`; `WriteReturns` |
| `threads` | main and two values of `pthread_t`; main and one thread create, main may exit; two threads are created (`MaxCreated`); one tick of the timer; memory functions are not recorded | `StoresDoNotNest` no record inside a record; `MemoryFaultsNeedSignals` maps are misused only when the exit signal lands in the tool or a sample comes while they are deleted, and the latter only with memory functions not recorded; `ThreadsAreTheLive` the set is right, up to the named causes; `QuietExitIsClean` no fault but a sample in the last record; `ExitLosesNothing` |
| `device` | two clusters of two cores, buffers of 2 records, 3 loads, 3 kernels; unloads and waits at any time | `UnracedCoresAreComplete` a core that ran no kernel during a collection loses and repeats nothing; `FaultsNeedDisorder` freed memory and null pointers are used only after calls that were out of order; `StreamsAreOwn`; `NothingLeaks` |
| `pool` | two producers, owner, consumer; records of 2 units, buffers of 5, data of 3 (fits) and 4 (does not), none; 4 records | `StoresApart` no store outside the buffer or into what the consumer has; `EveryRecordArrives` each record reaches the consumer once, whole; `FlushWaits`; `ImplementsQueue`; `CallsReturn`; also no deadlock |

Every run also checks its module's `TypeOK`. `CHECK_DEADLOCK FALSE` stands where the
system may really stop: all blocks of the bound are taken, all have closed, a
killed process holds the lock, the traced process has ended, or the program makes
no more calls. In `pool` deadlock is checked.

### 3.2 The bounds

- *Pages of two blocks* make every page boundary fall inside a run; with one block
  per page "on the page of the first block" would be vacuous. Five blocks (three
  pages) are enough for the mapping to be doubled (1, 2, 4) and for a block to
  need more than the doubling; `MaxRun = 3` spans two pages.
- *Three threads*: two share a mapping and race for one page, the third is in
  another process that shares only the file and may still be in its constructor.
- *Three writers* in `lifecycle`: the creator, and two joiners that can be at
  different places of their constructor at the same time. `LateJoin = FALSE` says
  that nobody closes before all have opened: how the toolkit is used (all
  processes of a job start before one ends); what happens otherwise is in 3.4. The
  reader comes before, between or after them.
- *`directory`*: the direct part and both tables become full (one desc more than
  there are slots); desc 2 is wanted with both kinds; desc 0 is the refused one.
  `Half = 100` keeps all ids in the lower half; see 3.4.
- *`data`*: 5 cells in blocks of 2 make a write that begins in the middle of a
  block, fills whole blocks and ends in the middle; sections of up to 7 cells are
  written twice. With `Direct = 1`, `Fan = 2` and `Levels = 2` a run goes from the
  direct word to level 1 and on to level 2, over index blocks that have to be
  allocated on the way. The index of that instance is checked as a whole by
  the assumption `PathsCountTheWords`: the paths of the entries lead to every word
  of each level, in order, and so no two to the same. `Word = 64` stands for 2^64:
  larger than every size that occurs. The write of 5 cells is
  below the bound of `CopiesStayMapped` (6 here), that of 11 in `data_large_write`
  above it. The latter needs a run inside the
  direct words (`Direct = 6`): an index block allocated behind the run would map
  the page whose absence it shows.
- *`threads`*: two threads are created (`MaxCreated = 2`, counted by `made`) with two
  values of `pthread_t`: both live side by side, or one after the other under the
  value that is used again; created by main, or by the thread with the higher of the
  two. One tick of the timer reaches every place of every thread. `MemoryCollect` is
  off, which is the default and the case in which `unsafe_state` keeps little out.
  `Exiters` is main alone; section 4.6 proves every invariant for any threads,
  creators and exiters, any number of creations and both values of `MemoryCollect`.
- *`device`*: three loads are one cluster loaded twice and another one in between;
  three kernels overflow a buffer of two records. `KernelBound` cuts where less is
  claimed: once calls were out of order at one kernel started (`MaxDisorder`; only
  `TypeOK` and `StreamsAreOwn` say anything there), and once a kernel has run during
  a collection at two (`MaxRaced`). Nothing tells one cluster from the other, hence
  the symmetry. What is cut is covered by the proofs of 4.7, which know no such bound.
- *`pool`*: 5 units hold two records without data or one with it; with data,
  four records use each buffer twice, so that a buffer is filled again after it has
  been consumed.

### 3.3 Fairness

Weak fairness of the steps of each thread (process, writer, consumer), and nothing
else: a scheduler runs every thread that can run. Nobody has to call, to open, to
write, to close, to be killed or to wake up spuriously. The spin lock and the
mutexes promise nobody a turn. That a waiter gets one in these runs
follows from what the code does: the critical sections end, and the number of
times the others can be ahead is finite because a page is loaded, or a record
stored, only finitely often. `HolderReturns` of the directory therefore speaks of
a thread that has the lock or needs none. A killed process may hold a lock that
lies in the file; the liveness properties say so ("... or somebody has been
killed"). `ThreadLifecycle` and `DeviceTrace` state no liveness: a fault ends an
execution anywhere, and neither a program nor a kernel has to go on; the shutdown
waits for threads that may themselves wait for something the program never does.

### 3.4 Findings: runs that must find a violation

Each of these checks one property that a comment, a document or a test of the
repository states.

| Run | What the code does |
| --- | --- |
| `lifecycle_late_truncate` | The destructor that saw the counter at 1 loads `blockAllocated` and truncates the file. A process that counts itself in after the decrement allocates and writes a block in between, and the block is cut off. The comment at `fsl_lib.cpp:383-384` wants to rule this out. |
| `lifecycle_reopen` | Every destructor removes the shared-memory keys, and only the creator of the *file* makes them. Opening an existing, closed file for writing waits for ever for the ready sign, which `dir_iterator_test.cpp:30` and `new_backend_test.cpp:90` do. |
| `data_positioned` | A positioned write behind the end never raises `sectionSize`: `compare_exchange_weak(v, t)` has expected and desired the wrong way round (`fsl_lib.cpp:561`; the comment at 557 says what was meant). `fsl_mt_large_test` writes like this. |
| `data_large_write` | When the first block of the rest of a long write is already entered, only its page is loaded, but consecutive blocks of later pages are returned as well (`fsl_lib.cpp:904`): `memcpy` leaves the mapping. Writes of up to a page and one block are safe (`CopiesStayMapped`, 4.4). |
| `threads_sampling` | The first thread that ends deletes its sampler, whose `cleaning()` ignores `REALTIME_SIGNAL` for the whole process (`record_writer.cpp:194`): the periodic sampling of `doc/usage.md:27` stops. |

Also visible in the models, without a run of their own:

- a lookup without create that finds its desc nowhere, in a directory whose direct
  entries are taken, throws "dir entry is full" where `fsl_lib.h:149` promises a null
  pointer. The promise of `Directory` is the null pointer (`Miss`); the exception is
  an action of its own, `RefuseLookup`, with the condition under which the code
  raises it: only for a section that was not there when the call began, and only with
  the direct entries taken. `ImplementsDirectory` holds with that action and fails
  without it;
- a reader that opens the file before anything is written fails, and one that comes
  before all writers leaves an empty file, which every writer takes for somebody
  else's: all wait for ever (`fsl_lib.cpp:332-366`). `NobodyFails` and `OpenReturns`
  name these two cases;
- `unsafe_state`, set at `record_writer.cpp:251` and 350 to keep samples out of the
  finalisation and of the shutdown, is cleared by the first allocation or deletion
  after it when memory functions are not recorded (`memory_wrapper.cpp:33-39, 86-92`).
  A sample may then come between the deletions of a thread's maps and use one that is
  gone (fault *freed*), or in the middle of the last record, whose section or spin
  lock it wants as well (*nested*). `MemoryFaultsNeedSignals` and `QuietExitIsClean`
  name exactly these;
- `Flush` of the pool returns at once when the current buffer is empty, though the
  consumer may still read the buffer another `Flush` has handed over;
  `mt_memory_pool.h:59` says "block until all consumed", and `FlushWaits` claims
  it only for what the caller's own `Flush` handed over;
- with a small `Half` a lookup can return an id put together from two halves;
- a thread killed inside `openSection` with create, also between the two stores
  of an entry, leaves the lock of the directory taken, so that no later create ever
  sees the half-made entry and only lookups and iterations go on;
- a killed creator that has not published its signs stops everybody else for good;
- each fault of `ThreadLifecycle` can be reached: what the properties state is
  which of them need which cause;
- a thread inserted into the set during the shutdown, with an id lower than the one
  the iterator has reached, is neither signalled nor joined, and its records are lost;
  `ExitLosesNothing` therefore speaks of the threads in the set when `exit` is called;
- with two clusters loaded at a time the host frees and resets the wrong block, and
  kernels go on in freed memory; with a single one, a second unload, an unload of a
  cluster that was never loaded, or a wait with none loaded reads buffers that are
  freed or were never allocated (`instrumented_func_host.cpp:277-281, 429-441`).

## 4. Proofs

All proofs hold for all values of the constants that satisfy the named assumption
of the model (`SectionFileAssumption` and so on): any number of processes and
threads, any page, record, buffer and data sizes, any bounds. What a proof assumes
beyond that stands in its theorem. The assumptions themselves ask for no more than
that numbers are numbers, sizes are not zero, the sets of threads (of a process) and
of sections are finite, and that what stands for "no cluster" is no cluster.

### 4.1 `SectionFileProofs`

| Theorem | |
| --- | --- |
| `TypeCorrect` | `Spec => []TypeOK` |
| `MappedPagesExist` | `Spec => []MappedIsBacked` |
| `LoadedPagesMapped` | `Spec => []UseIsMapped` |
| `NoShrink` | `Spec => FileNeverShrinks` |
| `MappingStaysBounded` | `Spec => []MappingBound` |

`MappedIsBacked` is not inductive: whether `Map` stays inside the file depends on
what the thread read two steps earlier, and whether that is still true on nobody
else having been between the same two calls. The invariant `IInv` adds

- `LockInv`: a thread of an attached process between lock and unlock excludes any
  other such thread, and the lock word is 1;
- `AttachInv`: a process without a lock runs one thread, which loads block 0 of a
  file that already has that page, so that its `ftruncate` is never reached:
  this is why its missing lock does no harm;
- `GrowInv`: the length the holder has read is still the length of the file, what
  it is about to map is reserved and reaches its block.

Kills need no case of their own beyond "dead is nowhere": they only remove
threads, and `LockInv` speaks of those inside.

`MappingBound`, the mapping is at most 2^T times the allocated pages, needs to know
how often it may still be doubled. `BudgetInv` pays for that in advance: the
mapping times 2 to the number of threads that wait or grow is within the bound, so
that a thread gives up its doubling when it uses it, and gets a new one only after
it has found its page mapped. `LoadInv` says that nobody loads a block that is not
allocated. The library has no theorem about powers; 2^n enters as the number of
subsets of a set of *n*.

### 4.2 `SectionLifecycleProofs`

| Theorem | |
| --- | --- |
| `LifecycleTypeCorrect` | `Spec => []TypeOK` (the counter stays a natural number) |
| `CounterCovers` | `Spec => []CounterCoversOpen` |
| `NobodyEverFails` | `~LateJoin /\ Spec => []NobodyFails` |
| `NothingIsCutOff` | `~LateJoin /\ Spec => []WrittenIsKept` |
| `MappingsStayBacked` | `~LateJoin /\ Spec => []MappingsAreBacked` |
| `TrimmedAtLast` | `~LateJoin /\ Spec => []ClosedFileIsTrimmed` |

The first two hold whoever closes first. `CInv` is the types, `OrderInv` (before the
ready sign nobody has counted itself in, so that setting the counter to 0 forgets
nobody; and in a file that a reader has made nobody ever gives the sign) and
`CountInv` (the counter is never below the number of those counted, and equal to it
while nobody has failed or been killed). The other four need what
`lifecycle_late_truncate` shows to be necessary: nobody closes before all have opened.
`JInv` then adds `LeaveInv`: who closes finds all in or gone, and who saw the counter
at 1 is alone and stays so; hence what it loaded of `blockAllocated` is still true
when it truncates. `OpenInv`, `WriterInv` and `ReaderInv` say what each place of a
process knows of the length of the file: nothing has been written before the super
block, and from then on the file is never empty, which is what `NobodyEverFails` needs
for a reader that comes at any time. `TrimInv` says that, once everybody has left, the
last one is about to cut or has cut. One lemma per conjunct, one step per action.

### 4.3 `SectionDirProofs`

| Theorem | |
| --- | --- |
| `DirTypeCorrect` | `Spec => []TypeOK` |
| `OneSection` | `Spec => []OneSectionPerDesc` |
| `IterationIsSound` | `Spec => []IterationFindsSections` |
| `KeepsPromise` | `SmallIds /\ Spec => ImplementsDirectory` |

`OneSection` needs the lock (`LockInv`), also after its holder was killed, when nobody
ever enters again; `DiskInv`: entries fill the slots in order, one slot and one block
per desc; `HalfMade`: an entry with only one of its two fields belongs to the slot the
holder of the lock is working on; `Settled`, and per thread what it knows of the slots
it has walked past. `IterationIsSound` adds two facts to this: an entry with a desc
and no id is the one the holder of the lock is completing (`Promised`), and while the
lock is taken somebody is inside or was killed there (`Held`), so that with nobody
inside no entry is half made. `KeepsPromise` is the refinement: every step is a step
of `Directory` or a stutter. The hard case is a lookup that walks without the lock
while creators append: it may miss only what was not there when it began. What it is
told then depends on the room that is left: an entry once taken stays taken
(`EntriesStay`), so that `room` only shrinks (`RoomFills`), and who is past the direct
entries has seen each of them taken (`PassedInv`); hence no call is refused in a
directory with room. `SmallIds` says that all ids fit into the lower half of a
`uint48_t` (2^16 in the code), since beyond that a lookup may return an id nobody
stored.

### 4.4 `DataSectionProofs`

| Theorem | |
| --- | --- |
| `DataTypeCorrect` | `Spec => []TypeOK` |
| `BlocksStayDisjoint` | `Spec => []BlocksAreDisjoint` |
| `WrittenStaysReadable` | `ASSUME ~Beyond, HeadLength <= BlockSize PROVE Spec => []WrittenIsReadable` |
| `CopiesStayMapped` | `ASSUME ~Beyond, HeadLength <= BlockSize, \A n \in Lens : n <= (BlocksPerPage + 1) * BlockSize PROVE Spec => []CopyIsMapped` |

The index is recursive: powers, sums of levels, and the walk from a word of the
section through index blocks. None of these has a value for the prover until its
equation is shown to have a solution. `PowerDef`, `SumDef` and `WalkIsStepwise` do so
without an induction scheme: were there numbers for which the function could not be
tabulated so far, there would be a least one (`LeastNatural`), which the one before it
contradicts. Facts about all steps of a walk are proved in the same way.

`IInv` has four parts. `TypeOK` and `CallInv` are the types and the bounds of a call in
progress. `TreeInv`: there are heights of the index blocks such that an indirect word
of level *l* holds a block of height *l*, and a block of height *h* > 1 blocks of
height *h* - 1; so a walk stays among index blocks until its end, and no change to one
word makes it circle. `DisjointInv`: every id is below the counter and in one word
only (`WordInv`), and what a writer has allocated for a run but not entered is in no
word and in nobody else's run (`RunInv`). This last part is what makes the property
inductive, since a run is entered one word at a time while others allocate.

`WrittenStaysReadable` adds `ReadInv`, for each section: its entries are filled from
the first on (`Prefix`); every position below `sectionSize`, but for the part the call
in progress still has to write, has its block (`Covered`); what a walk has seen is a
row of consecutive ids, and behind a fresh run nothing is entered (`Follows`); and
each position copied so far lies in the cell its entry leads to (`Stored`). Two
lemmas carry it. `EntriesDiffer`: two entries share no word, because their paths, the
digits of what the level's sum leaves, differ (`SameDigits`, `SamePath`). `WalkKept`:
entering a word that was 0 changes no walk that had got past it. So a new entry or a
new index block leaves all other entries of all sections as they are, and a copy
touches nobody else's cells.

`CopiesStayMapped` adds `MapInv`, for each section. A block that is entered may lie
on a page that is not mapped in two cases only. While a fresh run is entered, its
blocks may, from the first entry of the call on; the page of its first block is
mapped. Afterwards those the call in progress has still to copy may, but then they
all lie on one page, that of the block its next load looks at (`Rest`), the offset is
at the beginning of a block and something is left to copy. So no walk that compares
ids (`CompareNext`) meets an unmapped block, a load maps everything there is, and
nothing is left when a call returns. `RunOfPages` is where the bound on the length
comes in: a run of at most a page and one block, cut at the end of the page of its
first block, has its rest on the next page.

The hypotheses are those the code needs. A write of more than a page and one block
(33280 bytes: `fsl_block.h:105-107`) can leave rests on two pages, of which the next
load maps one, and the copy may leave the mapping: `data_large_write`. Records
written one by one, strings and headers are far below that, but the record layer,
which collects 1024 records for one write (`ral/section.h:628`, 654), is above it
when a record has more than 32 bytes: for those writes the theorem says nothing.
With `Beyond`, a positioned write may end
behind its section, whose size does not follow it: `data_positioned` shows what is
lost then. The head of a record section lies in its first block (`HEAD_LENGTH` is 64,
`raw_backend.h:91`; `BLOCK_SIZE` 512, `fsl_block.h:106`).

### 4.5 `ThreadLifecycleProofs`

`GuardKeepsStoresApart`: `Spec => []StoresDoNotNest`. The invariant says of each
stack that only its first frame is the program's, all frames above it are
finalisations and handlers, at most one frame records, and if one does, `in_tool`
is set, so that the guard lets no other in. Finalisations do enter without the
guard, but record nothing.

### 4.6 `ThreadShutdownProofs`

| Theorem | |
| --- | --- |
| `ThreadTypeCorrect` | `Spec => []TypeOK` |
| `MemoryFaultsHaveCauses` | `Spec => []MemoryFaultsNeedSignals` |
| `SetHoldsTheLive` | `Spec => []ThreadsAreTheLive` |
| `QuietShutdownIsClean` | `Spec => []QuietExitIsClean` |
| `ShutdownLosesNothing` | `Spec => []ExitLosesNothing` |

All follow from one invariant, `KInv`: the `IInv` of 4.5, the types of the shared
state (`Globals`), and

- `LocalInv`, about one thread alone: what the frames of its stack say of its
  thread-local variables. Who runs the program is initialised. Unless an exit signal
  landed in the tool (`Alone`), there is one finalisation at a time, and who is still
  to record has its maps, but for a sample that a finalisation let in behind its
  deletions. Who has begun to close its sections closes them before it goes on,
  however finalisations interrupt one another. While memory functions are recorded
  (`Shielded`) `unsafe_state` stays set from the mark on, and no sample is above a
  store that is not under the guard;
- `DepthInv`: the exit signal reaches a thread at most once, since the iteration goes up
  and does not come back; so a stack holds at most a frame of the program, two
  finalisations and a sample. Without it `TypeOK` has no bound on the stacks;
- `BaseInv`: what the first frames say of the lock of the set, of the child of a
  `pthread_create`, and of how far the destructors have got; one thread shuts down;
- `SetInv`: a worker that has begun is in the set or its creator is in between, and who
  is in the set has begun and not ended, unless it is `odd`;
- `QuietInv`: after a quiet exit nobody else comes back to life, no exit signal is
  sent, and no sample comes once main deletes its maps: the signal of the timer is
  ignored by then;
- `KnownInv`: the threads known at exit are in the set or dead with closed sections, and
  those the iterator has awaited are dead.

The iterator goes through a set that threads erase themselves from while it waits, so
`KnownInv` has to speak of ids below the cursor and not of members of the set. The
lemmas are grouped by what a step does to a stack: the first frame moves, something
interrupts it, or what interrupts it goes on.

### 4.7 `DeviceTraceProofs`

| Theorem | |
| --- | --- |
| `OrderIsSafe` | `Spec => []FaultsNeedDisorder` |
| `OrderLeaksNothing` | `Spec => []NothingLeaks` |
| `DeviceTypeCorrect` | `Spec => []TypeOK` |
| `StreamsKeepApart` | `Spec => []StreamsAreOwn` |
| `UnracedRecordsArrive` | `Spec => []UnracedCoresAreComplete` |

`IInv` is the types needed, what each host call has still to do (`Calls`), and,
while the calls are in order (`Single`): at most one cluster is loaded, and it is the
one a call is about (`Placed`); its block is the one the host would read, reset and
free, and is not freed (`InUse`); all earlier blocks are (`Released`). The last of the
three disorders, a wait with nothing loaded, is there because the wait wrapper takes
no look at `dat_loaded` either.

`DInv` adds what the other three need. For `StreamsAreOwn`, also with calls out of order:
no two clusters have one block (`Owned`), nobody has written to a block still to be
given out (`Virgin`), a block holds records of the cluster that uses it (`OwnCells`),
and the block the host reads is that of `opened_cluster`, until a cluster is loaded
again beside another one (`Told`). For `TypeOK`, what a kernel knows of its counter
although a reset may have come between its read and its write (`Kernels`): it is alone on
its core, so nobody has added to it. For `UnracedCoresAreComplete`, `Unraced`: of a
core that no collection has raced with, the stream and the filled part of the buffer
(`Stock`), one after the other, are the records it got a place for; the part counts as
taken between the collection and the reset, and as still there during `Fill`.

### 4.8 `MemoryPoolProofs`

| Theorem | |
| --- | --- |
| `PoolTypeCorrect` | `Spec => []TypeOK` |
| `StoresAlwaysApart` | `Spec => []StoresApart` |
| `RecordsArrive` | `Spec => []EveryRecordArrives` |
| `FlushesWait` | `Spec => FlushWaits` |
| `PoolIsQueue` | `Spec => ImplementsQueue` |

`StoresApart` says that a thread about to store has room and does not store into
the buffer the consumer has. It is not inductive because the room is tested
before the buffers are switched and the hand-over precedes the switch. `IInv`
adds `MutexInv` (who is between lock and unlock is the holder), `PointerInv`
(records from below and data from above have not met), `RoomInv` (after a switch
the room follows from `BufferSize >= 2 * RecordSize` and from the test in
`Reserve`) and `HandInv`: a valid hand-over is the *other* buffer, except between
`Notify` and `Switch`, when it is the current one. The proof has one lemma per
group of actions; `Elsewhere` covers all steps that leave the buffers alone.

For the other three the invariant `QInv` says what the memory of the pool holds.
`RowsInv`: the records
not yet consumed lie in two rows without gaps, *h* of them in the buffer the consumer
has been handed and *f* in the one being filled, numbered through from the one to the
other, and `written = delivered + h + f`. Each is `Whole`: all its cells are its own,
and its data lies in its buffer above `data_ptr`, or with its writer, of whom there is
at most one (`Borrowed`). Between `Notify` and `Switch` the second row is empty,
whatever `record_ptr` says. A store keeps all other rows because of `PointerInv`,
`RoomInv` and `HandInv`; a read finds what it expects because its record is the first
of the first row. `EmptyInv`, `FlushInv` and `OwnerInv` say what a waiting Write,
a waiting Flush and the destructor know of the buffer; with no hand-over valid the
first row is empty, which is all that is left to say for `FlushWaits` and for the
destructor's `delivered = written`. The queue of the refinement is the run of
numbers after `delivered` (`TheQueue`), which a store prolongs and a read shortens.

### 4.9 Model-checked only

- The liveness properties: they need fairness and `ENABLED`, which the prover does
  not handle.
- The five properties of 3.4, which do not hold.

Every invariant and every action property of the passing runs is a theorem, those
of data sections under the hypotheses of 4.4.

## 5. Not modelled, and why

- System calls succeed. A failing `ftruncate`, `mmap`, `shmget` or pthread call ends
  in an exception or an assertion, some with the lock held; no recovery exists to
  check.
- The reservation of address space and its limit, `unload` (nobody calls it).
- Memory ordering. The counters are atomics and the lock acquires and releases, but
  the entries of a directory are plain memory which lookups read unlocked: the
  models interleave the stores and loads of the source, and tear the 48-bit ids, but
  do not reorder them.
- A kill in the middle of a data write, or between the header appends of a
  `RawDataSection`; two writers on one section (the record writer gives every
  thread its own); a section that is full; a reader that overlaps a writer.
- The single steps of a directory iteration that overlaps a creator:
  `IterationFindsSections` looks at each state as a whole.
- In `ThreadLifecycle`: collection switched off with threads still created; `main`
  calling `pthread_exit`; threads the tool does not wrap using the tool; `extStore`,
  PMU and backtrace set-up, the contents of the metadata; the child of a fork. Steps
  that touch only the thread's own state are merged, also where a signal could land
  between them without a difference to what it finds.
- In `DeviceTrace`: the reuse of freed device memory by a later allocation; the
  ring buffer of host records.
- Not in the present build: the double buffer of the device, the record area, the
  compression.
- Wrappers, tools, formatting, plotting, vendor libraries: one record per call, or
  sequential code over finished traces. See the components in `PROJECT.json`.

Most lines of the repository are none of these: `include/utils` holds copies of
rapidjson, snappy and cxxopts, and `include/record` and `lib/record/record_type_info.cpp`
tables of record types.

## 6. Plan

Written in the order of importance; all but the ninth are done.

1. `SectionFile`, with proofs: every record depends on it.
2. `SectionLifecycle`, with proofs: the handshake between processes.
3. `Directory`, `SectionDir`, with proofs: the first refinement.
4. `DataSection`, with proofs: what the file is for.
5. `RecordQueue`, `MemoryPool`, with proofs: the second refinement.
6. `ThreadLifecycle`, with proofs: threads, signals and shutdown.
7. `BlockIndex`, under `DataSection`.
8. `DeviceTrace`, with proofs: kernels against the host.
9. `DataSectionWrapper` buffering, the sampling decision, the context tree and its
   dump, the merge of the reader.
10. Proofs of the invariants of `ThreadLifecycle`, `DeviceTrace` and `DataSection`, the
    last through the recursive walk.

## 7. Running

    tlc -workers 2 -config section_file.cfg MCSectionFile
    tlapm SectionFileProofs.tla

and likewise for the other runs of `PROJECT.json`; each takes less than three
minutes. Of the proof modules, `ThreadShutdownProofs` and `DataSectionProofs` take two
to three minutes each, all others less than two.
