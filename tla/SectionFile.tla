---------------------------- MODULE SectionFile ----------------------------
(***************************************************************************)
(* The block allocator and the page mapping of one section file            *)
(* (FileSectionLayerDriver in lib/pse/src/fsl/fsl_lib.cpp).                *)
(*                                                                         *)
(* All processes of a node write one file. A process sees it through its   *)
(* own mapping, whose end (mapedEnd) the threads of the process share; the *)
(* file length, the allocation counter and the spin lock live in the file  *)
(* and are shared by everybody. Sizes are counted in pages of              *)
(* BlocksPerPage blocks.                                                   *)
(*                                                                         *)
(* A process that has not finished its BlockManager constructor has no     *)
(* driver_atomic_lock yet and loads the super block without locking; that  *)
(* is what ~attached[p] means here. The file starts in the state its       *)
(* creator leaves behind when it publishes the .lock file: one page,       *)
(* blocks 0 (super) and 1 (root) taken.                                    *)
(***************************************************************************)
EXTENDS Integers, FiniteSets

CONSTANTS
  Procs,          (* processes of the node                                *)
  Creator,        (* the process whose open(O_CREAT|O_EXCL) succeeded     *)
  Threads,        (* the threads of all processes                         *)
  ProcOf,         (* the process a thread belongs to                      *)
  BlocksPerPage,  (* BLOCKS_PER_PAGE                                      *)
  Killable,       (* processes that may be killed at any moment           *)
  MaxRun,         (* bound: blocks taken by one allocateBlock(n)          *)
  MaxBlocks       (* bound: blocks allocated in one behaviour             *)

ASSUME SectionFileAssumption ==
  /\ Creator \in Procs
  /\ IsFiniteSet(Threads)
  /\ ProcOf \in [Threads -> Procs]
  /\ BlocksPerPage \in Nat \ {0, 1}
  /\ Killable \subseteq Procs
  /\ MaxRun \in Nat
  /\ MaxBlocks \in Nat

VARIABLES
  fileSize,        (* length of the file, in pages                        *)
  mapedEnd,        (* pages mapped by each process                        *)
  blockAllocated,  (* SuperBlock::blockAllocated                          *)
  atomic_lock,     (* SuperBlock::atomic_lock, 0 or 1                     *)
  attached,        (* the process has finished its constructor            *)
  pc,              (* where each thread is inside load()                  *)
  blk,             (* the block each thread is loading                    *)
  next,            (* nextPreservedLength of each thread                  *)
  seen             (* the fileSize() each thread has read                 *)

vars == <<fileSize, mapedEnd, blockAllocated, atomic_lock, attached,
          pc, blk, next, seen>>

Larger(a, b) == IF a < b THEN b ELSE a

(* pageAlign(blockId * BLOCK_SIZE), as a page number.                      *)
Page(b) == b \div BlocksPerPage

(* The process of a thread.                                                *)
P(t) == ProcOf[t]

Locations == {"idle", "try", "lock", "size", "grow", "map", "unlock", "use", "dead"}

Goto(t, from, to) == pc[t] = from /\ pc' = [pc EXCEPT ![t] = to]

Init ==
  /\ fileSize = 1
  /\ mapedEnd = [p \in Procs |-> IF p = Creator THEN 1 ELSE 0]
  /\ blockAllocated = 2
  /\ atomic_lock = 0
  /\ attached = [p \in Procs |-> p = Creator]
  /\ pc = [t \in Threads |-> "idle"]
  /\ blk = [t \in Threads |-> 0]
  /\ next = [t \in Threads |-> 0]
  /\ seen = [t \in Threads |-> 0]

-----------------------------------------------------------------------------
(* Faulty variants: what the properties below must notice.                 *)
Lock_NoExchange(t) ==       \* a fetch_add that nobody waits for
  /\ atomic_lock' = atomic_lock + 1
  /\ Goto(t, "lock", "size")
  /\ UNCHANGED <<fileSize, mapedEnd, blockAllocated, attached, blk, next, seen>>

NextLength_DoubleOnly(t) == \* the std::max with the block's own page is gone
  2 * Larger(1, mapedEnd[P(t)])

NextLength_DoubleFile(t) == \* the file is doubled instead of the mapping
  Larger(Page(blk[t]) + 1, 2 * fileSize)

Grow_ToBlock(t) ==          \* grows for the block, but maps twice the mapping
  /\ fileSize' = IF next[t] > seen[t] THEN Larger(fileSize, Page(blk[t]) + 1) ELSE fileSize
  /\ Goto(t, "grow", "map")
  /\ UNCHANGED <<mapedEnd, blockAllocated, atomic_lock, attached, blk, next, seen>>

Grow_Always(t) ==           \* the comparison with fileSize() is gone
  /\ fileSize' = next[t]
  /\ Goto(t, "grow", "map")
  /\ UNCHANGED <<mapedEnd, blockAllocated, atomic_lock, attached, blk, next, seen>>

Unlock_Forgotten(t) ==      \* a path that leaves load() without unlocking
  /\ Goto(t, "unlock", "use")
  /\ UNCHANGED <<fileSize, mapedEnd, blockAllocated, atomic_lock, attached, blk, next, seen>>

-----------------------------------------------------------------------------
(* BlockManager::BlockManager of a process that found the file: it loads   *)
(* block 0 before it has a lock. Block 1 lies on the same page.            *)
Attach(t) ==
  /\ ~attached[P(t)]
  /\ \A u \in Threads : P(u) = P(t) => pc[u] = "idle"
  /\ Goto(t, "idle", "try")
  /\ blk' = [blk EXCEPT ![t] = 0]
  /\ UNCHANGED <<fileSize, mapedEnd, blockAllocated, atomic_lock, attached, next, seen>>

(* allocateBlock() and allocateBlock(n): the atomic fetch_add, then a load *)
(* of the first block of the run.                                          *)
AllocateBlock(t, n) ==
  /\ attached[P(t)]
  /\ blockAllocated + n <= MaxBlocks
  /\ Goto(t, "idle", "try")
  /\ blk' = [blk EXCEPT ![t] = blockAllocated]
  /\ blockAllocated' = blockAllocated + n
  /\ UNCHANGED <<fileSize, mapedEnd, atomic_lock, attached, next, seen>>

(* loadBlock(b) of a block somebody allocated earlier.                     *)
LoadBlock(t, b) ==
  /\ attached[P(t)]
  /\ Goto(t, "idle", "try")
  /\ blk' = [blk EXCEPT ![t] = b]
  /\ UNCHANGED <<fileSize, mapedEnd, blockAllocated, atomic_lock, attached, next, seen>>

(* tryLoad: the page is inside the mapping.                                *)
TryLoadHit(t) ==
  /\ Page(blk[t]) + 1 <= mapedEnd[P(t)]
  /\ Goto(t, "try", "use")
  /\ UNCHANGED <<fileSize, mapedEnd, blockAllocated, atomic_lock, attached, blk, next, seen>>

(* tryLoad returned nullptr: the LockGuard of load() takes the lock only   *)
(* when the process already has one.                                       *)
TryLoadMiss(t) ==
  /\ Page(blk[t]) + 1 > mapedEnd[P(t)]
  /\ Goto(t, "try", IF attached[P(t)] THEN "lock" ELSE "size")
  /\ UNCHANGED <<fileSize, mapedEnd, blockAllocated, atomic_lock, attached, blk, next, seen>>

(* SpinLock::lock: the exchange that returned 0.                           *)
Lock(t) ==
  /\ atomic_lock = 0
  /\ atomic_lock' = 1
  /\ Goto(t, "lock", "size")
  /\ UNCHANGED <<fileSize, mapedEnd, blockAllocated, attached, blk, next, seen>>

(* std::max(pageOffset + PAGE_SIZE, 2 * mapedEnd).                         *)
NextLength(t) == Larger(Page(blk[t]) + 1, 2 * mapedEnd[P(t)])

(* nextPreservedLength is computed and fileSize() is read. The page is not *)
(* tested again after the lock has been taken.                             *)
ReadSize(t) ==
  /\ next' = [next EXCEPT ![t] = NextLength(t)]
  /\ seen' = [seen EXCEPT ![t] = fileSize]
  /\ Goto(t, "size", "grow")
  /\ UNCHANGED <<fileSize, mapedEnd, blockAllocated, atomic_lock, attached, blk>>

(* ftruncate(fd, nextPreservedLength), when the length read was smaller.   *)
Grow(t) ==
  /\ fileSize' = IF next[t] > seen[t] THEN next[t] ELSE fileSize
  /\ Goto(t, "grow", "map")
  /\ UNCHANGED <<mapedEnd, blockAllocated, atomic_lock, attached, blk, next, seen>>

(* mmap of the pages between mapedEnd and nextPreservedLength.             *)
Map(t) ==
  /\ mapedEnd' = [mapedEnd EXCEPT ![P(t)] = Larger(@, next[t])]
  /\ Goto(t, "map", IF attached[P(t)] THEN "unlock" ELSE "use")
  /\ UNCHANGED <<fileSize, blockAllocated, atomic_lock, attached, blk, next, seen>>

Unlock(t) ==
  /\ atomic_lock' = 0
  /\ Goto(t, "unlock", "use")
  /\ UNCHANGED <<fileSize, mapedEnd, blockAllocated, attached, blk, next, seen>>

(* The caller of load() uses the address and the locals go out of scope;   *)
(* the constructor then owns a lock (new SpinLock(super->atomic_lock)).    *)
Use(t) ==
  /\ Goto(t, "use", "idle")
  /\ attached' = [attached EXCEPT ![P(t)] = TRUE]
  /\ blk' = [blk EXCEPT ![t] = 0]
  /\ next' = [next EXCEPT ![t] = 0]
  /\ seen' = [seen EXCEPT ![t] = 0]
  /\ UNCHANGED <<fileSize, mapedEnd, blockAllocated, atomic_lock>>

(* The process is killed. What it wrote to the file stays, a held lock too.*)
Kill(p) ==
  /\ pc' = [t \in Threads |-> IF P(t) = p THEN "dead" ELSE pc[t]]
  /\ UNCHANGED <<fileSize, mapedEnd, blockAllocated, atomic_lock, attached, blk, next, seen>>

Step(t) ==
  \/ TryLoadHit(t) \/ TryLoadMiss(t) \/ Lock(t) \/ ReadSize(t)
  \/ Grow(t) \/ Map(t) \/ Unlock(t) \/ Use(t)

Next ==
  \/ \E t \in Threads :
       \/ Attach(t)
       \/ \E n \in 1 .. MaxRun : AllocateBlock(t, n)
       \/ \E b \in 0 .. blockAllocated - 1 : LoadBlock(t, b)
       \/ Step(t)
  \/ \E p \in Killable : Kill(p)

Spec == Init /\ [][Next]_vars

(* The scheduler runs every thread; nothing forces a thread to call in.    *)
FairSpec == Spec /\ \A t \in Threads : WF_vars(Step(t))

-----------------------------------------------------------------------------
TypeOK ==
  /\ fileSize \in Nat
  /\ mapedEnd \in [Procs -> Nat]
  /\ blockAllocated \in Nat
  /\ atomic_lock \in {0, 1}
  /\ attached \in [Procs -> BOOLEAN]
  /\ pc \in [Threads -> Locations]
  /\ blk \in [Threads -> Nat]
  /\ next \in [Threads -> Nat]
  /\ seen \in [Threads -> Nat]

(* Every mapped page lies inside the file, in every process and whatever   *)
(* the others grow meanwhile: touching the mapping never raises SIGBUS     *)
(* (load, fsl_lib.cpp:156-183).                                            *)
MappedIsBacked == \A p \in Procs : mapedEnd[p] <= fileSize

(* The address load() returns points into the mapping of the process,      *)
(* even when another of its threads moved mapedEnd in between              *)
(* (load and tryLoad, fsl_lib.cpp:137-266).                                *)
UseIsMapped ==
  \A t \in Threads : pc[t] = "use" => Page(blk[t]) < mapedEnd[P(t)]

(* The file length is only ever raised while the file is being written,    *)
(* although fileSize() and ftruncate are two calls and the constructor of  *)
(* a joining process makes them without the lock (fsl_lib.cpp:154-166).    *)
FileNeverShrinks == [][fileSize' >= fileSize]_vars

(* A queue of threads that all missed the same page doubles the mapping    *)
(* once per thread, since load() does not test again under the lock        *)
(* (fsl_lib.cpp:154-183): a process maps at most 2^T times the last        *)
(* allocated page, T being its number of threads.                          *)
ThreadsOf(p) == {t \in Threads : P(t) = p}

MappingBound ==
  \A p \in Procs :
    mapedEnd[p] <= 2 ^ Cardinality(ThreadsOf(p)) * Larger(1, Page(blockAllocated - 1))

(* Every load() that was entered returns: nobody waits for the spin lock   *)
(* for ever as long as no process dies (lock.h:46-58,                      *)
(* fsl_lib.cpp:137-234).                                                   *)
LoadReturns ==
  \A t \in Threads : pc[t] = "try" ~> (pc[t] = "idle" \/ \E u \in Threads : pc[u] = "dead")

=============================================================================
