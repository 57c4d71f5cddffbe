-------------------------- MODULE SectionLifecycle --------------------------
(***************************************************************************)
(* How the processes of a node open and close one section file             *)
(* (ShmCounter, FileSectionLayerDriver and BlockManager constructors and   *)
(* destructors in lib/pse/src/fsl/fsl_lib.cpp).                            *)
(*                                                                         *)
(* The writer whose open(O_CREAT|O_EXCL) succeeds creates a shared memory  *)
(* counter, then a second segment that only says "the counter is ready",   *)
(* then the super block, then the file <name>.lock that says "the file is  *)
(* ready". The other writers wait for the two signs, and readers for       *)
(* nothing. Whoever decrements the counter to zero cuts the file to the    *)
(* allocated blocks, and everybody who closes removes the two segments.    *)
(*                                                                         *)
(* A process here is one BlockManager: a process that opens the file again *)
(* after closing it is another member of Writers. Growing the file and the *)
(* mapping is one step (SectionFile has its steps); lengths are in blocks, *)
(* mappings in pages.                                                      *)
(***************************************************************************)
EXTENDS Integers, FiniteSets

CONSTANTS
  Writers,        (* the processes that open the file in WRITE mode       *)
  Readers,        (* the processes that open it in READ mode              *)
  Creator,        (* the writer whose open(O_CREAT|O_EXCL) comes first    *)
  BlocksPerPage,  (* BLOCKS_PER_PAGE                                      *)
  LateJoin,       (* FALSE: nobody closes before every writer has opened  *)
  Killable,       (* writers that may be killed at any moment             *)
  MaxBlocks       (* bound: blocks allocated in one behaviour             *)

ASSUME SectionLifecycleAssumption ==
  /\ Creator \in Writers
  /\ Writers \cap Readers = {}
  /\ BlocksPerPage \in Nat \ {0, 1}
  /\ LateJoin \in BOOLEAN
  /\ Killable \subseteq Writers
  /\ MaxBlocks \in Nat

VARIABLES
  exists,          (* the section file exists                             *)
  fileLen,         (* its length, in blocks                               *)
  blockAllocated,  (* SuperBlock::blockAllocated; 0 until it is written   *)
  lockFile,        (* <name>.lock exists                                  *)
  counterId,       (* the key of the counter: absent, live or removed     *)
  lockId,          (* the key of the ready sign, likewise                 *)
  counter,         (* *_counter                                           *)
  pc,              (* where each process is                               *)
  mapped,          (* pages mapped by each process                        *)
  own,             (* the block a writer has allocated, or the value of   *)
                   (* blockAllocated a closing writer has loaded          *)
  written          (* history: no block from this one on has been touched *)

vars == <<exists, fileLen, blockAllocated, lockFile, counterId, lockId, counter,
          pc, mapped, own, written>>
file == <<exists, fileLen, blockAllocated, lockFile>>
shm  == <<counterId, lockId, counter>>

Larger(a, b) == IF a < b THEN b ELSE a

Procs == Writers \cup Readers

Opening == {"create", "zero", "ready", "wait_ready", "attach_counter", "inc",
            "super", "publish", "wait_file", "attach", "check"}
Inside  == {"open", "extend", "touch"}
Closing == {"size", "truncate", "detach", "remove"}
Ended   == {"closed", "failed", "orphaned", "killed"}

Goto(p, from, to) == pc[p] = from /\ pc' = [pc EXCEPT ![p] = to]

(* Processes that have counted themselves in and not yet out.              *)
Counted == {p \in Writers : pc[p] \in {"super", "publish", "wait_file", "attach", "check"} \cup Inside}

Init ==
  /\ exists = FALSE /\ fileLen = 0 /\ blockAllocated = 0 /\ lockFile = FALSE
  /\ counterId = "absent" /\ lockId = "absent" /\ counter = 0
  /\ pc = [p \in Procs |-> "none"]
  /\ mapped = [p \in Procs |-> 0]
  /\ own = [p \in Procs |-> 0]
  /\ written = 0

-----------------------------------------------------------------------------
(* Faulty variants: what the properties below must notice.                 *)
CreateCounter_Ready(p) ==   \* the ready sign comes before the counter is zeroed
  /\ Goto(p, "create", "zero")
  /\ counterId' = "live" /\ lockId' = "live"
  /\ UNCHANGED <<file, counter, mapped, own, written>>

CreateReady_SameKey(p) ==   \* both segments are made with the key of the counter
  /\ Goto(p, "ready", "inc")
  /\ UNCHANGED <<file, counterId, lockId, counter, mapped, own, written>>

IncCounter_Forgotten(p) ==  \* a process joins without counting itself
  /\ Goto(p, "inc", IF p = Creator THEN "super" ELSE "wait_file")
  /\ UNCHANGED <<file, shm, mapped, own, written>>

WaitFile_Eager(p) ==        \* nobody waits for the .lock file
  /\ Goto(p, "wait_file", "attach")
  /\ UNCHANGED <<file, shm, mapped, own, written>>

DecCounter_Any(p) ==        \* everybody who closes cuts the file
  /\ Goto(p, "open", "size")
  /\ counter' = counter - 1
  /\ UNCHANGED <<file, counterId, lockId, mapped, own, written>>

DecCounter_Zero(p) ==       \* fetch_add(-1) taken for the new value
  /\ LateJoin \/ \A q \in Writers : pc[q] \in Inside \cup Closing \cup Ended
  /\ Goto(p, "open", IF counter = 0 THEN "size" ELSE "detach")
  /\ counter' = counter - 1
  /\ UNCHANGED <<file, counterId, lockId, mapped, own, written>>

LoadAllocated_Last(p) ==    \* cuts to the last block instead of behind it
  /\ Goto(p, "size", "truncate")
  /\ own' = [own EXCEPT ![p] = blockAllocated - 1]
  /\ UNCHANGED <<file, shm, mapped, written>>

-----------------------------------------------------------------------------
(* open(O_CREAT|O_EXCL), or open(O_RDWR) when that failed.                 *)
OpenFile(p) ==
  /\ p \in Writers
  /\ exists \/ p = Creator
  /\ Goto(p, "none", IF exists THEN "wait_ready" ELSE "create")
  /\ exists' = TRUE
  /\ UNCHANGED <<fileLen, blockAllocated, lockFile, shm, mapped, own, written>>

(* ShmCounter of the creator: the segment, its value, the ready sign.      *)
CreateCounter(p) ==
  /\ Goto(p, "create", "zero")
  /\ counterId' = "live"
  /\ UNCHANGED <<file, lockId, counter, mapped, own, written>>

ZeroCounter(p) ==
  /\ Goto(p, "zero", "ready")
  /\ counter' = 0
  /\ UNCHANGED <<file, counterId, lockId, mapped, own, written>>

CreateReady(p) ==
  /\ Goto(p, "ready", "inc")
  /\ lockId' = "live"
  /\ UNCHANGED <<file, counterId, counter, mapped, own, written>>

(* ShmCounter of the others: spin until the ready sign is there, ...       *)
WaitReady(p) ==
  /\ lockId = "live"
  /\ Goto(p, "wait_ready", "attach_counter")
  /\ UNCHANGED <<file, shm, mapped, own, written>>

(* ... then attach the counter, which throws when its key is gone.         *)
AttachCounter(p) ==
  /\ Goto(p, "attach_counter", IF counterId = "live" THEN "inc" ELSE "failed")
  /\ UNCHANGED <<file, shm, mapped, own, written>>

IncCounter(p) ==
  /\ Goto(p, "inc", IF p = Creator THEN "super" ELSE "wait_file")
  /\ counter' = counter + 1
  /\ UNCHANGED <<file, counterId, lockId, mapped, own, written>>

(* BlockManager of the creator: load(0) grows the file to one page, both   *)
(* blocks are initialised and blockAllocated is set.                       *)
InitSuper(p) ==
  /\ Goto(p, "super", "publish")
  /\ fileLen' = BlocksPerPage
  /\ mapped' = [mapped EXCEPT ![p] = 1]
  /\ blockAllocated' = 2
  /\ written' = 2
  /\ UNCHANGED <<exists, lockFile, shm, own>>

Publish(p) ==
  /\ Goto(p, "publish", "open")
  /\ lockFile' = TRUE
  /\ UNCHANGED <<exists, fileLen, blockAllocated, shm, mapped, own, written>>

(* BlockManager of the others: poll for <name>.lock, map the first page    *)
(* and look at blockAllocated.                                             *)
WaitFile(p) ==
  /\ lockFile
  /\ Goto(p, "wait_file", "attach")
  /\ UNCHANGED <<file, shm, mapped, own, written>>

AttachFile(p) ==
  /\ Goto(p, "attach", "check")
  /\ fileLen' = Larger(fileLen, BlocksPerPage)
  /\ mapped' = [mapped EXCEPT ![p] = 1]
  /\ UNCHANGED <<exists, blockAllocated, lockFile, shm, own, written>>

CheckSuper(p) ==
  /\ Goto(p, "check", IF blockAllocated > 0 THEN "open" ELSE "failed")
  /\ UNCHANGED <<file, shm, mapped, own, written>>

-----------------------------------------------------------------------------
(* A writer takes a block, makes room for it and writes it.                *)
Allocate(p) ==
  /\ blockAllocated < MaxBlocks
  /\ Goto(p, "open", "extend")
  /\ own' = [own EXCEPT ![p] = blockAllocated]
  /\ blockAllocated' = blockAllocated + 1
  /\ UNCHANGED <<exists, fileLen, lockFile, shm, mapped, written>>

Extend(p) ==
  /\ Goto(p, "extend", "touch")
  /\ LET page == own[p] \div BlocksPerPage
         next == IF page < mapped[p] THEN mapped[p] ELSE Larger(page + 1, 2 * mapped[p])
     IN /\ mapped' = [mapped EXCEPT ![p] = next]
        /\ fileLen' = IF page < mapped[p] THEN fileLen
                      ELSE Larger(fileLen, next * BlocksPerPage)
  /\ UNCHANGED <<exists, blockAllocated, lockFile, shm, own, written>>

(* Touching the mapping beyond the end of the file raises SIGBUS.          *)
Touch(p) ==
  /\ Goto(p, "touch", IF own[p] < fileLen THEN "open" ELSE "failed")
  /\ written' = IF own[p] < fileLen THEN Larger(written, own[p] + 1) ELSE written
  /\ UNCHANGED <<file, shm, mapped, own>>

-----------------------------------------------------------------------------
(* The destructor: fetch_add(-1), and whoever saw 1 cuts the file.         *)
DecCounter(p) ==
  /\ LateJoin \/ \A q \in Writers : pc[q] \in Inside \cup Closing \cup Ended
  /\ Goto(p, "open", IF counter = 1 THEN "size" ELSE "detach")
  /\ counter' = counter - 1
  /\ UNCHANGED <<file, counterId, lockId, mapped, own, written>>

LoadAllocated(p) ==
  /\ Goto(p, "size", "truncate")
  /\ own' = [own EXCEPT ![p] = blockAllocated]
  /\ UNCHANGED <<file, shm, mapped, written>>

Truncate(p) ==
  /\ Goto(p, "truncate", "detach")
  /\ fileLen' = own[p]
  /\ UNCHANGED <<exists, blockAllocated, lockFile, shm, mapped, own, written>>

(* ~ShmCounter removes the ready sign, then the counter; then the mapping  *)
(* goes.                                                                   *)
RemoveReady(p) ==
  /\ Goto(p, "detach", "remove")
  /\ lockId' = "removed"
  /\ UNCHANGED <<file, counterId, counter, mapped, own, written>>

RemoveCounter(p) ==
  /\ Goto(p, "remove", "closed")
  /\ counterId' = "removed"
  /\ mapped' = [mapped EXCEPT ![p] = 0]
  /\ UNCHANGED <<file, lockId, counter, own, written>>

-----------------------------------------------------------------------------
(* READ mode: neither the ready sign nor the .lock file is looked at, the  *)
(* length is read once and the whole file mapped, and an empty file cannot *)
(* be mapped. (A page whose super block is not written yet fails the cast  *)
(* of 451, with the same outcome: InitSuper makes both in one step.) open  *)
(* has O_CREAT here too: a reader that comes before the writers leaves an  *)
(* empty file, of which nobody is the creator. own keeps what had been     *)
(* written by then (a history value).                                      *)
OpenRead(p) ==
  /\ p \in Readers
  /\ Goto(p, "none", IF ~exists THEN "orphaned" ELSE IF fileLen = 0 THEN "failed" ELSE "open")
  /\ exists' = TRUE
  /\ mapped' = [mapped EXCEPT ![p] = (fileLen + BlocksPerPage - 1) \div BlocksPerPage]
  /\ own' = [own EXCEPT ![p] = written]
  /\ UNCHANGED <<fileLen, blockAllocated, lockFile, shm, written>>

CloseRead(p) ==
  /\ p \in Readers
  /\ Goto(p, "open", "closed")
  /\ mapped' = [mapped EXCEPT ![p] = 0]
  /\ UNCHANGED <<file, shm, own, written>>

(* A killed writer leaves the file and the segments as they are.           *)
Kill(p) ==
  /\ pc[p] \notin {"none"} \cup Ended
  /\ pc' = [pc EXCEPT ![p] = "killed"]
  /\ mapped' = [mapped EXCEPT ![p] = 0]
  /\ UNCHANGED <<file, shm, own, written>>

OpenStep(p) ==
  \/ CreateCounter(p) \/ ZeroCounter(p) \/ CreateReady(p)
  \/ WaitReady(p) \/ AttachCounter(p)
  \/ IncCounter(p)
  \/ InitSuper(p) \/ Publish(p)
  \/ WaitFile(p) \/ AttachFile(p) \/ CheckSuper(p)

WriteStep(p) == Extend(p) \/ Touch(p)

CloseStep(p) == LoadAllocated(p) \/ Truncate(p) \/ RemoveReady(p) \/ RemoveCounter(p)

Next ==
  \/ \E p \in Writers :
       OpenFile(p) \/ OpenStep(p) \/ Allocate(p) \/ WriteStep(p) \/ DecCounter(p) \/ CloseStep(p)
  \/ \E p \in Readers : OpenRead(p) \/ CloseRead(p)
  \/ \E p \in Killable : Kill(p)

Spec == Init /\ [][Next]_vars

(* A call that was entered goes on; nobody has to open, write or close.    *)
FairSpec ==
  Spec /\ \A p \in Writers : WF_vars(OpenStep(p)) /\ WF_vars(WriteStep(p)) /\ WF_vars(CloseStep(p))

-----------------------------------------------------------------------------
Keys == {"absent", "live", "removed"}

TypeOK ==
  /\ exists \in BOOLEAN /\ lockFile \in BOOLEAN
  /\ fileLen \in Nat /\ blockAllocated \in Nat /\ written \in Nat
  /\ counterId \in Keys /\ lockId \in Keys
  /\ counter \in Nat
  /\ pc \in [Procs -> {"none"} \cup Opening \cup Inside \cup Closing \cup Ended]
  /\ mapped \in [Procs -> Nat]
  /\ own \in [Procs -> Nat]

(* The counter never falls below the number of processes inside, so that   *)
(* no closing process takes itself for the last one too early: no joiner   *)
(* counts itself before the counter has been zeroed                        *)
(* (fsl_lib.cpp:65-76, 387).                                               *)
CounterCoversOpen == counter >= Cardinality(Counted)

(* No constructor of a writer throws or fails its assertion, and no write  *)
(* hits the missing end of the file: the counter is still there after the  *)
(* ready sign, and the super block has been written when the .lock file is *)
(* there. The constructor of a reader fails only if nothing had been       *)
(* written when it opened the file, so never once the .lock file is there, *)
(* whoever has truncated since (fsl_lib.cpp:72-86, 349-366, 389, 433-450). *)
NobodyFails ==
  /\ \A p \in Writers : pc[p] # "failed"
  /\ \A p \in Readers : pc[p] \in {"failed", "orphaned"} => own[p] = 0

(* The truncation of the last closing process keeps every block anybody    *)
(* has written ("avoid truncate the file while other process is still      *)
(* flushing records", fsl_lib.cpp:383-390).                                *)
WrittenIsKept == written <= fileLen

(* No process works on a mapping that extends beyond the file, whoever     *)
(* truncates it meanwhile, and a reader reaches every block written before *)
(* it opened the file (fsl_lib.cpp:156-183, 349-356, 389).                 *)
MappingsAreBacked ==
  /\ \A p \in Writers : pc[p] \in Inside => mapped[p] * BlocksPerPage <= fileLen
  /\ \A p \in Readers : pc[p] = "open" =>
       own[p] <= fileLen /\ own[p] <= mapped[p] * BlocksPerPage

(* When all have closed, the file ends with its last allocated block: one  *)
(* of them did see the counter at 1, and no later one had allocated more   *)
(* (fsl_lib.cpp:385-392).                                                  *)
ClosedFileIsTrimmed ==
  (\A p \in Writers : pc[p] = "closed") => fileLen = blockAllocated

(* No process waits for ever for the ready sign or the .lock file, as long *)
(* as none is killed and no reader came before all of them, so that there  *)
(* is a creator (fsl_lib.cpp:73-75, 332-342, 435-439).                     *)
OpenReturns ==
  \A p \in Writers :
    pc[p] \in Opening ~> \/ pc[p] \notin Opening
                        \/ \E q \in Procs : pc[q] \in {"killed", "orphaned"}

=============================================================================
