---------------------------- MODULE DataSection ----------------------------
(***************************************************************************)
(* The data sections of a file and the threads of one process that write   *)
(* them: BlockManager::writeDataSection, loadDataBlock and                 *)
(* allocateAtDataSection (lib/pse/src/fsl/fsl_lib.cpp), RawDataSection and *)
(* RawStringSection (lib/pse/include/fsl/raw_backend.h).                   *)
(*                                                                         *)
(* Every section has one writer, as in the record writer: a section lies   *)
(* in the directory of one thread. The spin lock of a section, taken and   *)
(* released inside loadDataBlock(n), has no second contender and is left   *)
(* out. Writers meet in the block counter and in the mapping of the        *)
(* process; loading a block is one step here (SectionFile has its steps).  *)
(* The ids of the blocks of a section lie where BlockIndex says; the index *)
(* blocks are allocated one by one, as they are met.                       *)
(*                                                                         *)
(* A block holds BlockSize cells. The cell written for position p of       *)
(* section s is <<s, p>>; a caller's buffer is the row of cells from the   *)
(* position its call was given, so that copying from the wrong place of    *)
(* the buffer or to the wrong place of the file shows.                     *)
(***************************************************************************)
EXTENDS BlockIndex, FiniteSets

CONSTANTS
  Secs,           (* the sections, and their writers                      *)
  BlockSize,      (* BLOCK_SIZE, in cells                                 *)
  BlocksPerPage,  (* BLOCKS_PER_PAGE                                      *)
  HeaderLen,      (* what RawDataSection writes at the beginning, and ... *)
  HeadLength,     (* ... where its records begin (HEAD_LENGTH)            *)
  Lens,           (* lengths of the writes                                *)
  Word,           (* 2^64, the range of a size_t                          *)
  Beyond,         (* TRUE: positioned writes may end behind the section   *)
  Offsets,        (* where positioned writes begin                        *)
  MaxSize         (* bound: cells of a section                            *)

ASSUME DataSectionAssumption ==
  /\ IsFiniteSet(Secs)
  /\ BlockSize \in Nat \ {0} /\ BlocksPerPage \in Nat \ {0}
  /\ HeaderLen \in 1 .. HeadLength /\ HeadLength \in Nat
  /\ Lens \subseteq Nat \ {0}
  /\ Beyond \in BOOLEAN /\ Word \in Nat \ 0 .. MaxSize
  /\ Offsets \subseteq Nat /\ MaxSize \in Nat
  /\ MaxSize \div BlockSize < Capacity

VARIABLES
  sectionSize,     (* DataSectionDescBlock::sectionSize                   *)
  direct,          (* DataSectionDescBlock::direct, for each section      *)
  indirects,       (* DataSectionDescBlock::indirects                     *)
  blockIds,        (* NoDescIndirectBlock::blockIds of each index block   *)
  blockAllocated,  (* SuperBlock::blockAllocated                          *)
  mapedEnd,        (* pages mapped by the process                         *)
  data,            (* the cells of the file                               *)
  pc,              (* where each writer is                                *)
  offset, len,     (* the locals of writeDataSection                      *)
  buf,             (* the position the next cell of the buffer is for     *)
  blk, num,        (* the block loaded, and how many follow it            *)
  i,               (* the local of loadDataBlock(n): the entries it has   *)
                   (* seen; 0 before it has found its first block         *)
  fresh,           (* TRUE: the entries are to be set, else compared      *)
  todo,            (* cells of a string its second write will bring       *)
  filled           (* history: positions copied so far                    *)

tree == <<direct, indirects, blockIds>>
call == <<pc, offset, len, buf, todo>>
vars == <<sectionSize, tree, blockAllocated, mapedEnd, data, call, blk, num, i, fresh,
          filled>>

Empty == <<>>

Smaller(a, b) == IF a < b THEN a ELSE b
Larger(a, b)  == IF a < b THEN b ELSE a

upperBlockNum(n) == (n + BlockSize - 1) \div BlockSize
Index(o)         == o \div BlockSize
Page(b)          == b \div BlocksPerPage
Indices          == 0 .. Index(MaxSize)

(* The super block, the root and the description of each section come      *)
(* first.                                                                  *)
FirstBlock == 2 + Cardinality(Secs)
NoIds      == [w \in 0 .. Fan - 1 |-> 0]

(* mapedEnd after load() of block b.                                       *)
Loaded(b) == IF Page(b) < mapedEnd THEN mapedEnd ELSE Larger(Page(b) + 1, 2 * mapedEnd)

(* atomic_ref::compare_exchange: the value afterwards.                     *)
CompareExchange(cur, expected, desired) == IF cur = expected THEN desired ELSE cur

Goto(s, from, to) == pc[s] = from /\ pc' = [pc EXCEPT ![s] = to]

Init ==
  /\ sectionSize = [s \in Secs |-> 0]
  /\ direct = [s \in Secs |-> [e \in 0 .. Direct - 1 |-> 0]]
  /\ indirects = [s \in Secs |-> [l \in 1 .. Levels |-> 0]]
  /\ blockIds = [b \in {} |-> NoIds]
  /\ blockAllocated = FirstBlock
  /\ mapedEnd = Page(FirstBlock - 1) + 1
  /\ data = [c \in {} |-> Empty]
  /\ pc = [s \in Secs |-> "idle"]
  /\ offset = [s \in Secs |-> 0] /\ len = [s \in Secs |-> 0] /\ buf = [s \in Secs |-> 0]
  /\ blk = [s \in Secs |-> 0] /\ num = [s \in Secs |-> 0]
  /\ i = [s \in Secs |-> 0] /\ fresh = [s \in Secs |-> FALSE]
  /\ todo = [s \in Secs |-> 0]
  /\ filled = [s \in Secs |-> {}]

(* The beginning of a write of n cells at o, and the file it leaves alone. *)
Enter(s, o, n) ==
  /\ offset' = [offset EXCEPT ![s] = o]
  /\ len' = [len EXCEPT ![s] = n]
  /\ buf' = [buf EXCEPT ![s] = o]
  /\ UNCHANGED <<tree, blockAllocated, mapedEnd, data, blk, num, i, fresh, filled>>

(* Its end: the locals are gone.                                           *)
Leave(s) ==
  /\ offset' = [offset EXCEPT ![s] = 0]
  /\ buf' = [buf EXCEPT ![s] = 0]
  /\ UNCHANGED <<tree, blockAllocated, mapedEnd, data, len, blk, num, i, fresh, filled>>

-----------------------------------------------------------------------------
(* Faulty variants: what the properties below must notice.                 *)
CopyLen_WholeBlocks(s) ==   \* the std::min with the remaining length is gone
  num[s] * BlockSize - (offset[s] % BlockSize)

CopyLen_Short(s) ==         \* the last cell of a block is left out
  Smaller(len[s], num[s] * BlockSize - (offset[s] % BlockSize) - 1)

FetchAdd_One(n) == blockAllocated' = blockAllocated + 1   \* whatever is asked for

Continuous_All(n, b) == n   \* the run is not cut at the end of the page

Copy_SameBuffer(s) ==       \* buf is not moved on after a copy
  LET to == blk[s] * BlockSize + (offset[s] % BlockSize)
      n  == Smaller(len[s], num[s] * BlockSize - (offset[s] % BlockSize))
  IN
  /\ num[s] > 0
  /\ data' = [c \in DOMAIN data \cup to .. to + n - 1 |->
              IF c \in to .. to + n - 1 THEN <<s, buf[s] + c - to>> ELSE data[c]]
  /\ filled' = [filled EXCEPT ![s] = @ \cup offset[s] .. offset[s] + n - 1]
  /\ offset' = [offset EXCEPT ![s] = @ + n]
  /\ len' = [len EXCEPT ![s] = @ - n]
  /\ blk' = [blk EXCEPT ![s] = 0]
  /\ num' = [num EXCEPT ![s] = 0]
  /\ UNCHANGED <<sectionSize, tree, blockAllocated, mapedEnd, buf, pc, todo, i, fresh>>

-----------------------------------------------------------------------------
(* allocateBlock: the fetch_add, ...                                       *)
FetchAdd(n) == blockAllocated' = blockAllocated + n

(* ... and how many of the n blocks from b on lie on the page of b.        *)
Continuous(n, b) == Smaller(n, BlocksPerPage - (b % BlocksPerPage))

-----------------------------------------------------------------------------
(* writeDataSectionAtEnd: fetch_add on the size.                           *)
Append(s, n) ==
  /\ sectionSize[s] + n <= MaxSize
  /\ Goto(s, "idle", "write")
  /\ sectionSize' = [sectionSize EXCEPT ![s] = @ + n]
  /\ Enter(s, sectionSize[s], n)
  /\ UNCHANGED todo

(* The constructor of RawDataSection appends its header to an empty        *)
(* section, ...                                                            *)
OpenData(s) ==
  /\ sectionSize[s] = 0 /\ HeadLength <= MaxSize
  /\ Goto(s, "idle", "header")
  /\ sectionSize' = [sectionSize EXCEPT ![s] = HeaderLen]
  /\ Enter(s, 0, HeaderLen)
  /\ UNCHANGED todo

(* ... whose size it then sets: the cells between are never written.       *)
SetHead(s) ==
  /\ len[s] = 0
  /\ Goto(s, "header", "idle")
  /\ sectionSize' = [sectionSize EXCEPT ![s] = HeadLength]
  /\ Leave(s)
  /\ UNCHANGED <<todo>>

(* RawStringSection::write takes room for the length and the n characters  *)
(* and writes the length there; ...                                        *)
WriteString(s, n) ==
  /\ sectionSize[s] + 1 + n <= MaxSize
  /\ Goto(s, "idle", "write")
  /\ sectionSize' = [sectionSize EXCEPT ![s] = @ + 1 + n]
  /\ Enter(s, sectionSize[s], 1)
  /\ todo' = [todo EXCEPT ![s] = n]

(* ... then the characters. (Both are positioned writes inside the size.)  *)
WriteCharacters(s) ==
  /\ len[s] = 0 /\ todo[s] > 0
  /\ Goto(s, "write", "write")
  /\ Enter(s, offset[s], todo[s])
  /\ todo' = [todo EXCEPT ![s] = 0]
  /\ UNCHANGED sectionSize

(* writeDataSection at a given offset. The arguments of its                *)
(* compare_exchange_weak(v, t) are in the wrong order.                     *)
WriteAt(s, o, n) ==
  /\ Beyond \/ o + n <= sectionSize[s]
  /\ o + n <= MaxSize
  /\ Goto(s, "idle", "write")
  /\ LET t == sectionSize[s]
         v == o + n
     IN sectionSize' = [sectionSize EXCEPT ![s] = IF v > t THEN CompareExchange(t, v, t) ELSE t]
  /\ Enter(s, o, n)
  /\ UNCHANGED todo

-----------------------------------------------------------------------------
(* The walk to the word of entry e of section s: the index blocks on its   *)
(* path, then the block itself; 0 where the next one is missing.           *)
Walk[w \in Secs \X Indices \X (0 .. Levels)] ==
  LET s == w[1]  e == w[2]  k == w[3]
      above == Walk[<<s, e, k - 1>>]
  IN  CASE k = 0 /\ Level[e] = 0 -> direct[s][e]
        [] k = 0 /\ Level[e] > 0 -> indirects[s][Level[e]]
        [] k \in 1 .. Level[e]   -> IF above = 0 THEN 0 ELSE blockIds[above][topEntryId[e][k]]
        [] OTHER                 -> 0

Entry(s, e)   == Walk[<<s, e, Level[e]>>]
HasPath(s, e) == \A k \in 0 .. Level[e] - 1 : Walk[<<s, e, k>>] # 0

(* Block b becomes the k-th on the way to entry e, in one of the ids.      *)
SetWord(s, e, k, b, ids) ==
  LET l == Level[e] IN
  /\ direct' = IF l = 0 THEN [direct EXCEPT ![s][e] = b] ELSE direct
  /\ indirects' = IF l > 0 /\ k = 0 THEN [indirects EXCEPT ![s][l] = b] ELSE indirects
  /\ blockIds' = IF k = 0 THEN ids ELSE [ids EXCEPT ![Walk[<<s, e, k - 1>>]][topEntryId[e][k]] = b]

Enters(s, e, b) == SetWord(s, e, Level[e], b, blockIds)

-----------------------------------------------------------------------------
Writing(s) == pc[s] \in {"write", "header"} /\ len[s] > 0 /\ num[s] = 0
Single(s)  == offset[s] % BlockSize # 0 \/ len[s] <= BlockSize
Asked(s)   == IF Single(s) THEN 1 ELSE upperBlockNum(len[s])

(* getDataBlockId is on its way to an entry of the call in progress, ...   *)
Sought(s) == Index(offset[s]) + i[s]
Looks(s)  == Writing(s) /\ i[s] < Asked(s)

(* ... where an index block is missing, which is allocated, or ...         *)
AllocateIndex(s) ==
  LET e == Sought(s) IN
  /\ Looks(s) /\ ~HasPath(s, e)
  /\ LET k == CHOOSE k \in 0 .. Level[e] - 1 :
               Walk[<<s, e, k>>] = 0 /\ \A j \in 0 .. k - 1 : Walk[<<s, e, j>>] # 0
         new == [b \in DOMAIN blockIds \cup {blockAllocated} |->
                   IF b = blockAllocated THEN NoIds ELSE blockIds[b]]
     IN  SetWord(s, e, k, blockAllocated, new)
  /\ FetchAdd(1)
  /\ mapedEnd' = Loaded(blockAllocated)
  /\ UNCHANGED <<sectionSize, data, call, blk, num, i, fresh, filled>>

(* ... which it has found. (The index blocks on the path are loaded too;   *)
(* they have been since this process allocated them.)                      *)
Finds(s) == Looks(s) /\ HasPath(s, Sought(s))

(* loadDataBlock(offset): the block is there and is loaded, ...            *)
LoadOne(s) ==
  LET e == Sought(s) IN
  /\ Finds(s) /\ Single(s) /\ Entry(s, e) # 0
  /\ blk' = [blk EXCEPT ![s] = Entry(s, e)]
  /\ num' = [num EXCEPT ![s] = 1]
  /\ mapedEnd' = Loaded(Entry(s, e))
  /\ UNCHANGED <<sectionSize, tree, blockAllocated, data, call, i, fresh, filled>>

(* ... or a new one is allocated and entered.                              *)
AllocateOne(s) ==
  LET e == Sought(s) IN
  /\ Finds(s) /\ Single(s) /\ Entry(s, e) = 0
  /\ FetchAdd(1)
  /\ Enters(s, e, blockAllocated)
  /\ blk' = [blk EXCEPT ![s] = blockAllocated]
  /\ num' = [num EXCEPT ![s] = 1]
  /\ mapedEnd' = Loaded(blockAllocated)
  /\ UNCHANGED <<sectionSize, data, call, i, fresh, filled>>

(* loadDataBlock(offset, n) of a write that is longer than a block: n new  *)
(* blocks in a row are allocated and entered, and those on the page of the *)
(* first one are returned; ...                                             *)
AllocateRun(s) ==
  LET e == Sought(s) IN
  /\ Finds(s) /\ ~Single(s) /\ i[s] = 0 /\ Entry(s, e) = 0
  /\ FetchAdd(Asked(s))
  /\ Enters(s, e, blockAllocated)
  /\ blk' = [blk EXCEPT ![s] = blockAllocated]
  /\ mapedEnd' = Loaded(blockAllocated)
  /\ i' = [i EXCEPT ![s] = 1] /\ fresh' = [fresh EXCEPT ![s] = TRUE]
  /\ UNCHANGED <<sectionSize, data, call, num, filled>>

EnterNext(s) ==
  LET e    == Sought(s)
      last == i[s] + 1 = Asked(s)
  IN
  /\ Finds(s) /\ fresh[s]
  /\ Enters(s, e, blk[s] + i[s])
  /\ i' = [i EXCEPT ![s] = IF last THEN 0 ELSE @ + 1]
  /\ num' = [num EXCEPT ![s] = IF last THEN Continuous(Asked(s), blk[s]) ELSE 0]
  /\ fresh' = [fresh EXCEPT ![s] = ~last]
  /\ UNCHANGED <<sectionSize, blockAllocated, mapedEnd, data, call, blk, filled>>

(* ... or its first block is there already: it is loaded, and as many      *)
(* blocks are returned as follow it in the file, on whatever page.         *)
LoadRun(s) ==
  LET e == Sought(s) IN
  /\ Finds(s) /\ ~Single(s) /\ i[s] = 0 /\ Entry(s, e) # 0
  /\ blk' = [blk EXCEPT ![s] = Entry(s, e)]
  /\ mapedEnd' = Loaded(Entry(s, e))
  /\ i' = [i EXCEPT ![s] = 1]
  /\ UNCHANGED <<sectionSize, tree, blockAllocated, data, call, num, fresh, filled>>

CompareNext(s) ==
  LET e       == Sought(s)
      follows == Entry(s, e) = blk[s] + i[s]
      more    == follows /\ i[s] + 1 < Asked(s)
  IN
  /\ Finds(s) /\ i[s] > 0 /\ ~fresh[s]
  /\ i' = [i EXCEPT ![s] = IF more THEN @ + 1 ELSE 0]
  /\ num' = [num EXCEPT ![s] = IF more THEN 0 ELSE IF follows THEN Asked(s) ELSE i[s]]
  /\ UNCHANGED <<sectionSize, tree, blockAllocated, mapedEnd, data, call, blk, fresh, filled>>

-----------------------------------------------------------------------------
(* The memcpy: to the end of the block, of the run or of the data.         *)
CopyLen(s) == Smaller(len[s], num[s] * BlockSize - (offset[s] % BlockSize))

Copy(s) ==
  LET to == blk[s] * BlockSize + (offset[s] % BlockSize)
      n  == CopyLen(s)
  IN
  /\ num[s] > 0
  /\ data' = [c \in DOMAIN data \cup to .. to + n - 1 |->
              IF c \in to .. to + n - 1 THEN <<s, buf[s] + c - to>> ELSE data[c]]
  /\ filled' = [filled EXCEPT ![s] = @ \cup offset[s] .. offset[s] + n - 1]
  /\ offset' = [offset EXCEPT ![s] = @ + n]
  /\ buf' = [buf EXCEPT ![s] = @ + n]
  /\ len' = [len EXCEPT ![s] = @ - n]
  /\ blk' = [blk EXCEPT ![s] = 0]
  /\ num' = [num EXCEPT ![s] = 0]
  /\ UNCHANGED <<sectionSize, tree, blockAllocated, mapedEnd, pc, todo, i, fresh>>

Done(s) ==
  /\ len[s] = 0 /\ todo[s] = 0
  /\ Goto(s, "write", "idle")
  /\ Leave(s)
  /\ UNCHANGED <<sectionSize, todo>>

LoadStep(s) ==
  \/ AllocateIndex(s) \/ LoadOne(s) \/ AllocateOne(s)
  \/ AllocateRun(s) \/ EnterNext(s) \/ LoadRun(s) \/ CompareNext(s)

WriteStep(s) == LoadStep(s) \/ Copy(s) \/ SetHead(s) \/ WriteCharacters(s) \/ Done(s)

Next ==
  \/ \E s \in Secs :
       \/ OpenData(s)
       \/ \E n \in Lens : Append(s, n) \/ WriteString(s, n)
       \/ \E n \in Lens, o \in Offsets : WriteAt(s, o, n)
       \/ WriteStep(s)

Spec == Init /\ [][Next]_vars

(* A write that was begun goes on.                                         *)
FairSpec == Spec /\ \A s \in Secs : WF_vars(WriteStep(s))

-----------------------------------------------------------------------------
(* readDataSection: the length is cut with unsigned arithmetic, the cells  *)
(* are those of the blocks entered.                                        *)
ReadLen(s, o, n) == Smaller(n, (sectionSize[s] - o) % Word)

Cell(s, p) ==
  LET c == Entry(s, Index(p)) * BlockSize + (p % BlockSize)
  IN  IF HasPath(s, Index(p)) /\ Entry(s, Index(p)) # 0 /\ c \in DOMAIN data THEN data[c] ELSE Empty

Read(s, o, n) == [j \in 1 .. ReadLen(s, o, n) |-> Cell(s, o + j - 1)]

Words ==
  ({"direct"} \X Secs \X (0 .. Direct - 1)) \cup ({"indirects"} \X Secs \X (1 .. Levels))
    \cup ({"blockIds"} \X (DOMAIN blockIds) \X (0 .. Fan - 1))

IdAt(w) ==
  CASE w[1] = "direct"    -> direct[w[2]][w[3]]
    [] w[1] = "indirects" -> indirects[w[2]][w[3]]
    [] w[1] = "blockIds"  -> blockIds[w[2]][w[3]]

TypeOK ==
  /\ sectionSize \in [Secs -> 0 .. MaxSize]
  /\ direct \in [Secs -> [0 .. Direct - 1 -> Nat]]
  /\ indirects \in [Secs -> [1 .. Levels -> Nat]]
  /\ blockIds \in [DOMAIN blockIds -> [0 .. Fan - 1 -> Nat]]
  /\ blockAllocated \in Nat /\ mapedEnd \in Nat
  /\ data \in [DOMAIN data -> Secs \X Nat]
  /\ pc \in [Secs -> {"idle", "write", "header"}]
  /\ offset \in [Secs -> Nat] /\ len \in [Secs -> Nat] /\ buf \in [Secs -> Nat]
  /\ blk \in [Secs -> Nat] /\ num \in [Secs -> Nat] /\ todo \in [Secs -> Nat]
  /\ i \in [Secs -> Nat] /\ fresh \in [Secs -> BOOLEAN]
  /\ filled \in [Secs -> SUBSET (0 .. MaxSize)]

(* What a writer has written is what readDataSection returns for the same  *)
(* place, in full and whatever the other sections did meanwhile:           *)
(* fsl_mt_large_test.cpp:69-83 and fsl_large_file_test.cpp:76-83 write a   *)
(* section piece by piece and compare what they read                       *)
(* (fsl_lib.cpp:541-647).                                                  *)
WrittenIsReadable ==
  \A s \in Secs : pc[s] = "idle" =>
    \A o \in filled[s], n \in Lens : o .. o + n - 1 \subseteq filled[s] =>
      Read(s, o, n) = [j \in 1 .. n |-> <<s, o + j - 1>>]

(* No block belongs to two places, although sections take single blocks,   *)
(* runs and index blocks from one counter and others do between any two of *)
(* them: no two words of sections and index blocks hold the same id        *)
(* (fsl_lib.cpp:804-892).                                                  *)
BlocksAreDisjoint ==
  LET held == {w \in Words : IdAt(w) # 0}
  IN  Cardinality({IdAt(w) : w \in held}) = Cardinality(held)

(* memcpy only touches pages the process has mapped, however the blocks of *)
(* a write are spread over pages (fsl_lib.cpp:566-600, 872-905).           *)
CopyIsMapped ==
  \A s \in Secs : num[s] > 0 =>
    Page(blk[s] + ((offset[s] % BlockSize) + CopyLen(s) - 1) \div BlockSize) < mapedEnd

(* Every write ends: each turn of its loop copies something                *)
(* (fsl_lib.cpp:566-600).                                                  *)
WriteReturns == \A s \in Secs : pc[s] # "idle" ~> pc[s] = "idle"

=============================================================================
