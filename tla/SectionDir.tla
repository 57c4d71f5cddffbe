----------------------------- MODULE SectionDir -----------------------------
(***************************************************************************)
(* One directory section and the threads of all processes that open its    *)
(* sub-sections: BlockManager::openSection and findEntry, and              *)
(* DirSectionIterator (lib/pse/src/fsl/fsl_lib.cpp, include/fsl/fsl_lib.h).*)
(*                                                                         *)
(* A directory is a row of slots <<desc, blockId>>: Direct of them in its  *)
(* own block, the others in DescIndirectBlocks of Entries slots ("tables") *)
(* that are allocated and linked one after the other. The NoDescIndirect   *)
(* blocks of levels 2 and 3 only say which table is the next one and are   *)
(* left out. Opening with create, and getSectionType, hold the spin lock   *)
(* of the directory; opening without create reads the slots unlocked.      *)
(*                                                                         *)
(* A block id is a packed uint48_t, stored and loaded as two halves. An    *)
(* unlocked reader may combine the halves of the old and the new id: when  *)
(* the store, or a half of it, comes between its two loads. Here the store *)
(* is one step and the load is two.                                        *)
(***************************************************************************)
EXTENDS Integers, FiniteSets

CONSTANTS
  Threads,     (* threads, of any process                                 *)
  Ops,         (* the calls they may make: [mode, kind, desc]             *)
  Direct,      (* DirSectionDescBlock::ENTRY_NUM                          *)
  Entries,     (* DescIndirectBlock::ENTRY_NUM                            *)
  MaxTables,   (* tables that three levels can address                    *)
  Half,        (* 2^16: ids from here on have a non-zero upper half       *)
  Killable     (* threads that may be killed at any moment                *)

Modes == {"create", "lookup", "type"}
Kinds == {"dir", "data"}

ASSUME SectionDirAssumption ==
  /\ Ops \subseteq [mode : Modes, kind : Kinds, desc : Nat]
  /\ Direct \in Nat \ {0} /\ Entries \in Nat \ {0} /\ MaxTables \in Nat
  /\ Half \in Nat \ {0}
  /\ Killable \subseteq Threads

VARIABLES
  slots,        (* the entries, in the order findEntry visits them        *)
  tables,       (* DescIndirectBlocks linked so far                       *)
  atomic_lock,  (* DirSectionDescBlock::atomic_lock                       *)
  blocks,       (* the blocks of the file: their kind and self_desc       *)
  pc,           (* where each thread is                                   *)
  op,           (* its call                                               *)
  pos,          (* the slot findEntry looks at                            *)
  val,          (* the block id as it was when its first half was read    *)
  out,          (* what the call will return                              *)
  late          (* history: the section was there when the call began     *)

vars == <<slots, tables, atomic_lock, blocks, pc, op, pos, val, out, late>>
disk == <<slots, tables, atomic_lock, blocks>>

Slots   == Direct + MaxTables * Entries
Visible == Direct + tables * Entries

(* The first slot of the table after the one slot i lies in.               *)
NextTable(i) == Direct + ((i - Direct - 1) \div Entries + 1) * Entries + 1

(* Values a reader can compose from an old and a new block id.             *)
Torn(old, new) ==
  {(old \div Half) * Half + (new % Half), (new \div Half) * Half + (old % Half)}

NoOp == [mode |-> "none", kind |-> "dir", desc |-> 0]
Free == [desc |-> 0, blockId |-> 0]

Creates(t) == op[t].mode = "create"
Locks(t)   == op[t].mode # "lookup"
Slot(t)    == slots[pos[t]]

Goto(t, from, to) == pc[t] = from /\ pc' = [pc EXCEPT ![t] = to]

(* The call of t ends with outcome r; the lock guard unlocks on the way.   *)
Finish(t, from, r) ==
  /\ Goto(t, from, IF Locks(t) THEN "unlock" ELSE "done")
  /\ out' = [out EXCEPT ![t] = r]

(* The section of a desc, as a search that runs alone would find it.       *)
Found(d) ==
  {slots[i].blockId : i \in {j \in 1 .. Slots : slots[j].desc = d /\ d # 0}} \ {0}

(* allocate<...>(): the next block id, and the blocks with it.             *)
NewId == Cardinality(DOMAIN blocks)
WithBlock(k, d) ==
  [b \in DOMAIN blocks \cup {NewId} |-> IF b = NewId THEN [kind |-> k, desc |-> d] ELSE blocks[b]]

(* What openSection and the cast of its callers make of a non-zero id.     *)
Opened(t, id) ==
  IF id \notin DOMAIN blocks \/ blocks[id].kind \notin Kinds THEN "assertion failed"
  ELSE IF op[t].mode # "type" /\ blocks[id].kind # op[t].kind THEN "cast failed"
  ELSE "opened"

Init ==
  /\ slots = [i \in 1 .. Slots |-> Free]
  /\ tables = 0
  /\ atomic_lock = 0
  /\ blocks = [b \in {0, 1} |-> [kind |-> IF b = 0 THEN "super" ELSE "dir", desc |-> 0]]
  /\ pc = [t \in Threads |-> "idle"]
  /\ op = [t \in Threads |-> NoOp]
  /\ pos = [t \in Threads |-> 1]
  /\ val = [t \in Threads |-> 0]
  /\ out = [t \in Threads |-> [what |-> "none", id |-> 0]]
  /\ late = [t \in Threads |-> FALSE]

Nothing(what) == [what |-> what, id |-> 0]
Section(t, id) == [what |-> Opened(t, id), id |-> id]

-----------------------------------------------------------------------------
(* Faulty variants: what the properties below must notice.                 *)
Lock_NoExchange(t) ==       \* a fetch_add that nobody waits for
  /\ atomic_lock' = atomic_lock + 1
  /\ Goto(t, "lock", "scan")
  /\ UNCHANGED <<slots, tables, blocks, op, pos, val, out, late>>

Lock_Eager(t) ==            \* nobody waits for the lock
  /\ atomic_lock' = 1
  /\ Goto(t, "lock", "scan")
  /\ UNCHANGED <<slots, tables, blocks, op, pos, val, out, late>>

MissDirect_Other(t) ==      \* the search ends at the first other desc
  /\ op[t].desc # 0 /\ pos[t] <= Direct
  /\ Slot(t).desc # op[t].desc /\ ~Creates(t)
  /\ Finish(t, "scan", Nothing("null"))
  /\ UNCHANGED <<disk, op, pos, val, late>>

Full_Again(t) ==            \* whoever finds no room searches again
  /\ op[t].desc # 0 /\ pos[t] > Visible
  /\ ~Creates(t) \/ tables = MaxTables
  /\ Goto(t, "scan", "scan")
  /\ pos' = [pos EXCEPT ![t] = 1]
  /\ UNCHANGED <<disk, op, val, out, late>>

Name_Forgotten(t) ==        \* entry->desc is not written
  /\ Finish(t, "name", Section(t, Slot(t).blockId))
  /\ UNCHANGED <<disk, op, pos, val, late>>

-----------------------------------------------------------------------------
Begin(t, o) ==
  /\ Goto(t, "idle", IF o.mode = "lookup" THEN "scan" ELSE "lock")
  /\ op' = [op EXCEPT ![t] = o]
  /\ late' = [late EXCEPT ![t] = Found(o.desc) # {}]
  /\ UNCHANGED <<disk, pos, val, out>>

Lock(t) ==
  /\ atomic_lock = 0
  /\ atomic_lock' = 1
  /\ Goto(t, "lock", "scan")
  /\ UNCHANGED <<slots, tables, blocks, op, pos, val, out, late>>

(* Desc 0 marks a free slot and is refused.                                *)
NoDesc(t) ==
  /\ op[t].desc = 0
  /\ Finish(t, "scan", Nothing("null"))
  /\ UNCHANGED <<disk, op, pos, val, late>>

(* findEntry: another desc, go on; ...                                     *)
ScanNext(t) ==
  /\ op[t].desc # 0 /\ pos[t] <= Visible
  /\ Slot(t).desc \notin {0, op[t].desc}
  /\ Goto(t, "scan", "scan")
  /\ pos' = [pos EXCEPT ![t] = @ + 1]
  /\ UNCHANGED <<disk, op, val, out, late>>

(* ... the desc is there; ...                                              *)
ScanHit(t) ==
  /\ op[t].desc # 0 /\ pos[t] <= Visible
  /\ Slot(t).desc = op[t].desc
  /\ Goto(t, "scan", "first")
  /\ UNCHANGED <<disk, op, pos, val, out, late>>

(* ... a free slot: a creator takes it, and writes its desc at once when   *)
(* it is a direct one; ...                                                 *)
TakeFree(t) ==
  /\ op[t].desc # 0 /\ pos[t] <= Visible
  /\ Slot(t).desc = 0 /\ Creates(t)
  /\ Goto(t, "scan", "first")
  /\ slots' = IF pos[t] <= Direct
              THEN [slots EXCEPT ![pos[t]] = [desc |-> op[t].desc, blockId |-> 0]]
              ELSE slots
  /\ UNCHANGED <<tables, atomic_lock, blocks, op, pos, val, out, late>>

(* ... for the others a free direct slot ends the search, a free slot of a *)
(* table only the search of this table; ...                                *)
MissDirect(t) ==
  /\ op[t].desc # 0 /\ pos[t] <= Direct
  /\ Slot(t).desc = 0 /\ ~Creates(t)
  /\ Finish(t, "scan", Nothing("null"))
  /\ UNCHANGED <<disk, op, pos, val, late>>

MissTable(t) ==
  /\ op[t].desc # 0 /\ Direct < pos[t] /\ pos[t] <= Visible
  /\ Slot(t).desc = 0 /\ ~Creates(t)
  /\ Goto(t, "scan", "scan")
  /\ pos' = [pos EXCEPT ![t] = NextTable(@)]
  /\ UNCHANGED <<disk, op, val, out, late>>

(* ... behind the last table a creator links a new one; ...                *)
NewTable(t) ==
  /\ op[t].desc # 0 /\ pos[t] > Visible
  /\ Creates(t) /\ tables < MaxTables
  /\ Goto(t, "scan", "scan")
  /\ tables' = tables + 1
  /\ blocks' = WithBlock("table", 0)
  /\ UNCHANGED <<slots, atomic_lock, op, pos, val, out, late>>

(* ... and everybody else throws "dir entry is full".                      *)
Full(t) ==
  /\ op[t].desc # 0 /\ pos[t] > Visible
  /\ ~Creates(t) \/ tables = MaxTables
  /\ Finish(t, "scan", Nothing("dir entry is full"))
  /\ UNCHANGED <<disk, op, pos, val, late>>

-----------------------------------------------------------------------------
(* entry->blockId: one half is read now, the other one in the next step.   *)
ReadHalf(t) ==
  /\ Goto(t, "first", "second")
  /\ val' = [val EXCEPT ![t] = Slot(t).blockId]
  /\ UNCHANGED <<disk, op, pos, out, late>>

(* No block yet: a creator makes one, the others find nothing.             *)
Unlinked(t) ==
  /\ pc[t] = "second"
  /\ 0 \in Torn(val[t], Slot(t).blockId)
  /\ \/ Creates(t) /\ Goto(t, "second", "link") /\ UNCHANGED out
     \/ ~Creates(t) /\ Finish(t, "second", Nothing("null"))
  /\ UNCHANGED <<disk, op, pos, val, late>>

(* A block: it is loaded, checked and cast.                                *)
Linked(t) ==
  /\ pc[t] = "second"
  /\ \E id \in Torn(val[t], Slot(t).blockId) \ {0} : Finish(t, "second", Section(t, id))
  /\ UNCHANGED <<disk, op, pos, val, late>>

(* allocate<...>() and self_desc, then entry->blockId, then entry->desc.   *)
Link(t) ==
  /\ Goto(t, "link", "name")
  /\ blocks' = WithBlock(op[t].kind, op[t].desc)
  /\ slots' = [slots EXCEPT ![pos[t]].blockId = NewId]
  /\ UNCHANGED <<tables, atomic_lock, op, pos, val, out, late>>

Name(t) ==
  /\ Finish(t, "name", Section(t, Slot(t).blockId))
  /\ slots' = [slots EXCEPT ![pos[t]].desc = op[t].desc]
  /\ UNCHANGED <<tables, atomic_lock, blocks, op, pos, val, late>>

Unlock(t) ==
  /\ atomic_lock' = 0
  /\ Goto(t, "unlock", "done")
  /\ UNCHANGED <<slots, tables, blocks, op, pos, val, out, late>>

Return(t) ==
  /\ Goto(t, "done", "idle")
  /\ op' = [op EXCEPT ![t] = NoOp]
  /\ pos' = [pos EXCEPT ![t] = 1]
  /\ val' = [val EXCEPT ![t] = 0]
  /\ out' = [out EXCEPT ![t] = Nothing("none")]
  /\ late' = [late EXCEPT ![t] = FALSE]
  /\ UNCHANGED disk

Kill(t) ==
  /\ pc[t] # "dead"
  /\ pc' = [pc EXCEPT ![t] = "dead"]
  /\ UNCHANGED <<disk, op, pos, val, out, late>>

FindEntry(t) ==
  \/ NoDesc(t) \/ ScanNext(t) \/ ScanHit(t) \/ TakeFree(t) \/ MissDirect(t)
  \/ MissTable(t) \/ NewTable(t) \/ Full(t)

OpenSection(t) ==
  \/ FindEntry(t) \/ ReadHalf(t) \/ Unlinked(t) \/ Linked(t)
  \/ Link(t) \/ Name(t) \/ Unlock(t) \/ Return(t)

Next ==
  \/ \E t \in Threads : (\E o \in Ops : Begin(t, o)) \/ Lock(t) \/ OpenSection(t)
  \/ \E t \in Killable : Kill(t)

Spec == Init /\ [][Next]_vars

(* A thread inside goes on; nobody is promised the lock.                   *)
FairSpec == Spec /\ \A t \in Threads : WF_vars(OpenSection(t))

-----------------------------------------------------------------------------
Sections == {b \in DOMAIN blocks : b > 1 /\ blocks[b].kind \in Kinds}

(* The blocks DirSectionIterator yields: it starts at the first slot and   *)
(* ends at the first free one, or where no table is linked.                *)
Iterated == {slots[i].blockId : i \in {j \in 1 .. Visible : \A k \in 1 .. j : slots[k].desc # 0}}

TypeOK ==
  /\ slots \in [1 .. Slots -> [desc : Nat, blockId : Nat]]
  /\ tables \in 0 .. MaxTables
  /\ atomic_lock \in {0, 1}
  /\ blocks \in [DOMAIN blocks -> [kind : Kinds \cup {"super", "table"}, desc : Nat]]
  /\ pc \in [Threads -> {"idle", "lock", "scan", "first", "second", "link", "name",
                         "unlock", "done", "dead"}]
  /\ op \in [Threads -> Ops \cup {NoOp}]
  /\ pos \in [Threads -> 1 .. Slots + 1]
  /\ val \in [Threads -> Nat]
  /\ out \in [Threads -> [what : {"none", "opened", "null", "cast failed", "dir entry is full",
                                 "assertion failed"}, id : Nat]]
  /\ late \in [Threads -> BOOLEAN]

(* No two entries of a directory have one desc, although creators of       *)
(* several processes race for it and some of them are killed (findEntry,   *)
(* fsl_lib.cpp:649-774), and no desc gets two section blocks, of which one *)
(* would swallow records nobody finds (openSection, 461-524).              *)
OneSlotPerDesc ==
  \A i, j \in 1 .. Slots : slots[i].desc = slots[j].desc /\ slots[i].desc # 0 => i = j

OneBlockPerDesc ==
  \A b, c \in Sections : blocks[b].desc = blocks[c].desc => b = c

OneSectionPerDesc == OneSlotPerDesc /\ OneBlockPerDesc

(* "Sub-block of Directory Section must be a section block"                *)
(* (fsl_block.h:299): whenever an iteration comes by, also between the two *)
(* stores into an entry or after a creator was killed there, it yields     *)
(* sections of the directory, or the id 0 of an entry whose creator has    *)
(* still, and then for ever, the lock. And none is missed: when no call is *)
(* in progress and nobody was killed, it yields them all                   *)
(* (fsl_lib.h:239-365, fsl_lib.cpp:655-664).                               *)
IterationFindsSections ==
  /\ Iterated \subseteq Sections \cup {0}
  /\ 0 \in Iterated => atomic_lock = 1
  /\ (\A t \in Threads : pc[t] = "idle") => Iterated = Sections

(* Whoever is inside openSection comes out: the scan ends and the lock is  *)
(* passed on, also on the paths that throw (fsl_lib.cpp:461-539).          *)
HolderReturns == \A t \in Threads : pc[t] = "scan" ~> pc[t] \in {"idle", "dead"}

-----------------------------------------------------------------------------
(* What the directory promises, see Directory.                             *)
Descs == {o.desc : o \in Ops} \ {0}

NoSection == [id |-> 0, kind |-> "none"]

AbstractSections ==
  [d \in Descs |->
    IF Found(d) = {} THEN NoSection
    ELSE LET b == CHOOSE x \in Found(d) : TRUE IN [id |-> b, kind |-> blocks[b].kind]]

Room ==
  IF \E i \in 1 .. Direct : slots[i].desc = 0 THEN "own"
  ELSE IF \E i \in 1 .. Slots : slots[i].desc = 0 THEN "tables" ELSE "none"

Promise == INSTANCE Directory WITH
  sections <- AbstractSections,
  call     <- [t \in Threads |-> IF pc[t] = "dead" THEN NoOp ELSE op[t]],
  result   <- [t \in Threads |-> IF pc[t] = "dead" THEN Nothing("none") ELSE out[t]],
  Ids      <- 2 .. 1 + Slots + MaxTables,
  late     <- [t \in Threads |-> pc[t] # "dead" /\ late[t]],
  room     <- Room

(* Every behaviour of openSection is one of the abstract directory: one    *)
(* section per desc for ever, every successful open of a desc returns it,  *)
(* a lookup misses only what was not there when it began, and a creator is *)
(* refused only when every entry is taken. The directory differs from what *)
(* fsl_lib.h:149 declares in one action, RefuseLookup: where a miss should *)
(* be null, it may be the exception "dir entry is full" as soon as the     *)
(* direct entries are taken, and never before (fsl_lib.cpp:461-524,        *)
(* 649-774).                                                               *)
ImplementsDirectory == Promise!Spec

=============================================================================
