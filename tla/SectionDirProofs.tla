-------------------------- MODULE SectionDirProofs --------------------------
(***************************************************************************)
(* One desc never gets two entries or two blocks, and, as long as all      *)
(* block ids fit into the lower half of a uint48_t, openSection is one of  *)
(* the behaviours of Directory.                                            *)
(*                                                                         *)
(* Who changes a directory holds its lock and has seen all entries before  *)
(* the one it takes. The entries are filled from the front, ids never      *)
(* change once they are set, and every section block has its entry, but    *)
(* for the one a creator has linked and not yet named: if it is killed     *)
(* there, the lock stays taken and nobody creates anything any more.       *)
(***************************************************************************)
EXTENDS SectionDir, FiniteSetTheorems, TLAPS

Inside(t) == Locks(t) /\ pc[t] \in {"scan", "first", "second", "link", "name", "unlock"}

LockInv ==
  \A t \in Threads : Inside(t) =>
    atomic_lock = 1 /\ \A u \in Threads : Inside(u) => u = t

(* The blocks are numbered in a row, and every id in an entry is that of a *)
(* section.                                                                *)
LinkedSlots == {i \in 1 .. Slots : slots[i].blockId # 0}

BlocksInv ==
  /\ NewId \in Nat /\ DOMAIN blocks = 0 .. NewId - 1
  /\ NewId = 2 + tables + Cardinality(LinkedSlots)
  /\ \A b \in Sections : blocks[b].desc # 0
  /\ \A i \in LinkedSlots :
       /\ slots[i].blockId \in Sections
       /\ slots[i].desc \in {0, blocks[slots[i].blockId].desc}
       /\ \A j \in 1 .. Slots : slots[j].blockId = slots[i].blockId => i = j

(* The entries in use come first.                                          *)
RowInv ==
  /\ \A i, j \in 1 .. Slots : i < j /\ slots[j].desc # 0 => slots[i].desc # 0
  /\ \A i \in 1 .. Slots : i > Visible => slots[i].desc = 0
  /\ \A i \in 1 .. Slots : i > Direct /\ slots[i].desc # 0 => slots[i].blockId # 0

(* An entry or a block that is not finished has stopped everybody else.    *)
HalfMade ==
  \A i \in LinkedSlots : slots[i].desc = 0 =>
    atomic_lock = 1 /\ \A t \in Threads : Inside(t) => pc[t] = "name" /\ pos[t] = i

HasEntry(b) == \E i \in 1 .. Slots : slots[i] = [desc |-> blocks[b].desc, blockId |-> b]

Settled ==
  \A b \in Sections : HasEntry(b) \/
    (atomic_lock = 1 /\ \A t \in Threads : Inside(t) => pc[t] = "name" /\ slots[pos[t]].blockId = b)

CallInv(t) ==
  /\ pc[t] = "idle" => op[t] = NoOp /\ pos[t] = 1 /\ out[t] = Nothing("none") /\ ~late[t]
  /\ pc[t] \notin {"idle", "dead"} => op[t] \in Ops
  /\ pc[t] = "lock" => Locks(t) /\ pos[t] = 1
  /\ pc[t] = "unlock" => Locks(t)
  /\ pc[t] \in {"link", "name"} => Creates(t)
  /\ pc[t] \in {"first", "second", "link", "name"} => op[t].desc # 0
  /\ pc[t] \in {"lock", "scan", "first", "second", "link", "name"} => out[t] = Nothing("none")
  /\ pc[t] \in {"unlock", "done"} => out[t].what # "none"

(* What a creator knows of the entries up to the one it looks at.          *)
Ahead(t) == \A i \in 1 .. pos[t] - 1 : slots[i].desc \notin {0, op[t].desc}

CreatorInv(t) ==
  Creates(t) =>
    /\ pc[t] \in {"scan", "first", "second", "link", "name"} => Ahead(t)
    /\ pc[t] \in {"first", "second", "link", "name"} =>
         /\ pos[t] <= Visible /\ slots[pos[t]].desc \in {0, op[t].desc}
         /\ pos[t] <= Direct => slots[pos[t]].desc # 0
    /\ pc[t] = "second" => val[t] = slots[pos[t]].blockId
    /\ pc[t] = "link" => slots[pos[t]].blockId = 0
    /\ pc[t] = "name" =>
         /\ slots[pos[t]].blockId # 0
         /\ blocks[slots[pos[t]].blockId] = [kind |-> op[t].kind, desc |-> op[t].desc]

ReaderInv(t) ==
  ~Creates(t) /\ pc[t] \in {"first", "second"} =>
    /\ pos[t] <= Visible /\ slots[pos[t]].desc = op[t].desc
    /\ pc[t] = "second" => val[t] \in {0, slots[pos[t]].blockId}

(* A section that was there at the beginning of the call is still ahead.   *)
LateInv(t) ==
  late[t] =>
    /\ op[t].desc # 0
    /\ pc[t] \in {"lock", "scan"} =>
         \E i \in pos[t] .. Slots : slots[i].desc = op[t].desc /\ slots[i].blockId # 0
    /\ pc[t] = "first" => slots[pos[t]].blockId # 0
    /\ pc[t] = "second" => val[t] # 0

ThreadInv(t) == CallInv(t) /\ CreatorInv(t) /\ ReaderInv(t) /\ LateInv(t)

DiskInv == BlocksInv /\ RowInv /\ OneSlotPerDesc /\ OneBlockPerDesc

IInv ==
  /\ TypeOK /\ LockInv /\ DiskInv /\ HalfMade /\ Settled
  /\ \A t \in Threads : ThreadInv(t)

USE SectionDirAssumption

-----------------------------------------------------------------------------
(* Products of numbers that are not constants.                             *)
LEMMA Monotone ==
  ASSUME NEW a \in Nat, NEW b \in Nat, NEW c \in Nat, a <= b
  PROVE  a * c <= b * c
  OBVIOUS

LEMMA Bounds ==
  ASSUME tables \in 0 .. MaxTables
  PROVE  Slots \in Nat /\ Slots > 0 /\ Visible \in Nat /\ Visible <= Slots /\ Direct <= Visible
<1>1. tables * Entries \in Nat /\ MaxTables * Entries \in Nat  OBVIOUS
<1>2. tables * Entries <= MaxTables * Entries  BY Monotone
<1> QED BY <1>1, <1>2 DEF Slots, Visible

LEMMA TableBounds ==
  ASSUME tables \in 0 .. MaxTables, NEW i \in Nat, Direct < i, i <= Visible
  PROVE  NextTable(i) \in 1 .. Slots + 1 /\ i < NextTable(i)
<1> DEFINE x == i - Direct - 1
           q == x \div Entries
<1>1. x \in Nat /\ x < tables * Entries /\ tables * Entries \in Nat  BY DEF Visible
<1>2. q \in Nat /\ x = q * Entries + (x % Entries) /\ x % Entries \in 0 .. Entries - 1
  BY <1>1
<1> HIDE DEF q
<1>3. q < tables
  <2>1. SUFFICES ASSUME q >= tables PROVE FALSE  BY <1>2
  <2>2. tables * Entries <= q * Entries  BY <1>2, <2>1, Monotone
  <2> QED BY <1>1, <1>2, <2>2
<1>4. (q + 1) * Entries <= MaxTables * Entries
  BY <1>2, <1>3, Monotone
<1>5. (q + 1) * Entries = q * Entries + Entries /\ q * Entries \in Nat  BY <1>2
<1>6. NextTable(i) = Direct + (q + 1) * Entries + 1  BY DEF NextTable, q
<1> QED BY <1>1, <1>2, <1>4, <1>5, <1>6 DEF Slots

-----------------------------------------------------------------------------
(* Steps that leave the entries and blocks alone. They change one thread,  *)
(* and the lock.                                                           *)
Same(u) ==
  /\ pc'[u] = pc[u] /\ op'[u] = op[u] /\ pos'[u] = pos[u] /\ val'[u] = val[u]
  /\ out'[u] = out[u] /\ late'[u] = late[u]

OthersSame(t) == \A u \in Threads \ {t} : Same(u)

QuietStep(t) == UNCHANGED <<slots, tables, blocks>> /\ OthersSame(t)

KeepsLock(t) == atomic_lock' = atomic_lock /\ (Inside(t)' => Inside(t) /\ pc[t] # "name")
TakesLock(t) == atomic_lock = 0 /\ atomic_lock' = 1 /\ pc'[t] = "scan"
GivesLock(t) == Inside(t) /\ pc[t] = "unlock" /\ atomic_lock' = 0 /\ ~Inside(t)'

LEMMA QuietKeeps ==
  ASSUME IInv, NEW t \in Threads, QuietStep(t), TypeOK', ThreadInv(t)',
         KeepsLock(t) \/ TakesLock(t) \/ GivesLock(t)
  PROVE  IInv'
<1>1. DiskInv'
  BY DEF IInv, DiskInv, QuietStep, BlocksInv, RowInv, OneSlotPerDesc, OneBlockPerDesc, NewId,
         LinkedSlots, Sections, Visible, Slots
<1>2. \A u \in Threads : ThreadInv(u)'
  <2>1. SUFFICES ASSUME NEW u \in Threads \ {t} PROVE ThreadInv(u)'  OBVIOUS
  <2>2. ThreadInv(u) /\ Same(u) /\ UNCHANGED <<slots, tables, blocks>>
    BY DEF IInv, QuietStep, OthersSame
  <2>3. CallInv(u)'  BY <2>2 DEF ThreadInv, CallInv, Same, Locks, Creates, Nothing
  <2>4. CreatorInv(u)'  BY <2>2 DEF ThreadInv, CreatorInv, Same, Creates, Ahead, Visible
  <2>5. ReaderInv(u)'  BY <2>2 DEF ThreadInv, ReaderInv, Same, Creates, Visible
  <2>6. LateInv(u)'  BY <2>2 DEF ThreadInv, LateInv, Same, Slots
  <2> QED BY <2>3, <2>4, <2>5, <2>6 DEF ThreadInv
<1>3. \A u \in Threads \ {t} : Inside(u)' <=> Inside(u)
  BY DEF QuietStep, OthersSame, Same, Inside, Locks
<1>4. LockInv'
  BY <1>3 DEF IInv, LockInv, KeepsLock, TakesLock, GivesLock
<1>5. \A u \in Threads \ {t} : pc'[u] = pc[u] /\ pos'[u] = pos[u]
  BY DEF QuietStep, OthersSame, Same
<1>6. UNCHANGED <<slots, tables, blocks>>  BY DEF QuietStep
<1>7. HalfMade'
  <2>1. CASE KeepsLock(t)
    BY <1>3, <1>5, <1>6, <2>1 DEF IInv, HalfMade, KeepsLock, LinkedSlots, Slots
  <2>2. CASE TakesLock(t)
    BY <1>6, <2>2 DEF IInv, HalfMade, TakesLock, LinkedSlots, Slots
  <2>3. CASE GivesLock(t)
    BY <1>6, <2>3 DEF IInv, HalfMade, GivesLock, LinkedSlots, Slots
  <2> QED BY <2>1, <2>2, <2>3
<1>8. Settled'
  <2>1. CASE KeepsLock(t)
    BY <1>3, <1>5, <1>6, <2>1 DEF IInv, Settled, HasEntry, KeepsLock, Sections, Slots
  <2>2. CASE TakesLock(t)
    BY <1>6, <2>2 DEF IInv, Settled, HasEntry, TakesLock, Sections, Slots
  <2>3. CASE GivesLock(t)
    BY <1>6, <2>3 DEF IInv, Settled, HasEntry, GivesLock, Sections, Slots
  <2> QED BY <2>1, <2>2, <2>3
<1> QED BY <1>1, <1>2, <1>4, <1>7, <1>8 DEF IInv

-----------------------------------------------------------------------------
LEMMA RowLength ==
  ASSUME NEW n \in Nat
  PROVE  Cardinality(0 .. n - 1) = n /\ IsFiniteSet(0 .. n - 1)
<1>1. 0 \in Int /\ n - 1 \in Int  OBVIOUS
<1>2. Cardinality(0 .. n - 1) = IF 0 > n - 1 THEN 0 ELSE n - 1 - 0 + 1
  BY <1>1, FS_Interval, Zenon
<1>3. IsFiniteSet(0 .. n - 1)  BY <1>1, FS_Interval, Zenon
<1> QED BY <1>2, <1>3

LEMMA EmptyTable ==
  Init => LinkedSlots = {} /\ Cardinality(LinkedSlots) = 0 /\ NewId = 2
<1> SUFFICES ASSUME Init PROVE LinkedSlots = {} /\ Cardinality(LinkedSlots) = 0 /\ NewId = 2
  OBVIOUS
<1>1. LinkedSlots = {}  BY DEF Init, LinkedSlots, Free
<1>2. DOMAIN blocks = 0 .. 1  BY DEF Init
<1>3. Cardinality(0 .. 1) = 2
  <2>1. Cardinality(0 .. 2 - 1) = 2  BY RowLength
  <2> QED BY <2>1
<1>4. NewId = 2  BY <1>2, <1>3 DEF NewId
<1> QED BY <1>1, <1>4, FS_EmptySet

LEMMA InitIInv == Init => IInv
<1> SUFFICES ASSUME Init PROVE IInv  OBVIOUS
<1> USE DEF Init
<1>1. Slots \in Nat /\ Slots > 0 /\ tables \in 0 .. MaxTables  BY Bounds
<1>2. TypeOK  BY <1>1 DEF TypeOK, Free, NoOp, Kinds
<1>3. LockInv /\ HalfMade  BY <1>1, EmptyTable DEF LockInv, Inside, HalfMade
<1>4. Sections = {}  BY DEF Sections, Kinds
<1>5. Settled /\ BlocksInv  BY <1>4, EmptyTable DEF Settled, BlocksInv
<1>6. RowInv /\ OneSlotPerDesc /\ OneBlockPerDesc
  BY <1>4 DEF RowInv, OneSlotPerDesc, OneBlockPerDesc, Free
<1>7. \A t \in Threads : ThreadInv(t)
  BY DEF ThreadInv, CallInv, CreatorInv, ReaderInv, LateInv, Creates, NoOp, Nothing
<1> QED BY <1>2, <1>3, <1>5, <1>6, <1>7 DEF IInv, DiskInv

(* A call that begins, and the lock.                                       *)
LEMMA BeginKeeps ==
  ASSUME IInv, NEW t \in Threads, NEW o \in Ops, Begin(t, o)
  PROVE  IInv'
<1> USE DEF Begin, Goto, disk
<1>1. TypeOK /\ ThreadInv(t) /\ tables \in 0 .. MaxTables  BY DEF IInv, TypeOK
<1>2. TypeOK'  BY <1>1 DEF TypeOK
<1>3. QuietStep(t)  BY <1>1 DEF QuietStep, OthersSame, Same, TypeOK
<1>4. /\ pc'[t] = IF o.mode = "lookup" THEN "scan" ELSE "lock"
      /\ op'[t] = o /\ pos'[t] = 1 /\ out'[t] = Nothing("none") /\ late'[t] = (Found(o.desc) # {})
  BY <1>1 DEF TypeOK, ThreadInv, CallInv
<1>5. CallInv(t)'  BY <1>4 DEF CallInv, Locks, Nothing
<1>6. CreatorInv(t)' /\ ReaderInv(t)'
  BY <1>4 DEF CreatorInv, ReaderInv, Creates, Ahead
<1>7. LateInv(t)'
  <2>1. Found(o.desc) # {} =>
          o.desc # 0 /\ \E i \in 1 .. Slots : slots[i].desc = o.desc /\ slots[i].blockId # 0
    BY DEF Found
  <2>2. slots' = slots /\ pc'[t] \in {"scan", "lock"}  BY <1>4
  <2> QED BY <1>4, <2>1, <2>2 DEF LateInv, Slots
<1>8. KeepsLock(t)  BY <1>4 DEF KeepsLock, Inside, Locks
<1> QED BY <1>2, <1>3, <1>5, <1>6, <1>7, <1>8, QuietKeeps DEF ThreadInv

LEMMA LockKeeps ==
  ASSUME IInv, NEW t \in Threads, Lock(t)
  PROVE  IInv'
<1> USE DEF Lock, Goto
<1>1. TypeOK /\ ThreadInv(t) /\ tables \in 0 .. MaxTables  BY DEF IInv, TypeOK
<1>2. TypeOK'  BY <1>1 DEF TypeOK
<1>3. QuietStep(t)  BY <1>1 DEF QuietStep, OthersSame, Same, TypeOK
<1>4. pc'[t] = "scan" /\ pos[t] = 1  BY <1>1 DEF TypeOK, ThreadInv, CallInv
<1>5. ThreadInv(t)'
  BY <1>1, <1>4 DEF ThreadInv, CallInv, CreatorInv, ReaderInv, LateInv, Creates, Ahead, Locks,
                    Slots, Nothing
<1> QED BY <1>2, <1>3, <1>4, <1>5, QuietKeeps DEF TakesLock

LEMMA UnlockKeeps ==
  ASSUME IInv, NEW t \in Threads, Unlock(t)
  PROVE  IInv'
<1> USE DEF Unlock, Goto
<1>1. TypeOK /\ ThreadInv(t)  BY DEF IInv
<1>2. TypeOK'  BY <1>1 DEF TypeOK
<1>3. QuietStep(t)  BY <1>1 DEF QuietStep, OthersSame, Same, TypeOK
<1>4. pc[t] = "unlock" /\ pc'[t] = "done"  BY <1>1 DEF TypeOK
<1>5. ThreadInv(t)'
  BY <1>1, <1>4 DEF ThreadInv, CallInv, CreatorInv, ReaderInv, LateInv, Creates, Locks
<1>6. GivesLock(t)  BY <1>1, <1>4 DEF GivesLock, Inside, Locks, ThreadInv, CallInv
<1> QED BY <1>2, <1>3, <1>5, <1>6, QuietKeeps

LEMMA ReturnKeeps ==
  ASSUME IInv, NEW t \in Threads, Return(t)
  PROVE  IInv'
<1> USE DEF Return, Goto, disk
<1>1. TypeOK /\ ThreadInv(t) /\ tables \in 0 .. MaxTables  BY DEF IInv, TypeOK
<1>2. TypeOK'
  <2>1. 1 \in 1 .. Slots + 1  BY <1>1, Bounds
  <2> QED BY <1>1, <2>1 DEF TypeOK, Nothing, Slots
<1>3. QuietStep(t)  BY <1>1 DEF QuietStep, OthersSame, Same, TypeOK
<1>4. /\ pc'[t] = "idle" /\ op'[t] = NoOp /\ pos'[t] = 1
      /\ out'[t] = Nothing("none") /\ ~late'[t]
  BY <1>1 DEF TypeOK
<1>5. ThreadInv(t)'
  BY <1>4 DEF ThreadInv, CallInv, CreatorInv, ReaderInv, LateInv, Creates, Locks, NoOp, Nothing
<1>6. KeepsLock(t)  BY <1>4 DEF KeepsLock, Inside
<1> QED BY <1>2, <1>3, <1>5, <1>6, QuietKeeps

LEMMA KillKeeps ==
  ASSUME IInv, NEW t \in Threads, Kill(t)
  PROVE  IInv'
<1> USE DEF Kill, disk
<1>1. TypeOK /\ ThreadInv(t)  BY DEF IInv
<1>2. TypeOK'  BY <1>1 DEF TypeOK
<1>3. QuietStep(t)  BY <1>1 DEF QuietStep, OthersSame, Same, TypeOK
<1>4. pc'[t] = "dead"  BY <1>1 DEF TypeOK
<1>5. ThreadInv(t)'
  BY <1>1, <1>4 DEF ThreadInv, CallInv, CreatorInv, ReaderInv, LateInv, Creates, Locks
<1>6. KeepsLock(t)  BY <1>4 DEF KeepsLock, Inside
<1> QED BY <1>2, <1>3, <1>5, <1>6, QuietKeeps

-----------------------------------------------------------------------------
LEMMA Positions ==
  ASSUME TypeOK, NEW t \in Threads
  PROVE  /\ pos[t] \in Nat /\ pos[t] >= 1 /\ Slots \in Nat
         /\ pos[t] <= Visible => pos[t] \in 1 .. Slots
<1>1. Slots \in Nat /\ Visible \in Nat /\ Visible <= Slots  BY Bounds DEF TypeOK
<1>2. pos[t] \in 1 .. Slots + 1  BY DEF TypeOK
<1> QED BY <1>1, <1>2

(* The search: whoever leaves it has an answer and gives the lock back.    *)
Answers == [what : {"opened", "null", "cast failed", "dir entry is full", "assertion failed"},
            id : Nat]

LEMMA FinishKeeps ==
  ASSUME IInv, NEW t \in Threads, NEW r \in Answers, NEW from \in {"scan", "second"},
         Finish(t, from, r), UNCHANGED <<slots, tables, atomic_lock, blocks, op, pos, val, late>>
  PROVE  IInv'
<1> USE DEF Finish, Goto
<1>1. TypeOK /\ ThreadInv(t)  BY DEF IInv
<1>2. TypeOK'  BY <1>1 DEF TypeOK, Answers
<1>3. QuietStep(t)  BY <1>1 DEF QuietStep, OthersSame, Same, TypeOK
<1>4. /\ pc[t] \in {"scan", "second"} /\ out'[t] = r /\ op'[t] = op[t]
      /\ pc'[t] = IF Locks(t) THEN "unlock" ELSE "done"
  BY <1>1 DEF TypeOK
<1>5. CallInv(t)'
  <2>1. op'[t] \in Ops  BY <1>1, <1>4 DEF ThreadInv, CallInv
  <2>2. out'[t].what # "none"  BY <1>4 DEF Answers
  <2>3. pc'[t] = "unlock" => Locks(t)'  BY <1>4 DEF Locks
  <2>4. pc'[t] \in {"unlock", "done"}  BY <1>4
  <2> QED BY <2>1, <2>2, <2>3, <2>4 DEF CallInv
<1>6. CreatorInv(t)' /\ ReaderInv(t)' /\ LateInv(t)'
  BY <1>1, <1>4 DEF ThreadInv, CreatorInv, ReaderInv, LateInv
<1>7. KeepsLock(t)  BY <1>4 DEF KeepsLock, Inside, Locks
<1> QED BY <1>2, <1>3, <1>5, <1>6, <1>7, QuietKeeps DEF ThreadInv

LEMMA MissKeeps ==
  ASSUME IInv, NEW t \in Threads, NoDesc(t) \/ MissDirect(t) \/ Full(t)
  PROVE  IInv'
<1>1. Nothing("null") \in Answers /\ Nothing("dir entry is full") \in Answers
  BY DEF Nothing, Answers
<1>2. UNCHANGED <<slots, tables, atomic_lock, blocks, op, pos, val, late>>
  BY DEF NoDesc, MissDirect, Full, disk
<1>3. Finish(t, "scan", Nothing("null")) \/ Finish(t, "scan", Nothing("dir entry is full"))
  BY DEF NoDesc, MissDirect, Full
<1> QED BY <1>1, <1>2, <1>3, FinishKeeps

(* An entry that holds the desc of a section seen at the beginning of the  *)
(* call is the one ahead.                                                  *)
LEMMA NextKeeps ==
  ASSUME IInv, NEW t \in Threads, ScanNext(t)
  PROVE  IInv'
<1> USE DEF ScanNext, Goto, disk
<1>1. TypeOK /\ ThreadInv(t) /\ tables \in 0 .. MaxTables  BY DEF IInv, TypeOK
<1>2. pos[t] \in 1 .. Slots /\ pos'[t] = pos[t] + 1 /\ pc[t] = "scan" /\ pc'[t] = "scan"
  BY <1>1, Positions DEF TypeOK
<1>3. TypeOK'
  <2>1. pos[t] + 1 \in 1 .. Slots + 1  BY <1>1, <1>2, Bounds
  <2> QED BY <1>1, <2>1 DEF TypeOK, Slots
<1>4. QuietStep(t)  BY <1>1 DEF QuietStep, OthersSame, Same, TypeOK
<1>5. CallInv(t)'  BY <1>1, <1>2 DEF ThreadInv, CallInv, Locks, Nothing
<1>6. CreatorInv(t)'
  BY <1>1, <1>2 DEF ThreadInv, CreatorInv, Creates, Ahead, Slot
<1>7. LateInv(t)'
  <2>1. SUFFICES ASSUME late[t]
                 PROVE  /\ op[t].desc # 0
                        /\ \E i \in pos[t] + 1 .. Slots : slots[i].desc = op[t].desc /\ slots[i].blockId # 0
    BY <1>2 DEF LateInv, Slots
  <2>2. PICK i \in pos[t] .. Slots : slots[i].desc = op[t].desc /\ slots[i].blockId # 0
    BY <1>1, <1>2, <2>1 DEF ThreadInv, LateInv
  <2>3. i # pos[t]  BY <2>2 DEF Slot
  <2> QED BY <1>1, <1>2, <2>2, <2>3, Bounds
<1>8. ReaderInv(t)' /\ KeepsLock(t)
  BY <1>1, <1>2 DEF ReaderInv, KeepsLock, Inside, Locks
<1> QED BY <1>3, <1>4, <1>5, <1>6, <1>7, <1>8, QuietKeeps DEF ThreadInv

LEMMA TableKeeps ==
  ASSUME IInv, NEW t \in Threads, MissTable(t)
  PROVE  IInv'
<1> USE DEF MissTable, Goto, disk
<1>1. TypeOK /\ ThreadInv(t) /\ RowInv /\ tables \in 0 .. MaxTables  BY DEF IInv, DiskInv, TypeOK
<1>2. pos[t] \in Nat /\ NextTable(pos[t]) \in 1 .. Slots + 1  BY <1>1, TableBounds, Positions
<1>3. pos'[t] = NextTable(pos[t]) /\ pc[t] = "scan" /\ pc'[t] = "scan"
  BY <1>1 DEF TypeOK
<1>4. TypeOK'  BY <1>1, <1>2 DEF TypeOK, Slots
<1>5. QuietStep(t)  BY <1>1 DEF QuietStep, OthersSame, Same, TypeOK
<1>6. CallInv(t)' /\ CreatorInv(t)' /\ ReaderInv(t)'
  BY <1>1, <1>3 DEF ThreadInv, CallInv, CreatorInv, ReaderInv, Creates, Locks, Nothing
<1>7. ~late[t]
  <2>1. SUFFICES ASSUME late[t] PROVE FALSE  OBVIOUS
  <2>2. PICK i \in pos[t] .. Slots : slots[i].desc = op[t].desc /\ op[t].desc # 0
    BY <1>1, <1>3, <2>1 DEF ThreadInv, LateInv
  <2>3. pos[t] \in 1 .. Slots /\ Slots \in Nat /\ slots[pos[t]].desc = 0
    BY <1>1, Positions DEF Slot
  <2> QED BY <1>1, <2>2, <2>3 DEF RowInv
<1>8. LateInv(t)' /\ KeepsLock(t)
  BY <1>3, <1>7 DEF LateInv, KeepsLock, Inside, Locks
<1> QED BY <1>4, <1>5, <1>6, <1>8, QuietKeeps DEF ThreadInv

LEMMA HitKeeps ==
  ASSUME IInv, NEW t \in Threads, ScanHit(t)
  PROVE  IInv'
<1> USE DEF ScanHit, Goto, disk
<1>1. /\ TypeOK /\ ThreadInv(t) /\ RowInv /\ OneSlotPerDesc
      /\ tables \in 0 .. MaxTables
  BY DEF IInv, DiskInv, TypeOK
<1>2. TypeOK'  BY <1>1 DEF TypeOK
<1>3. QuietStep(t)  BY <1>1 DEF QuietStep, OthersSame, Same, TypeOK
<1>4. /\ pc[t] = "scan" /\ pc'[t] = "first" /\ pos[t] \in 1 .. Slots
      /\ slots[pos[t]].desc = op[t].desc
  BY <1>1, Positions DEF TypeOK, Slot
<1>5. CallInv(t)'  BY <1>1, <1>4 DEF ThreadInv, CallInv, Locks, Nothing
<1>6. CreatorInv(t)' /\ ReaderInv(t)'
  BY <1>1, <1>4 DEF ThreadInv, CreatorInv, ReaderInv, Creates, Ahead, Visible
<1>7. LateInv(t)'
  <2>1. SUFFICES ASSUME late[t] PROVE op[t].desc # 0 /\ slots[pos[t]].blockId # 0
    BY <1>4 DEF LateInv
  <2>2. PICK i \in pos[t] .. Slots : slots[i].desc = op[t].desc /\ slots[i].blockId # 0
    BY <1>1, <1>4, <2>1 DEF ThreadInv, LateInv
  <2> QED BY <1>1, <1>4, <2>2, Bounds DEF OneSlotPerDesc
<1>8. KeepsLock(t)  BY <1>4 DEF KeepsLock, Inside, Locks
<1> QED BY <1>2, <1>3, <1>5, <1>6, <1>7, <1>8, QuietKeeps DEF ThreadInv

LEMMA HalfKeeps ==
  ASSUME IInv, NEW t \in Threads, ReadHalf(t)
  PROVE  IInv'
<1> USE DEF ReadHalf, Goto, disk
<1>1. TypeOK /\ ThreadInv(t) /\ tables \in 0 .. MaxTables  BY DEF IInv, TypeOK
<1>2. /\ pc[t] = "first" /\ pc'[t] = "second" /\ val'[t] = slots[pos[t]].blockId
  BY <1>1 DEF TypeOK, Slot
<1>3. pos[t] \in 1 .. Slots
  BY <1>1, <1>2, Positions DEF ThreadInv, CreatorInv, ReaderInv
<1>4. TypeOK'  BY <1>1, <1>3 DEF TypeOK, Slot
<1>5. QuietStep(t)  BY <1>1 DEF QuietStep, OthersSame, Same, TypeOK
<1>6. CallInv(t)'  BY <1>1, <1>2 DEF ThreadInv, CallInv, Locks, Nothing
<1>7. CreatorInv(t)' /\ ReaderInv(t)' /\ LateInv(t)'
  BY <1>1, <1>2 DEF ThreadInv, CreatorInv, ReaderInv, LateInv, Creates, Ahead, Visible
<1>8. KeepsLock(t)  BY <1>2 DEF KeepsLock, Inside, Locks
<1> QED BY <1>4, <1>5, <1>6, <1>7, <1>8, QuietKeeps DEF ThreadInv

(* A value whose halves are read at different times, ...                   *)
LEMMA TornInNat ==
  ASSUME NEW a \in Nat, NEW b \in Nat
  PROVE  Torn(a, b) \subseteq Nat
<1>1. /\ a \div Half \in Nat /\ a % Half \in Nat
      /\ b \div Half \in Nat /\ b % Half \in Nat
  OBVIOUS
<1> DEFINE x == a \div Half
           y == b \div Half
<1>2. x * Half \in Nat /\ y * Half \in Nat  BY <1>1
<1> QED BY <1>1, <1>2 DEF Torn

(* ... and one that did not change in between.                             *)
LEMMA TornSame ==
  ASSUME NEW a \in Nat
  PROVE  Torn(a, a) = {a}
<1>1. (a \div Half) * Half + (a % Half) = a  OBVIOUS
<1> QED BY <1>1 DEF Torn

LEMMA LinkedKeeps ==
  ASSUME IInv, NEW t \in Threads, Linked(t)
  PROVE  IInv'
<1>1. TypeOK /\ ThreadInv(t) /\ tables \in 0 .. MaxTables  BY DEF IInv, TypeOK
<1>2. pc[t] = "second" /\ pos[t] \in 1 .. Slots
  BY <1>1, Positions DEF Linked, ThreadInv, CreatorInv, ReaderInv
<1>3. PICK id \in Torn(val[t], Slot(t).blockId) \ {0} : Finish(t, "second", Section(t, id))
  BY DEF Linked
<1>4. id \in Nat  BY <1>1, <1>2, TornInNat DEF TypeOK, Slot
<1>5. Section(t, id) \in Answers  BY <1>4 DEF Section, Opened, Answers
<1>6. UNCHANGED <<slots, tables, atomic_lock, blocks, op, pos, val, late>>  BY DEF Linked, disk
<1> QED BY <1>3, <1>5, <1>6, FinishKeeps

LEMMA UnlinkedKeeps ==
  ASSUME IInv, NEW t \in Threads, Unlinked(t)
  PROVE  IInv'
<1> USE DEF Unlinked
<1>1. TypeOK /\ ThreadInv(t) /\ tables \in 0 .. MaxTables  BY DEF IInv, TypeOK
<1>2. UNCHANGED <<slots, tables, atomic_lock, blocks, op, pos, val, late>>  BY DEF disk
<1>3. CASE Finish(t, "second", Nothing("null"))
  <2>1. Nothing("null") \in Answers  BY DEF Nothing, Answers
  <2> QED BY <1>2, <1>3, <2>1, FinishKeeps
<1>4. CASE Creates(t) /\ Goto(t, "second", "link") /\ UNCHANGED out
  <2> USE DEF Goto
  <2>1. TypeOK'  BY <1>1, <1>2, <1>4 DEF TypeOK
  <2>2. QuietStep(t)  BY <1>1, <1>2, <1>4 DEF QuietStep, OthersSame, Same, TypeOK
  <2>3. /\ pc[t] = "second" /\ pc'[t] = "link" /\ val[t] = slots[pos[t]].blockId
        /\ pos[t] \in 1 .. Slots
    BY <1>1, <1>4, Positions DEF TypeOK, ThreadInv, CreatorInv
  <2>4. slots[pos[t]].blockId \in Nat  BY <1>1, <2>3 DEF TypeOK
  <2>5. slots[pos[t]].blockId = 0  BY <2>3, <2>4, TornSame DEF Slot
  <2>6. CallInv(t)'
    BY <1>1, <1>2, <1>4, <2>3 DEF ThreadInv, CallInv, Locks, Creates, Nothing
  <2>7. CreatorInv(t)' /\ ReaderInv(t)'
    BY <1>1, <1>2, <1>4, <2>3, <2>5 DEF ThreadInv, CreatorInv, ReaderInv, Creates, Ahead, Visible
  <2>8. LateInv(t)'  BY <1>1, <1>2, <2>3, <2>5 DEF ThreadInv, LateInv
  <2>9. KeepsLock(t)  BY <1>2, <2>3 DEF KeepsLock, Inside, Locks
  <2> QED BY <2>1, <2>2, <2>6, <2>7, <2>8, <2>9, QuietKeeps DEF ThreadInv
<1> QED BY <1>3, <1>4

-----------------------------------------------------------------------------
(* Steps that change entries and blocks: only a creator that holds the     *)
(* lock makes them. Nothing is taken back.                                 *)
Grows ==
  /\ \A i \in 1 .. Slots :
       /\ slots[i].desc # 0 => slots'[i].desc = slots[i].desc
       /\ slots[i].blockId # 0 => slots'[i].blockId = slots[i].blockId
  /\ tables <= tables'
  /\ atomic_lock' = atomic_lock

LEMMA OthersKeep ==
  ASSUME IInv, NEW t \in Threads, Inside(t), Grows, OthersSame(t), TypeOK',
         NEW u \in Threads \ {t}
  PROVE  ThreadInv(u)' /\ ~Inside(u)' /\ ~Inside(u)
<1>1. TypeOK /\ ThreadInv(u) /\ Same(u) /\ ~Inside(u)
  BY DEF IInv, LockInv, OthersSame
<1>2. ~Inside(u)'  BY <1>1 DEF Same, Inside, Locks
<1>3. Visible <= Visible' /\ Visible \in Nat /\ Visible' \in Nat
  <2> DEFINE m == tables
             n == tables'
  <2>1. m \in 0 .. MaxTables  BY <1>1, Zenon DEF TypeOK
  <2>2. n \in 0 .. MaxTables  BY Zenon DEF TypeOK
  <2>3. m <= n  BY DEF Grows
  <2> HIDE DEF m, n
  <2>4. m * Entries <= n * Entries  BY <2>1, <2>2, <2>3, Monotone
  <2>5. m * Entries \in Nat /\ n * Entries \in Nat  BY <2>1, <2>2
  <2> QED BY <2>4, <2>5 DEF Visible, m, n
<1>4. CallInv(u)'  BY <1>1 DEF ThreadInv, CallInv, Same, Locks, Creates, Nothing
<1>5. CreatorInv(u)'
  BY <1>1 DEF ThreadInv, CallInv, CreatorInv, Same, Creates, Inside, Locks
<1>6. ~Creates(u) /\ pc[u] \in {"first", "second"} =>
        pos[u] \in 1 .. Slots /\ slots[pos[u]].desc = op[u].desc /\ op[u].desc # 0
  BY <1>1, Positions DEF ThreadInv, CallInv, ReaderInv
<1>7. ReaderInv(u)'
  <2>1. SUFFICES ASSUME ~Creates(u), pc[u] \in {"first", "second"} PROVE ReaderInv(u)'
    BY <1>1 DEF ReaderInv, Same, Creates
  <2>2. slots'[pos[u]].desc = slots[pos[u]].desc /\ pos[u] <= Visible
    BY <1>1, <1>6, <2>1 DEF Grows, ThreadInv, ReaderInv
  <2>3. pos[u] <= Visible'
    BY <1>1, <1>3, <2>2, Positions
  <2>4. pc[u] = "second" => val[u] \in {0, slots'[pos[u]].blockId}
    BY <1>1, <1>6, <2>1 DEF Grows, ThreadInv, ReaderInv
  <2> QED BY <1>1, <1>6, <2>1, <2>2, <2>3, <2>4 DEF ReaderInv, Same
<1>8. LateInv(u)'
  <2>1. SUFFICES ASSUME late[u] PROVE LateInv(u)'  BY <1>1 DEF LateInv, Same
  <2>2. op[u].desc # 0  BY <1>1, <2>1 DEF ThreadInv, LateInv
  <2>3. pc[u] \in {"lock", "scan"} =>
          \E i \in pos[u] .. Slots : slots'[i].desc = op[u].desc /\ slots'[i].blockId # 0
    BY <1>1, <2>1, <2>2, Positions DEF ThreadInv, LateInv, Grows
  <2>4. pc[u] = "first" => slots'[pos[u]].blockId # 0
    <3>1. pc[u] = "first" => ~Creates(u)  BY <1>1 DEF Inside, Creates, Locks
    <3> QED BY <1>1, <1>6, <2>1, <3>1 DEF ThreadInv, LateInv, Grows
  <2> QED BY <1>1, <2>1, <2>2, <2>3, <2>4 DEF ThreadInv, LateInv, Same, Slots
<1> QED BY <1>1, <1>2, <1>4, <1>5, <1>7, <1>8 DEF ThreadInv

(* What holds of a creator that is about to change something.              *)
LEMMA CreatorAlone ==
  ASSUME IInv, NEW t \in Threads, Creates(t), pc[t] \in {"scan", "first", "second", "link", "name"}
  PROVE  /\ Inside(t) /\ Ahead(t) /\ op[t] \in Ops /\ op[t].desc \in Nat
         /\ \A u \in Threads : Inside(u) => u = t
         /\ pc[t] # "name" =>
              /\ \A i \in LinkedSlots : slots[i].desc # 0
              /\ \A b \in Sections : HasEntry(b)
<1>1. ThreadInv(t)  BY DEF IInv
<1>2. Inside(t) /\ Ahead(t) /\ op[t] \in Ops
  BY <1>1 DEF Inside, Locks, Creates, ThreadInv, CreatorInv, CallInv
<1>3. \A u \in Threads : Inside(u) => u = t  BY <1>2 DEF IInv, LockInv
<1>4. pc[t] # "name" => \A i \in LinkedSlots : slots[i].desc # 0
  BY <1>2 DEF IInv, HalfMade
<1>5. pc[t] # "name" => \A b \in Sections : HasEntry(b)
  BY <1>2 DEF IInv, Settled
<1> QED BY <1>2, <1>3, <1>4, <1>5

LEMMA OnlyHere ==
  ASSUME IInv, NEW t \in Threads, Ahead(t), op[t].desc # 0, pos[t] \in 1 .. Slots,
         slots[pos[t]].desc \in {0, op[t].desc}
  PROVE  \A i \in 1 .. Slots : slots[i].desc = op[t].desc => i = pos[t]
<1>1. RowInv /\ OneSlotPerDesc /\ Slots \in Nat  BY Bounds DEF IInv, DiskInv, TypeOK
<1> SUFFICES ASSUME NEW i \in 1 .. Slots, slots[i].desc = op[t].desc, i # pos[t] PROVE FALSE
  OBVIOUS
<1>2. CASE i < pos[t]  BY <1>1, <1>2 DEF Ahead
<1>3. CASE i > pos[t]  BY <1>1, <1>3 DEF RowInv, OneSlotPerDesc
<1> QED BY <1>1, <1>2, <1>3

LEMMA TakeKeeps ==
  ASSUME IInv, NEW t \in Threads, TakeFree(t)
  PROVE  IInv'
<1>1. /\ TypeOK /\ ThreadInv(t) /\ DiskInv
      /\ tables \in 0 .. MaxTables
  BY DEF IInv, TypeOK
<1>2. /\ pos[t] \in 1 .. Slots /\ pos[t] <= Visible /\ slots[pos[t]].desc = 0
      /\ pc[t] = "scan" /\ pc'[t] = "first" /\ Slots \in Nat
      /\ op[t].desc # 0 /\ Creates(t)
  BY <1>1, Positions DEF TypeOK, Slot, TakeFree, Goto
<1>3. /\ Inside(t) /\ Ahead(t) /\ op[t] \in Ops /\ op[t].desc \in Nat
      /\ \A i \in LinkedSlots : slots[i].desc # 0
      /\ \A b \in Sections : HasEntry(b)
  BY <1>2, CreatorAlone
<1>4. slots[pos[t]].blockId = 0  BY <1>2, <1>3 DEF LinkedSlots
<1>5. /\ pc' = [pc EXCEPT ![t] = "first"]
      /\ UNCHANGED <<tables, atomic_lock, blocks, op, pos, val, out, late>>
  BY DEF TakeFree, Goto
<1>6. CASE pos[t] > Direct
  <2>1. slots' = slots
    <3>1. ~(pos[t] <= Direct)  BY <1>2, <1>6
    <3> QED BY <3>1 DEF TakeFree
  <2>2. TypeOK'  BY <1>1, <1>5, <2>1 DEF TypeOK
  <2>3. QuietStep(t)  BY <1>1, <1>5, <2>1 DEF QuietStep, OthersSame, Same, TypeOK
  <2>4. CallInv(t)'  BY <1>1, <1>2, <1>5 DEF ThreadInv, CallInv, Locks, Nothing
  <2>5. CreatorInv(t)' /\ ReaderInv(t)'
    BY <1>1, <1>2, <1>3, <1>5, <1>6, <2>1 DEF CreatorInv, ReaderInv, Creates, Ahead, Visible
  <2>6. LateInv(t)'
    <3>1. SUFFICES ASSUME late[t] PROVE FALSE  BY <1>5 DEF LateInv
    <3>2. PICK i \in pos[t] .. Slots : slots[i].desc = op[t].desc
      BY <1>1, <1>2, <3>1 DEF ThreadInv, LateInv
    <3> QED BY <1>1, <1>2, <3>2 DEF DiskInv, RowInv
  <2>7. KeepsLock(t)  BY <1>2, <1>3, <1>5 DEF KeepsLock
  <2> QED BY <2>2, <2>3, <2>4, <2>5, <2>6, <2>7, QuietKeeps DEF ThreadInv
<1>7. CASE pos[t] <= Direct
  <2>1. slots' = [slots EXCEPT ![pos[t]] = [desc |-> op[t].desc, blockId |-> 0]]
    BY <1>7 DEF TakeFree
  <2>2. TypeOK'  BY <1>1, <1>3, <1>5, <2>1 DEF TypeOK
  <2>3. \A i \in 1 .. Slots :
          /\ slots'[i].blockId = slots[i].blockId
          /\ slots'[i].desc = IF i = pos[t] THEN op[t].desc ELSE slots[i].desc
          /\ i # pos[t] => slots'[i] = slots[i]
    BY <1>1, <1>2, <1>4, <2>1 DEF TypeOK
  <2>4. LinkedSlots' = LinkedSlots /\ NewId' = NewId /\ Sections' = Sections
    BY <1>5, <2>3 DEF LinkedSlots, NewId, Sections, Slots
  <2>5. \A i \in LinkedSlots : i # pos[t]  BY <1>2, <1>3
  <2>6. BlocksInv'
    BY <1>1, <1>5, <2>3, <2>4, <2>5 DEF DiskInv, BlocksInv, Slots, LinkedSlots
  <2>7. RowInv'
    BY <1>1, <1>2, <1>3, <1>5, <1>7, <2>3 DEF DiskInv, RowInv, Ahead, Slots, Visible
  <2>8. OneSlotPerDesc'
    <3>1. \A i \in 1 .. Slots : slots[i].desc = op[t].desc => i = pos[t]
      BY <1>2, <1>3, OnlyHere
    <3> QED BY <1>1, <2>3, <3>1 DEF DiskInv, OneSlotPerDesc, Slots
  <2>9. OneBlockPerDesc'  BY <1>1, <1>5, <2>4 DEF DiskInv, OneBlockPerDesc
  <2>10. HalfMade'  BY <1>3, <1>5, <2>3, <2>4, <2>5 DEF HalfMade, LinkedSlots
  <2>11. Settled'
    <3>1. ASSUME NEW b \in Sections PROVE HasEntry(b)'
      <4>1. PICK i \in 1 .. Slots : slots[i] = [desc |-> blocks[b].desc, blockId |-> b]
        BY <1>3 DEF HasEntry
      <4>2. blocks[b].desc # 0  BY <1>1 DEF DiskInv, BlocksInv
      <4>3. slots'[i] = slots[i]  BY <1>2, <2>3, <4>1, <4>2
      <4> QED BY <1>5, <4>1, <4>3 DEF HasEntry, Slots
    <3> QED BY <2>4, <3>1 DEF Settled
  <2>12. OthersSame(t) /\ Grows
    <3>1. OthersSame(t)  BY <1>1, <1>5 DEF OthersSame, Same, TypeOK
    <3>2. tables <= tables'  BY <1>1, <1>5
    <3> QED BY <1>2, <1>5, <2>3, <3>1, <3>2 DEF Grows
  <2>13. \A u \in Threads \ {t} : ThreadInv(u)' /\ ~Inside(u)'
    BY <1>3, <2>2, <2>12, OthersKeep
  <2>14. CallInv(t)'  BY <1>1, <1>2, <1>5 DEF ThreadInv, CallInv, Locks, Nothing
  <2>15. CreatorInv(t)' /\ ReaderInv(t)'
    BY <1>1, <1>2, <1>3, <1>5, <2>3 DEF CreatorInv, ReaderInv, Creates, Ahead, Visible
  <2>16. LateInv(t)'
    <3>1. SUFFICES ASSUME late[t] PROVE FALSE  BY <1>5 DEF LateInv
    <3>2. PICK i \in pos[t] .. Slots : slots[i].desc = op[t].desc
      BY <1>1, <1>2, <3>1 DEF ThreadInv, LateInv
    <3> QED BY <1>1, <1>2, <3>2 DEF DiskInv, RowInv
  <2>17. LockInv'
    BY <1>3, <1>5, <2>13 DEF IInv, LockInv
  <2> QED BY <2>2, <2>6, <2>7, <2>8, <2>9, <2>10, <2>11, <2>13, <2>14, <2>15, <2>16, <2>17
          DEF IInv, DiskInv, ThreadInv
<1> QED BY <1>2, <1>6, <1>7

-----------------------------------------------------------------------------
(* Blocks are appended.                                                    *)
LEMMA AppendBlock ==
  ASSUME BlocksInv, NEW k, NEW d, blocks' = WithBlock(k, d)
  PROVE  /\ NewId \in Nat /\ NewId' = NewId + 1 /\ NewId \notin DOMAIN blocks
         /\ DOMAIN blocks' = 0 .. NewId' - 1 /\ DOMAIN blocks' = DOMAIN blocks \cup {NewId}
         /\ blocks'[NewId] = [kind |-> k, desc |-> d]
         /\ \A b \in DOMAIN blocks : b \in DOMAIN blocks' /\ blocks'[b] = blocks[b]
<1>1. NewId \in Nat /\ DOMAIN blocks = 0 .. NewId - 1  BY DEF BlocksInv
<1>2. DOMAIN blocks' = DOMAIN blocks \cup {NewId} /\ DOMAIN blocks' = 0 .. NewId
  BY <1>1 DEF WithBlock
<1>3. NewId' = NewId + 1
  <2> DEFINE n == NewId + 1
  <2>1. n \in Nat /\ 0 .. NewId = 0 .. n - 1  BY <1>1
  <2> HIDE DEF n
  <2>2. Cardinality(0 .. n - 1) = n  BY <2>1, RowLength
  <2>3. NewId' = Cardinality(DOMAIN blocks')  BY DEF NewId
  <2> QED BY <1>2, <2>1, <2>2, <2>3 DEF n
<1> QED BY <1>1, <1>2, <1>3 DEF WithBlock

LEMMA LinkedFinite ==
  ASSUME TypeOK
  PROVE  IsFiniteSet(LinkedSlots) /\ Cardinality(LinkedSlots) \in Nat /\ Cardinality(LinkedSlots) <= Slots
<1>1. Slots \in Nat  BY Bounds DEF TypeOK
<1>2. 1 \in Int /\ Slots \in Int  BY <1>1
<1>3. IsFiniteSet(1 .. Slots) /\ Cardinality(1 .. Slots) = IF 1 > Slots THEN 0 ELSE Slots - 1 + 1
  BY <1>2, FS_Interval, Zenon
<1>4. Cardinality(1 .. Slots) = Slots  BY <1>1, <1>3
<1>5. LinkedSlots \in SUBSET (1 .. Slots)  BY DEF LinkedSlots
<1>6. IsFiniteSet(LinkedSlots) /\ Cardinality(LinkedSlots) <= Cardinality(1 .. Slots)
  BY <1>3, <1>5, FS_Subset
<1>7. Cardinality(LinkedSlots) \in Nat  BY <1>6, FS_CardinalityType
<1> QED BY <1>4, <1>6, <1>7

LEMMA NewTableKeeps ==
  ASSUME IInv, NEW t \in Threads, NewTable(t)
  PROVE  IInv'
<1>1. /\ TypeOK /\ ThreadInv(t) /\ DiskInv /\ BlocksInv
      /\ tables \in 0 .. MaxTables
  BY DEF IInv, DiskInv, TypeOK
<1>2. /\ pc[t] = "scan" /\ pc' = pc /\ op[t].desc # 0 /\ Creates(t)
      /\ tables < MaxTables /\ tables' = tables + 1 /\ blocks' = WithBlock("table", 0)
      /\ UNCHANGED <<slots, atomic_lock, op, pos, val, out, late>>
  BY <1>1 DEF NewTable, Goto, TypeOK
<1>3. /\ Inside(t) /\ Ahead(t)
      /\ \A i \in LinkedSlots : slots[i].desc # 0
      /\ \A b \in Sections : HasEntry(b)
  BY <1>2, CreatorAlone
<1>4. /\ NewId \in Nat /\ NewId' = NewId + 1 /\ DOMAIN blocks' = 0 .. NewId' - 1
      /\ NewId \notin DOMAIN blocks /\ blocks'[NewId] = [kind |-> "table", desc |-> 0]
      /\ \A b \in DOMAIN blocks : b \in DOMAIN blocks' /\ blocks'[b] = blocks[b]
      /\ DOMAIN blocks' = DOMAIN blocks \cup {NewId}
  BY <1>1, <1>2, AppendBlock
<1>5. TypeOK'
  <2>1. tables' \in 0 .. MaxTables  BY <1>1, <1>2
  <2>2. blocks' \in [DOMAIN blocks' -> [kind : Kinds \cup {"super", "table"}, desc : Nat]]
    BY <1>1, <1>2, <1>4 DEF WithBlock, TypeOK
  <2> QED BY <1>1, <1>2, <2>1, <2>2 DEF TypeOK, Slots
<1>6. Sections' = Sections /\ LinkedSlots' = LinkedSlots
  BY <1>2, <1>4 DEF Sections, LinkedSlots, Slots, Kinds
<1>7. \A b \in Sections : blocks'[b] = blocks[b]  BY <1>4 DEF Sections
<1>8. Cardinality(LinkedSlots) \in Nat  BY <1>1, LinkedFinite
<1>9. BlocksInv'
  <2>1. NewId' = 2 + tables' + Cardinality(LinkedSlots')
    BY <1>1, <1>2, <1>4, <1>6, <1>8 DEF BlocksInv
  <2>2. \A b \in Sections' : blocks'[b].desc # 0  BY <1>1, <1>6, <1>7 DEF BlocksInv
  <2>3. \A i \in LinkedSlots' :
          /\ slots'[i].blockId \in Sections'
          /\ slots'[i].desc \in {0, blocks'[slots'[i].blockId].desc}
          /\ \A j \in 1 .. Slots' : slots'[j].blockId = slots'[i].blockId => i = j
    BY <1>1, <1>2, <1>6, <1>7 DEF BlocksInv, Slots
  <2>4. NewId' \in Nat  BY <1>4
  <2> QED BY <1>4, <2>1, <2>2, <2>3, <2>4 DEF BlocksInv
<1>10. Visible \in Nat /\ Visible' \in Nat /\ Visible <= Visible'
  <2> DEFINE m == tables * Entries
             n == (tables + 1) * Entries
  <2>1. m \in Nat /\ n = m + Entries  BY <1>1
  <2> QED BY <1>2, <2>1 DEF Visible
<1>11. RowInv' /\ OneSlotPerDesc'
  BY <1>1, <1>2, <1>10, Bounds DEF DiskInv, RowInv, OneSlotPerDesc, Slots
<1>12. OneBlockPerDesc'
  BY <1>1, <1>6, <1>7 DEF DiskInv, OneBlockPerDesc
<1>13. HalfMade' /\ LockInv' /\ Settled'
  <2>1. HalfMade'  BY <1>2, <1>3, <1>6 DEF HalfMade
  <2>2. LockInv'  BY <1>2 DEF IInv, LockInv, Inside, Locks
  <2>3. \A b \in Sections : HasEntry(b)'  BY <1>2, <1>3, <1>7 DEF HasEntry, Slots
  <2> QED BY <1>6, <2>1, <2>2, <2>3 DEF Settled
<1>14. OthersSame(t) /\ Grows  BY <1>1, <1>2 DEF OthersSame, Same, Grows
<1>15. \A u \in Threads \ {t} : ThreadInv(u)'
  BY <1>3, <1>5, <1>14, OthersKeep
<1>16. ThreadInv(t)'
  <2>1. CallInv(t)'  BY <1>1, <1>2 DEF ThreadInv, CallInv, Locks, Nothing, Creates
  <2>2. CreatorInv(t)' /\ ReaderInv(t)'
    BY <1>2, <1>3 DEF CreatorInv, ReaderInv, Ahead, Creates
  <2>3. LateInv(t)'  BY <1>1, <1>2 DEF ThreadInv, LateInv, Slots
  <2> QED BY <2>1, <2>2, <2>3 DEF ThreadInv
<1> QED BY <1>5, <1>9, <1>11, <1>12, <1>13, <1>15, <1>16 DEF IInv, DiskInv

(* The new block is the only one of its desc: any other had an entry, and  *)
(* the creator would have found its id.                                    *)
LEMMA LinkKeeps ==
  ASSUME IInv, NEW t \in Threads, Link(t)
  PROVE  IInv'
<1>1. /\ TypeOK /\ ThreadInv(t) /\ DiskInv /\ BlocksInv
      /\ tables \in 0 .. MaxTables
  BY DEF IInv, DiskInv, TypeOK
<1>2. /\ pc[t] = "link" /\ pc' = [pc EXCEPT ![t] = "name"] /\ pc'[t] = "name"
      /\ blocks' = WithBlock(op[t].kind, op[t].desc)
      /\ slots' = [slots EXCEPT ![pos[t]].blockId = NewId]
      /\ UNCHANGED <<tables, atomic_lock, op, pos, val, out, late>>
  BY <1>1 DEF Link, Goto, TypeOK
<1>3. /\ Creates(t) /\ op[t].desc # 0 /\ pos[t] <= Visible /\ pos[t] \in 1 .. Slots
      /\ slots[pos[t]].blockId = 0 /\ slots[pos[t]].desc \in {0, op[t].desc}
      /\ pos[t] <= Direct => slots[pos[t]].desc # 0
  BY <1>1, <1>2, Positions DEF ThreadInv, CallInv, CreatorInv
<1>4. /\ Inside(t) /\ Ahead(t) /\ op[t] \in Ops /\ op[t].desc \in Nat /\ op[t].kind \in Kinds
      /\ \A u \in Threads : Inside(u) => u = t
      /\ \A i \in LinkedSlots : slots[i].desc # 0
      /\ \A b \in Sections : HasEntry(b)
  BY <1>2, <1>3, CreatorAlone
<1>5. /\ NewId \in Nat /\ NewId' = NewId + 1 /\ DOMAIN blocks' = 0 .. NewId' - 1
      /\ NewId \notin DOMAIN blocks /\ blocks'[NewId] = [kind |-> op[t].kind, desc |-> op[t].desc]
      /\ \A b \in DOMAIN blocks : b \in DOMAIN blocks' /\ blocks'[b] = blocks[b]
      /\ DOMAIN blocks' = DOMAIN blocks \cup {NewId}
  <2>1. PICK k, d : k = op[t].kind /\ d = op[t].desc
    OBVIOUS
  <2>2. blocks' = WithBlock(k, d) /\ BlocksInv
    BY <1>1, <1>2, <2>1
  <2>3. /\ NewId \in Nat /\ NewId' = NewId + 1 /\ NewId \notin DOMAIN blocks
        /\ DOMAIN blocks' = 0 .. NewId' - 1 /\ DOMAIN blocks' = DOMAIN blocks \cup {NewId}
        /\ blocks'[NewId] = [kind |-> k, desc |-> d]
        /\ \A b \in DOMAIN blocks : b \in DOMAIN blocks' /\ blocks'[b] = blocks[b]
    BY <2>2, AppendBlock
  <2> QED
    BY <2>1, <2>3
<1>6. NewId >= 2
  BY <1>1, <1>5, LinkedFinite DEF BlocksInv
<1>7. /\ slots' \in [1 .. Slots -> [desc : Nat, blockId : Nat]]
      /\ \A i \in 1 .. Slots :
           /\ slots'[i].desc = slots[i].desc
           /\ slots'[i].blockId = IF i = pos[t] THEN NewId ELSE slots[i].blockId
           /\ i # pos[t] => slots'[i] = slots[i]
  <2> DEFINE n == NewId
             p == pos[t]
  <2>1. n \in Nat /\ p \in 1 .. Slots /\ slots' = [slots EXCEPT ![p].blockId = n]
    BY <1>2, <1>3, <1>5
  <2>2. slots \in [1 .. Slots -> [desc : Nat, blockId : Nat]]  BY <1>1 DEF TypeOK
  <2> HIDE DEF n, p
  <2>3. /\ slots' \in [1 .. Slots -> [desc : Nat, blockId : Nat]]
        /\ \A i \in 1 .. Slots :
             /\ slots'[i].desc = slots[i].desc
             /\ slots'[i].blockId = IF i = p THEN n ELSE slots[i].blockId
             /\ i # p => slots'[i] = slots[i]
    BY <2>1, <2>2
  <2> QED BY <2>3 DEF n, p
<1>8. TypeOK'
  <2>1. blocks' \in [DOMAIN blocks' -> [kind : Kinds \cup {"super", "table"}, desc : Nat]]
    BY <1>1, <1>2, <1>4 DEF WithBlock, TypeOK
  <2>2. slots' \in [1 .. Slots -> [desc : Nat, blockId : Nat]]
    BY <1>7
  <2>3. pc' \in [Threads -> {"idle", "lock", "scan", "first", "second", "link", "name",
                             "unlock", "done", "dead"}]
    BY <1>1, <1>2 DEF TypeOK
  <2> QED BY <1>1, <1>2, <2>1, <2>2, <2>3 DEF TypeOK, Slots
<1>9. Sections' = Sections \cup {NewId} /\ NewId \notin Sections
  <2>1. NewId > 1 /\ blocks'[NewId].kind \in Kinds /\ NewId \in DOMAIN blocks'
    BY <1>4, <1>5, <1>6
  <2>2. \A b \in DOMAIN blocks' : b = NewId \/ (b \in DOMAIN blocks /\ blocks'[b] = blocks[b])
    BY <1>5
  <2> QED BY <1>5, <2>1, <2>2 DEF Sections
<1>10. LinkedSlots' = LinkedSlots \cup {pos[t]} /\ pos[t] \notin LinkedSlots
  BY <1>3, <1>6, <1>7 DEF LinkedSlots, Slots
<1>11. \A b \in Sections : blocks'[b] = blocks[b]  BY <1>5 DEF Sections
<1>12. \A b \in Sections : blocks[b].desc # op[t].desc
  <2>1. SUFFICES ASSUME NEW b \in Sections, blocks[b].desc = op[t].desc PROVE FALSE  OBVIOUS
  <2>2. PICK i \in 1 .. Slots : slots[i] = [desc |-> op[t].desc, blockId |-> b]
    BY <1>4, <2>1 DEF HasEntry
  <2>3. i = pos[t]  BY <1>3, <1>4, <2>2, OnlyHere
  <2> QED BY <1>3, <2>2, <2>3 DEF Sections
<1>13. BlocksInv'
  <2>1. Cardinality(LinkedSlots') = Cardinality(LinkedSlots) + 1 /\ Cardinality(LinkedSlots) \in Nat
    BY <1>1, <1>10, LinkedFinite, FS_AddElement
  <2>2. NewId' = 2 + tables' + Cardinality(LinkedSlots')
    BY <1>1, <1>2, <1>5, <2>1 DEF BlocksInv
  <2>3. \A b \in Sections' : blocks'[b].desc # 0
    BY <1>1, <1>3, <1>5, <1>9, <1>11 DEF BlocksInv
  <2>4. \A i \in LinkedSlots : slots[i].blockId \in Sections /\ slots[i].blockId # NewId
    BY <1>1, <1>9 DEF BlocksInv
  <2>5. \A j \in 1 .. Slots : slots[j].blockId # NewId
    BY <1>6, <2>4 DEF LinkedSlots
  <2>6. \A i \in LinkedSlots' :
          /\ slots'[i].blockId \in Sections'
          /\ slots'[i].desc \in {0, blocks'[slots'[i].blockId].desc}
          /\ \A j \in 1 .. Slots' : slots'[j].blockId = slots'[i].blockId => i = j
    <3>1. SUFFICES ASSUME NEW i \in LinkedSlots'
                   PROVE /\ slots'[i].blockId \in Sections'
                         /\ slots'[i].desc \in {0, blocks'[slots'[i].blockId].desc}
                         /\ \A j \in 1 .. Slots : slots'[j].blockId = slots'[i].blockId => i = j
      BY DEF Slots
    <3>2. CASE i = pos[t]
      BY <1>3, <1>5, <1>7, <1>9, <2>5, <3>2
    <3>3. CASE i \in LinkedSlots
      <4>1. i # pos[t] /\ i \in 1 .. Slots  BY <1>10, <3>3 DEF LinkedSlots
      <4> QED BY <1>1, <1>7, <1>9, <1>11, <2>4, <3>3, <4>1 DEF BlocksInv
    <3> QED BY <1>10, <3>1, <3>2, <3>3
  <2> QED BY <1>5, <2>2, <2>3, <2>6 DEF BlocksInv
<1>14. RowInv' /\ OneSlotPerDesc'
  <2>1. Slots' = Slots /\ Visible' = Visible  BY <1>2 DEF Slots, Visible
  <2>2. \A i \in 1 .. Slots : slots[i].blockId # 0 => slots'[i].blockId # 0
    BY <1>5, <1>6, <1>7
  <2>3. \A i \in 1 .. Slots : slots'[i].desc = slots[i].desc  BY <1>7
  <2>4. RowInv /\ OneSlotPerDesc  BY <1>1 DEF DiskInv
  <2>5. \A i, j \in 1 .. Slots : i < j /\ slots'[j].desc # 0 => slots'[i].desc # 0
    BY <2>3, <2>4 DEF RowInv
  <2>6. \A i \in 1 .. Slots : i > Visible => slots'[i].desc = 0  BY <2>3, <2>4 DEF RowInv
  <2>7. \A i \in 1 .. Slots : i > Direct /\ slots'[i].desc # 0 => slots'[i].blockId # 0
    BY <2>2, <2>3, <2>4 DEF RowInv
  <2>8. OneSlotPerDesc'  BY <2>1, <2>3, <2>4 DEF OneSlotPerDesc
  <2> QED BY <2>1, <2>5, <2>6, <2>7, <2>8 DEF RowInv
<1>15. OneBlockPerDesc'
  BY <1>1, <1>5, <1>9, <1>11, <1>12 DEF DiskInv, OneBlockPerDesc
<1>16. OthersSame(t) /\ Grows
  <2>1. OthersSame(t)  BY <1>1, <1>2 DEF OthersSame, Same, TypeOK
  <2>2. tables <= tables'  BY <1>1, <1>2
  <2> QED BY <1>2, <1>3, <1>7, <2>1, <2>2 DEF Grows
<1>17. \A u \in Threads \ {t} : ThreadInv(u)' /\ ~Inside(u)'
  BY <1>4, <1>8, <1>16, OthersKeep
<1>18. LockInv'  BY <1>2, <1>4, <1>17 DEF IInv, LockInv
<1>19. HalfMade'
  <2>1. \A i \in LinkedSlots' : slots'[i].desc = 0 => i = pos[t]
    BY <1>4, <1>7, <1>10 DEF LinkedSlots
  <2>2. atomic_lock' = 1  BY <1>2, <1>4 DEF IInv, LockInv
  <2> QED BY <1>2, <1>17, <2>1, <2>2 DEF HalfMade
<1>20. Settled'
  <2>1. ASSUME NEW b \in Sections PROVE HasEntry(b)'
    <3>1. PICK i \in 1 .. Slots : slots[i] = [desc |-> blocks[b].desc, blockId |-> b]
      BY <1>4 DEF HasEntry
    <3>2. i # pos[t]  BY <1>3, <3>1 DEF Sections
    <3> QED BY <1>7, <1>11, <3>1, <3>2 DEF HasEntry, Slots
  <2>2. atomic_lock' = 1  BY <1>2, <1>4 DEF IInv, LockInv
  <2>3. slots'[pos'[t]].blockId = NewId  BY <1>2, <1>3, <1>7
  <2> QED BY <1>2, <1>9, <1>17, <2>1, <2>2, <2>3 DEF Settled
<1>21. ThreadInv(t)'
  <2>1. CallInv(t)'  BY <1>1, <1>2, <1>3 DEF ThreadInv, CallInv, Locks, Nothing, Creates
  <2>2. CreatorInv(t)' /\ ReaderInv(t)'
    <3>1. ReaderInv(t)'  BY <1>2, <1>3 DEF ReaderInv, Creates
    <3>2. Ahead(t)'  BY <1>2, <1>4, <1>7 DEF Ahead
    <3>3. CreatorInv(t)'
      BY <1>2, <1>3, <1>4, <1>5, <1>6, <1>7, <3>2 DEF CreatorInv, Visible
    <3> QED BY <3>1, <3>3
  <2>3. LateInv(t)'  BY <1>1, <1>2 DEF ThreadInv, LateInv
  <2> QED BY <2>1, <2>2, <2>3 DEF ThreadInv
<1> QED BY <1>8, <1>13, <1>14, <1>15, <1>17, <1>18, <1>19, <1>20, <1>21 DEF IInv, DiskInv

LEMMA NameKeeps ==
  ASSUME IInv, NEW t \in Threads, Name(t)
  PROVE  IInv'
<1>1. /\ TypeOK /\ ThreadInv(t) /\ DiskInv /\ BlocksInv
      /\ tables \in 0 .. MaxTables
  BY DEF IInv, DiskInv, TypeOK
<1>2. /\ pc[t] = "name" /\ pc' = [pc EXCEPT ![t] = IF Locks(t) THEN "unlock" ELSE "done"]
      /\ slots' = [slots EXCEPT ![pos[t]].desc = op[t].desc]
      /\ out' = [out EXCEPT ![t] = Section(t, Slot(t).blockId)]
      /\ UNCHANGED <<tables, atomic_lock, blocks, op, pos, val, late>>
  BY <1>1 DEF Name, Finish, Goto, TypeOK
<1>3. /\ Creates(t) /\ op[t].desc # 0 /\ pos[t] <= Visible /\ pos[t] \in 1 .. Slots
      /\ slots[pos[t]].blockId # 0 /\ slots[pos[t]].desc \in {0, op[t].desc}
      /\ blocks[slots[pos[t]].blockId] = [kind |-> op[t].kind, desc |-> op[t].desc]
  BY <1>1, <1>2, Positions DEF ThreadInv, CallInv, CreatorInv
<1>4. /\ Inside(t) /\ Ahead(t) /\ op[t] \in Ops /\ op[t].desc \in Nat
      /\ \A u \in Threads : Inside(u) => u = t
  BY <1>2, <1>3, CreatorAlone
<1>5. /\ slots' \in [1 .. Slots -> [desc : Nat, blockId : Nat]]
      /\ \A i \in 1 .. Slots :
           /\ slots'[i].blockId = slots[i].blockId
           /\ slots'[i].desc = IF i = pos[t] THEN op[t].desc ELSE slots[i].desc
           /\ i # pos[t] => slots'[i] = slots[i]
  <2> DEFINE d == op[t].desc
             p == pos[t]
  <2>1. d \in Nat /\ p \in 1 .. Slots /\ slots' = [slots EXCEPT ![p].desc = d]
    BY <1>2, <1>3, <1>4
  <2>2. slots \in [1 .. Slots -> [desc : Nat, blockId : Nat]]  BY <1>1 DEF TypeOK
  <2> HIDE DEF d, p
  <2>3. /\ slots' \in [1 .. Slots -> [desc : Nat, blockId : Nat]]
        /\ \A i \in 1 .. Slots :
             /\ slots'[i].blockId = slots[i].blockId
             /\ slots'[i].desc = IF i = p THEN d ELSE slots[i].desc
             /\ i # p => slots'[i] = slots[i]
    BY <2>1, <2>2
  <2> QED BY <2>3 DEF d, p
<1>6. pc'[t] = "unlock"  BY <1>1, <1>2, <1>3 DEF Locks, Creates, TypeOK
<1>7. slots[pos[t]].blockId \in Sections /\ slots[pos[t]].blockId \in Nat
  BY <1>1, <1>3 DEF BlocksInv, LinkedSlots, TypeOK
<1>8. out'[t].what \in {"opened", "cast failed", "assertion failed"}
  BY <1>1, <1>2 DEF Section, Opened, TypeOK
<1>9. TypeOK'
  <2>1. out' \in [Threads -> [what : {"none", "opened", "null", "cast failed",
                                      "dir entry is full", "assertion failed"}, id : Nat]]
    BY <1>1, <1>2, <1>7 DEF Section, Opened, TypeOK, Slot
  <2>2. pc' \in [Threads -> {"idle", "lock", "scan", "first", "second", "link", "name",
                             "unlock", "done", "dead"}]
    BY <1>1, <1>2 DEF TypeOK
  <2> QED BY <1>1, <1>2, <1>5, <2>1, <2>2 DEF TypeOK, Slots
<1>10. /\ Sections' = Sections /\ NewId' = NewId /\ Slots' = Slots /\ Visible' = Visible
       /\ LinkedSlots' = LinkedSlots
  BY <1>2, <1>5 DEF Sections, NewId, Slots, Visible, LinkedSlots
<1>11. \A i \in 1 .. Slots : slots[i].desc = op[t].desc => i = pos[t]
  BY <1>3, <1>4, OnlyHere
<1>12. BlocksInv'
  <2>1. \A i \in LinkedSlots :
          /\ slots'[i].blockId \in Sections
          /\ slots'[i].desc \in {0, blocks[slots'[i].blockId].desc}
          /\ \A j \in 1 .. Slots : slots'[j].blockId = slots'[i].blockId => i = j
    <3> TAKE i \in LinkedSlots
    <3>1. i \in 1 .. Slots  BY DEF LinkedSlots
    <3>2. /\ slots[i].blockId \in Sections
          /\ slots[i].desc \in {0, blocks[slots[i].blockId].desc}
          /\ \A j \in 1 .. Slots : slots[j].blockId = slots[i].blockId => i = j
      BY <1>1 DEF BlocksInv
    <3>3. i = pos[t] => blocks[slots[i].blockId].desc = op[t].desc  BY <1>3
    <3>4. slots'[i].desc \in {0, blocks[slots[i].blockId].desc}
      BY <1>5, <3>1, <3>2, <3>3
    <3> QED BY <1>5, <3>1, <3>2, <3>4
  <2> QED BY <1>1, <1>2, <1>10, <2>1 DEF BlocksInv
<1>13. RowInv' /\ OneSlotPerDesc'
  <2>1. RowInv /\ OneSlotPerDesc  BY <1>1 DEF DiskInv
  <2>2. \A i, j \in 1 .. Slots : i < j /\ slots'[j].desc # 0 => slots'[i].desc # 0
    BY <1>3, <1>4, <1>5, <2>1 DEF RowInv, Ahead
  <2>3. \A i \in 1 .. Slots : i > Visible => slots'[i].desc = 0
    <3>1. Visible \in Nat  BY <1>1, Bounds
    <3> QED BY <1>3, <1>5, <2>1, <3>1 DEF RowInv
  <2>4. \A i \in 1 .. Slots : i > Direct /\ slots'[i].desc # 0 => slots'[i].blockId # 0
    BY <1>3, <1>5, <2>1 DEF RowInv
  <2>5. OneSlotPerDesc'  BY <1>5, <1>10, <1>11, <2>1 DEF OneSlotPerDesc
  <2> QED BY <1>10, <2>2, <2>3, <2>4, <2>5 DEF RowInv
<1>14. OneBlockPerDesc'  BY <1>1, <1>2, <1>10 DEF DiskInv, OneBlockPerDesc
<1>15. OthersSame(t) /\ Grows
  <2>1. OthersSame(t)  BY <1>1, <1>2 DEF OthersSame, Same, TypeOK
  <2>2. tables <= tables'  BY <1>1, <1>2
  <2> QED BY <1>2, <1>3, <1>5, <2>1, <2>2 DEF Grows
<1>16. \A u \in Threads \ {t} : ThreadInv(u)' /\ ~Inside(u)'
  BY <1>4, <1>9, <1>15, OthersKeep
<1>17. LockInv'  BY <1>2, <1>4, <1>16 DEF IInv, LockInv
<1>18. HalfMade'
  BY <1>3, <1>4, <1>5, <1>10 DEF IInv, HalfMade, LinkedSlots
<1>19. Settled'
  <2>1. SUFFICES ASSUME NEW b \in Sections PROVE HasEntry(b)'  BY <1>10 DEF Settled
  <2>2. CASE slots[pos[t]].blockId = b
    <3>1. slots'[pos[t]] = [desc |-> blocks[b].desc, blockId |-> b]
      BY <1>3, <1>5, <2>2
    <3> QED BY <1>2, <1>3, <3>1 DEF HasEntry, Slots
  <2>3. CASE slots[pos[t]].blockId # b
    <3>1. HasEntry(b)  BY <1>2, <1>4, <2>3 DEF IInv, Settled
    <3>2. PICK i \in 1 .. Slots : slots[i] = [desc |-> blocks[b].desc, blockId |-> b]
      BY <3>1 DEF HasEntry
    <3>3. slots'[i] = slots[i]  BY <1>5, <2>3, <3>2
    <3> QED BY <1>2, <3>2, <3>3 DEF HasEntry, Slots
  <2> QED BY <2>2, <2>3
<1>20. ThreadInv(t)'
  <2>1. CallInv(t)'
    BY <1>1, <1>2, <1>3, <1>4, <1>6, <1>8 DEF ThreadInv, CallInv, Locks, Creates
  <2>2. CreatorInv(t)' /\ ReaderInv(t)'
    BY <1>6 DEF CreatorInv, ReaderInv
  <2>3. LateInv(t)'  BY <1>1, <1>2, <1>6 DEF ThreadInv, LateInv
  <2> QED BY <2>1, <2>2, <2>3 DEF ThreadInv
<1> QED BY <1>9, <1>12, <1>13, <1>14, <1>16, <1>17, <1>18, <1>19, <1>20 DEF IInv, DiskInv

-----------------------------------------------------------------------------
LEMMA NextIInv == IInv /\ [Next]_vars => IInv'
<1> SUFFICES ASSUME IInv, [Next]_vars PROVE IInv'  OBVIOUS
<1>1. ASSUME NEW t \in Threads, NEW o \in Ops, Begin(t, o) PROVE IInv'
  BY <1>1, BeginKeeps
<1>2. ASSUME NEW t \in Threads, Lock(t) PROVE IInv'  BY <1>2, LockKeeps
<1>3. ASSUME NEW t \in Threads, FindEntry(t) PROVE IInv'
  BY <1>3, MissKeeps, NextKeeps, HitKeeps, TakeKeeps, TableKeeps, NewTableKeeps DEF FindEntry
<1>4. ASSUME NEW t \in Threads, OpenSection(t) PROVE IInv'
  BY <1>3, <1>4, HalfKeeps, UnlinkedKeeps, LinkedKeeps, LinkKeeps, NameKeeps, UnlockKeeps,
     ReturnKeeps DEF OpenSection
<1>5. ASSUME NEW t \in Threads, Kill(t) PROVE IInv'  BY <1>5, KillKeeps
<1>6. CASE UNCHANGED vars
  <2> USE <1>6 DEF vars
  <2>1. UNCHANGED <<slots, tables, atomic_lock, blocks, pc, op, pos, val, out, late>>  OBVIOUS
  <2>2. TypeOK' /\ LockInv' /\ HalfMade' /\ Settled'
    <3>1. TypeOK'  BY <2>1 DEF IInv, TypeOK, Slots
    <3>2. LockInv'  BY <2>1 DEF IInv, LockInv, Inside, Locks
    <3>3. HalfMade'  BY <2>1 DEF IInv, HalfMade, Inside, Locks, LinkedSlots, Slots
    <3>4. Settled'  BY <2>1 DEF IInv, Settled, HasEntry, Inside, Locks, Sections, Slots
    <3> QED BY <3>1, <3>2, <3>3, <3>4
  <2>3. DiskInv'
    BY <2>1 DEF IInv, DiskInv, BlocksInv, RowInv, OneSlotPerDesc, OneBlockPerDesc, NewId,
                LinkedSlots, Sections, Visible, Slots
  <2>4. \A t \in Threads : ThreadInv(t)'
    BY <2>1 DEF IInv, ThreadInv, CallInv, CreatorInv, ReaderInv, LateInv, Creates, Locks,
                Ahead, Visible, Slots, Nothing
  <2> QED BY <2>2, <2>3, <2>4 DEF IInv
<1>7. Killable \subseteq Threads  BY DEF SectionDirAssumption
<1> QED BY <1>1, <1>2, <1>4, <1>5, <1>6, <1>7 DEF Next

LEMMA AlwaysIInv == Spec => []IInv
  BY InitIInv, NextIInv, PTL DEF Spec

(* The state of the directory and of the calls keeps its types.            *)
THEOREM DirTypeCorrect == Spec => []TypeOK
<1>1. IInv => TypeOK  BY DEF IInv
<1> QED BY <1>1, AlwaysIInv, PTL

(* However many threads of however many processes open sections of a       *)
(* directory, and wherever some of them are killed, no desc gets a second  *)
(* entry or a second block.                                                *)
THEOREM OneSection == Spec => []OneSectionPerDesc
<1>1. IInv => OneSectionPerDesc  BY DEF IInv, DiskInv, OneSectionPerDesc
<1> QED BY <1>1, AlwaysIInv, PTL

-----------------------------------------------------------------------------
(* The iteration. A direct entry gets its desc first: while it has no      *)
(* block, its creator is on the way from findEntry to the store of the id, *)
(* or was killed there. And a taken lock has a holder, or had one.         *)
Promised ==
  \A i \in 1 .. Slots : slots[i].desc # 0 /\ slots[i].blockId = 0 =>
    /\ atomic_lock = 1
    /\ \A t \in Threads : Inside(t) =>
         Creates(t) /\ pc[t] \in {"first", "second", "link"} /\ pos[t] = i

Held == atomic_lock = 1 => \E t \in Threads : Inside(t) \/ pc[t] = "dead"

IterInv == IInv /\ Promised /\ Held

(* Who does not touch the entries keeps a promise if it keeps its own.     *)
LEMMA PromiseKept ==
  ASSUME IterInv, NEW t \in Threads, OthersSame(t), UNCHANGED slots,
         \/ UNCHANGED atomic_lock /\ (Inside(t) => Inside(t)' \/ pc'[t] = "dead")
         \/ TakesLock(t) /\ Inside(t)'
         \/ atomic_lock' = 0 /\ Inside(t) /\ pc[t] = "unlock",
         Inside(t)' =>
           \/ atomic_lock = 0
           \/ Inside(t) /\ pc[t] = "scan"
           \/ Inside(t) /\ pc[t] = "second" /\ pc'[t] = "unlock"
                /\ (Creates(t) => slots[pos[t]].blockId # 0)
           \/ /\ Inside(t) /\ pc[t] \in {"first", "second", "link"}
              /\ pc'[t] \in {"first", "second", "link"} /\ UNCHANGED <<op, pos>>,
         pc[t] = "dead" => pc'[t] = "dead"
  PROVE  Promised' /\ Held'
<1>1. \A u \in Threads \ {t} :
        /\ Inside(u)' <=> Inside(u)
        /\ Creates(u)' <=> Creates(u)
        /\ pc'[u] = pc[u] /\ pos'[u] = pos[u]
  BY DEF OthersSame, Same, Inside, Locks, Creates
<1>2. atomic_lock \in {0, 1}  BY DEF IterInv, IInv, TypeOK
<1>3. Promised'
  <2>1. SUFFICES ASSUME NEW i \in 1 .. Slots, slots[i].desc # 0, slots[i].blockId = 0
                 PROVE  /\ atomic_lock' = 1
                        /\ \A u \in Threads : Inside(u)' =>
                             Creates(u)' /\ pc'[u] \in {"first", "second", "link"} /\ pos'[u] = i
    BY DEF Promised, Slots
  <2>2. /\ atomic_lock = 1
        /\ \A u \in Threads : Inside(u) =>
             Creates(u) /\ pc[u] \in {"first", "second", "link"} /\ pos[u] = i
    BY <2>1 DEF IterInv, Promised
  <2>3. atomic_lock' = 1  BY <2>2 DEF TakesLock
  <2>4. Inside(t)' => Creates(t)' /\ pc'[t] \in {"first", "second", "link"} /\ pos'[t] = i
    BY <2>1, <2>2 DEF Creates
  <2> QED BY <1>1, <2>2, <2>3, <2>4
<1>4. Held'
  BY <1>1, <1>2 DEF IterInv, Held, TakesLock
<1> QED BY <1>3, <1>4

LEMMA PromiseSteps ==
  ASSUME IterInv, NEW t \in Threads, OpenSection(t)
  PROVE  Promised' /\ Held'
<1>1. /\ TypeOK /\ ThreadInv(t) /\ LockInv /\ tables \in 0 .. MaxTables /\ Slots \in Nat
  BY Bounds DEF IterInv, IInv, TypeOK
<1>2. pc \in [Threads -> {"idle", "lock", "scan", "first", "second", "link", "name",
                          "unlock", "done", "dead"}]
  BY <1>1 DEF TypeOK
<1>3. ASSUME UNCHANGED <<slots, atomic_lock, op>>, pc[t] = "scan", OthersSame(t),
             pc'[t] \in {"scan", "first"} \/ (pc'[t] = IF Locks(t) THEN "unlock" ELSE "done")
      PROVE  Promised' /\ Held'
  BY <1>3, PromiseKept DEF Inside, Locks
<1>4. CASE NoDesc(t)
  BY <1>1, <1>2, <1>3, <1>4 DEF NoDesc, Finish, Goto, OthersSame, Same, TypeOK, disk
<1>5. CASE ScanNext(t)
  BY <1>1, <1>2, <1>3, <1>5 DEF ScanNext, Goto, OthersSame, Same, TypeOK, disk
<1>6. CASE ScanHit(t)
  BY <1>1, <1>2, <1>3, <1>6 DEF ScanHit, Goto, OthersSame, Same, TypeOK, disk
<1>7. CASE MissDirect(t)
  BY <1>1, <1>2, <1>3, <1>7 DEF MissDirect, Finish, Goto, OthersSame, Same, TypeOK, disk
<1>8. CASE MissTable(t)
  BY <1>1, <1>2, <1>3, <1>8 DEF MissTable, Goto, OthersSame, Same, TypeOK, disk
<1>9. CASE NewTable(t)
  BY <1>1, <1>2, <1>3, <1>9 DEF NewTable, Goto, OthersSame, Same, TypeOK
<1>10. CASE Full(t)
  BY <1>1, <1>2, <1>3, <1>10 DEF Full, Finish, Goto, OthersSame, Same, TypeOK, disk
<1>11. CASE TakeFree(t)
  <2> USE <1>11 DEF TakeFree, Goto
  <2>1. /\ pc[t] = "scan" /\ pc'[t] = "first" /\ Creates(t) /\ Inside(t)
        /\ UNCHANGED <<atomic_lock, op, pos>> /\ OthersSame(t) /\ pos[t] \in 1 .. Slots
    BY <1>1, <1>2, Positions DEF OthersSame, Same, TypeOK, Creates, Inside, Locks
  <2>2. Inside(t)' /\ Creates(t)'  BY <2>1 DEF Inside, Locks, Creates
  <2>3. atomic_lock = 1 /\ \A u \in Threads : Inside(u) => u = t
    BY <1>1, <2>1 DEF LockInv
  <2>4. \A u \in Threads : Inside(u)' => u = t
    BY <2>1, <2>3 DEF OthersSame, Same, Inside, Locks
  <2>5. \A i \in 1 .. Slots : i # pos[t] => slots'[i] = slots[i]
    BY <1>1, <2>1 DEF TypeOK
  <2>6. \A i \in 1 .. Slots : slots[i].desc # 0 /\ slots[i].blockId = 0 => FALSE
    BY <2>1 DEF IterInv, Promised
  <2>7. Promised'  BY <2>1, <2>2, <2>3, <2>4, <2>5, <2>6 DEF Promised, Slots
  <2> QED BY <2>2, <2>7 DEF Held
<1>12. CASE ReadHalf(t)
  BY <1>1, <1>2, <1>12, PromiseKept
  DEF ReadHalf, Goto, OthersSame, Same, TypeOK, disk, Inside, Locks
<1>13. ASSUME pc[t] = "second", Creates(t)
       PROVE  /\ val[t] = Slot(t).blockId /\ Slot(t).blockId \in Nat
              /\ Torn(val[t], Slot(t).blockId) = {Slot(t).blockId}
  <2>1. val[t] = slots[pos[t]].blockId /\ pos[t] \in 1 .. Slots
    BY <1>1, <1>13, Positions DEF ThreadInv, CreatorInv
  <2> QED BY <1>1, <2>1, TornSame DEF TypeOK, Slot
<1>14. CASE Unlinked(t)
  <2> USE <1>14 DEF Unlinked
  <2>1. CASE Creates(t) /\ Goto(t, "second", "link") /\ UNCHANGED out
    BY <1>1, <1>2, <2>1, PromiseKept DEF Goto, OthersSame, Same, TypeOK, disk, Inside, Locks
  <2>2. CASE ~Creates(t) /\ Finish(t, "second", Nothing("null"))
    BY <1>1, <1>2, <2>2, PromiseKept
    DEF Finish, Goto, OthersSame, Same, TypeOK, disk, Inside, Locks
  <2> QED BY <2>1, <2>2
<1>15. CASE Linked(t)
  <2> USE <1>15 DEF Linked
  <2>1. PICK id \in Torn(val[t], Slot(t).blockId) \ {0} : Finish(t, "second", Section(t, id))
    OBVIOUS
  <2>2. Creates(t) => slots[pos[t]].blockId # 0  BY <1>13, <2>1 DEF Slot
  <2>3. /\ OthersSame(t) /\ UNCHANGED <<slots, atomic_lock, op>> /\ pc[t] = "second"
        /\ pc'[t] = IF Locks(t) THEN "unlock" ELSE "done"
    BY <1>1, <1>2, <2>1 DEF Finish, Goto, OthersSame, Same, TypeOK, disk
  <2> QED BY <2>2, <2>3, PromiseKept DEF Inside, Locks
<1>16. ASSUME pc[t] \in {"link", "name"}, pos[t] \in 1 .. Slots,
              pc'[t] \in {"name", "unlock"}, UNCHANGED <<op, pos, atomic_lock>>, OthersSame(t),
              \A i \in 1 .. Slots : i # pos[t] => slots'[i] = slots[i],
              slots'[pos[t]].blockId # 0
       PROVE  Promised' /\ Held'
  <2>1. Locks(t) /\ Inside(t)  BY <1>1, <1>16 DEF Inside, Locks, Creates, ThreadInv, CallInv
  <2>2. Inside(t)'  BY <1>16, <2>1 DEF Inside, Locks
  <2>3. \A i \in 1 .. Slots : slots[i].desc # 0 /\ slots[i].blockId = 0 => i = pos[t]
    BY <2>1 DEF IterInv, Promised
  <2> QED BY <1>16, <2>2, <2>3 DEF Promised, Held, Slots
<1>17. CASE Link(t)
  <2> USE <1>17 DEF Link, Goto
  <2>1. Creates(t) /\ pos[t] \in 1 .. Slots
    BY <1>1, Positions DEF ThreadInv, CallInv, CreatorInv
  <2>2. NewId # 0
    <3>1. NewId = 2 + tables + Cardinality(LinkedSlots)
      BY DEF IterInv, IInv, DiskInv, BlocksInv
    <3> QED BY <1>1, <3>1, LinkedFinite
  <2>3. slots'[pos[t]].blockId # 0 /\ \A i \in 1 .. Slots : i # pos[t] => slots'[i] = slots[i]
    <3>1. slots' = [slots EXCEPT ![pos[t]] = [@ EXCEPT !.blockId = NewId]]  OBVIOUS
    <3>2. slots[pos[t]] \in [desc : Nat, blockId : Nat]  BY <1>1, <2>1 DEF TypeOK
    <3>3. DOMAIN slots = 1 .. Slots  BY <1>1 DEF TypeOK
    <3>4. slots'[pos[t]] = [slots[pos[t]] EXCEPT !.blockId = NewId]  BY <2>1, <3>1, <3>3
    <3> QED BY <2>2, <3>1, <3>2, <3>3, <3>4
  <2> QED BY <1>1, <1>2, <1>16, <2>1, <2>3 DEF OthersSame, Same, TypeOK
<1>18. CASE Name(t)
  <2> USE <1>18 DEF Name, Finish, Goto
  <2>1. /\ Creates(t) /\ pos[t] \in 1 .. Slots /\ slots[pos[t]].blockId # 0
        /\ pc'[t] = "unlock"
    BY <1>1, <1>2, Positions DEF ThreadInv, CallInv, CreatorInv, Creates, Locks
  <2>2. /\ slots'[pos[t]].blockId # 0
        /\ \A i \in 1 .. Slots : i # pos[t] => slots'[i] = slots[i]
    <3>1. slots' = [slots EXCEPT ![pos[t]] = [@ EXCEPT !.desc = op[t].desc]]  OBVIOUS
    <3>2. slots[pos[t]] \in [desc : Nat, blockId : Nat]  BY <1>1, <2>1 DEF TypeOK
    <3> QED BY <1>1, <2>1, <3>1, <3>2 DEF TypeOK
  <2> QED BY <1>1, <1>2, <1>16, <2>1, <2>2 DEF OthersSame, Same, TypeOK
<1>19. CASE Unlock(t)
  BY <1>1, <1>2, <1>19, PromiseKept
  DEF Unlock, Goto, OthersSame, Same, TypeOK, Inside, Locks, ThreadInv, CallInv
<1>20. CASE Return(t)
  BY <1>1, <1>2, <1>20, PromiseKept DEF Return, Goto, OthersSame, Same, TypeOK, Inside, disk
<1> QED
  BY <1>4, <1>5, <1>6, <1>7, <1>8, <1>9, <1>10, <1>11, <1>12, <1>14, <1>15, <1>17, <1>18,
     <1>19, <1>20 DEF OpenSection, FindEntry

LEMMA NextIterInv == IterInv /\ [Next]_vars => IterInv'
<1> SUFFICES ASSUME IterInv, [Next]_vars PROVE Promised' /\ Held'
  BY NextIInv DEF IterInv
<1>1. TypeOK  BY DEF IterInv, IInv
<1>2. ASSUME NEW t \in Threads, NEW o \in Ops, Begin(t, o) PROVE Promised' /\ Held'
  <2>1. /\ OthersSame(t) /\ UNCHANGED <<slots, atomic_lock>> /\ pc[t] = "idle"
        /\ op'[t] = o /\ pc'[t] = IF o.mode = "lookup" THEN "scan" ELSE "lock"
    BY <1>1, <1>2 DEF Begin, Goto, OthersSame, Same, TypeOK, disk
  <2>2. ~Inside(t) /\ ~Inside(t)'  BY <2>1 DEF Inside, Locks
  <2> QED BY <2>1, <2>2, PromiseKept
<1>3. ASSUME NEW t \in Threads, Lock(t) PROVE Promised' /\ Held'
  <2>1. Locks(t)  BY <1>3 DEF IterInv, IInv, ThreadInv, CallInv, Lock, Goto
  <2> QED
    BY <1>1, <1>3, <2>1, PromiseKept
    DEF Lock, Goto, OthersSame, Same, TypeOK, Inside, Locks, TakesLock
<1>4. ASSUME NEW t \in Threads, Kill(t) PROVE Promised' /\ Held'
  BY <1>1, <1>4, PromiseKept DEF Kill, OthersSame, Same, TypeOK, Inside, disk
<1>5. CASE UNCHANGED vars
  BY <1>5 DEF IterInv, Promised, Held, vars, Inside, Locks, Creates, Slots
<1>6. Killable \subseteq Threads  BY DEF SectionDirAssumption
<1> QED BY <1>2, <1>3, <1>4, <1>5, <1>6, PromiseSteps DEF Next

(* Whenever an iteration comes by, whoever was killed wherever, it yields  *)
(* sections or the id 0 of an entry whose creator has the lock, and all    *)
(* sections when nobody is inside (fsl_lib.h:239-365).                     *)
THEOREM IterationIsSound == Spec => []IterationFindsSections
<1>1. Init => IterInv
  BY InitIInv DEF IterInv, Promised, Held, Init, Free
<1>2. IterInv => IterationFindsSections
  <2> SUFFICES ASSUME IterInv PROVE IterationFindsSections  OBVIOUS
  <2>1. /\ TypeOK /\ BlocksInv /\ RowInv /\ Settled
        /\ Slots \in Nat /\ Visible \in Nat /\ Visible <= Slots
    BY Bounds DEF IterInv, IInv, DiskInv, TypeOK
  <2>2. \A i \in 1 .. Slots : slots[i].blockId \in Sections \cup {0}
    BY <2>1 DEF BlocksInv, LinkedSlots, TypeOK
  <2>3. \A i \in 1 .. Visible : i \in 1 .. Slots  BY <2>1
  <2>4. Iterated \subseteq Sections \cup {0}  BY <2>2, <2>3 DEF Iterated
  <2>5. ASSUME 0 \in Iterated PROVE atomic_lock = 1
    <3>1. PICK i \in 1 .. Visible : slots[i].blockId = 0 /\ slots[i].desc # 0
      BY <2>1, <2>5 DEF Iterated
    <3> QED BY <2>3, <3>1 DEF IterInv, Promised
  <2>6. ASSUME \A t \in Threads : pc[t] = "idle" PROVE Iterated = Sections
    <3>1. atomic_lock # 1  BY <2>6 DEF IterInv, Held, Inside
    <3>2. 0 \notin Iterated  BY <2>5, <3>1
    <3>3. ASSUME NEW b \in Sections PROVE b \in Iterated
      <4>1. PICK i \in 1 .. Slots : slots[i] = [desc |-> blocks[b].desc, blockId |-> b]
        BY <2>1, <3>1, <3>3 DEF Settled, HasEntry
      <4>2. slots[i].desc # 0 /\ slots[i].blockId = b  BY <2>1, <4>1 DEF BlocksInv
      <4>3. i \in 1 .. Visible  BY <2>1, <4>2 DEF RowInv
      <4>4. \A k \in 1 .. i : slots[k].desc # 0
        <5>1. \A k \in 1 .. i : k \in 1 .. Slots /\ (k = i \/ k < i)  BY <2>1
        <5> QED BY <2>1, <4>2, <5>1 DEF RowInv
      <4> QED BY <4>2, <4>3, <4>4 DEF Iterated
    <3> QED BY <2>4, <3>2, <3>3
  <2> QED BY <2>4, <2>5, <2>6 DEF IterationFindsSections
<1> QED BY <1>1, <1>2, NextIterInv, PTL DEF Spec

-----------------------------------------------------------------------------
(* Entries are never given back, and a search has seen the entries before  *)
(* the one it looks at; a search that left out others is in the tables.    *)
LEMMA EntriesStay ==
  ASSUME IInv, [Next]_vars, NEW i \in 1 .. Slots, slots[i].desc # 0
  PROVE  slots'[i].desc # 0
<1>1. TypeOK  BY DEF IInv
<1>2. slots[i] \in [desc : Nat, blockId : Nat] /\ i \in DOMAIN slots  BY <1>1 DEF TypeOK
<1>3. ASSUME NEW t \in Threads, TakeFree(t) PROVE slots'[i].desc # 0
  BY <1>2, <1>3 DEF TakeFree
<1>4. ASSUME NEW t \in Threads, Link(t) PROVE slots'[i].desc # 0
  BY <1>2, <1>4 DEF Link
<1>5. ASSUME NEW t \in Threads, Name(t) PROVE slots'[i].desc # 0
  <2>1. op[t].desc # 0  BY <1>5 DEF IInv, ThreadInv, CallInv, Name, Finish, Goto
  <2> QED BY <1>2, <1>5, <2>1 DEF Name
<1>6. CASE UNCHANGED slots  BY <1>6
<1>7. \/ UNCHANGED slots
      \/ \E t \in Threads : TakeFree(t) \/ Link(t) \/ Name(t)
  <2>1. ASSUME NEW t \in Threads, FindEntry(t) PROVE UNCHANGED slots \/ TakeFree(t)
    BY <2>1 DEF FindEntry, NoDesc, ScanNext, ScanHit, MissDirect, MissTable, NewTable, Full, disk
  <2>2. ASSUME NEW t \in Threads, OpenSection(t)
        PROVE  UNCHANGED slots \/ TakeFree(t) \/ Link(t) \/ Name(t)
    BY <2>1, <2>2 DEF OpenSection, ReadHalf, Unlinked, Linked, Unlock, Return, disk
  <2>3. ASSUME NEW t \in Threads, (\E o \in Ops : Begin(t, o)) \/ Lock(t) \/ Kill(t)
        PROVE  UNCHANGED slots
    BY <2>3 DEF Begin, Lock, Kill, disk
  <2>4. Killable \subseteq Threads  BY DEF SectionDirAssumption
  <2> QED BY <2>2, <2>3, <2>4 DEF Next, vars
<1> QED BY <1>3, <1>4, <1>5, <1>6, <1>7

LEMMA OwnSlots ==
  ASSUME TypeOK
  PROVE  Slots \in Nat /\ Direct <= Slots /\ \A i \in 1 .. Direct : i \in 1 .. Slots
<1>1. tables \in 0 .. MaxTables  BY Zenon DEF TypeOK
<1>2. /\ Slots \in Nat /\ Visible \in Nat /\ Visible <= Slots /\ Direct <= Visible
  BY <1>1, Bounds
<1> QED BY <1>2

(* Where a search ends that has gone beyond the tables.                    *)
LEMMA Beyond ==
  ASSUME NEW n \in Nat, NEW v \in Nat, NEW p \in 1 .. n + 1, v < p, Direct <= v
  PROVE  /\ \A i \in 1 .. Direct : i \in 1 .. p - 1
         /\ v = n => \A i \in 1 .. n : i \in 1 .. p - 1
  OBVIOUS

SeenBy(t) == \A i \in 1 .. pos[t] - 1 : i <= Direct => slots[i].desc # 0

PassedInv == \A t \in Threads : pc[t] = "scan" => SeenBy(t)

LEMMA NextPassed ==
  ASSUME IInv, PassedInv, [Next]_vars
  PROVE  PassedInv'
<1>1. TypeOK /\ Slots \in Nat /\ Direct <= Slots /\ \A t \in Threads : pos[t] \in Nat
  <2>1. TypeOK  BY DEF IInv
  <2> QED BY <2>1, OwnSlots, Positions
<1>2. \A i \in 1 .. Slots : slots[i].desc # 0 => slots'[i].desc # 0  BY EntriesStay
<1>3. ASSUME NEW t \in Threads, SeenBy(t), pos'[t] = pos[t] PROVE SeenBy(t)'
  BY <1>1, <1>2, <1>3 DEF SeenBy
<1>4. ASSUME NEW t \in Threads, pos'[t] = 1 PROVE SeenBy(t)'
  BY <1>4 DEF SeenBy
<1>5. ASSUME NEW t \in Threads, OthersSame(t), pc'[t] = "scan" => SeenBy(t)' PROVE PassedInv'
  <2>1. \A u \in Threads \ {t} : pc'[u] = pc[u] /\ pos'[u] = pos[u]
    BY <1>5 DEF OthersSame, Same
  <2>2. \A u \in Threads \ {t} : pc'[u] = "scan" => SeenBy(u)'  BY <1>3, <2>1 DEF PassedInv
  <2> QED BY <1>5, <2>2 DEF PassedInv
<1>6. ASSUME NEW t \in Threads, NEW o \in Ops, Begin(t, o) PROVE PassedInv'
  <2>1. OthersSame(t) /\ pos' = pos /\ pc[t] = "idle"
    BY <1>1, <1>6 DEF Begin, Goto, disk, OthersSame, Same, TypeOK
  <2>2. pos[t] = 1  BY <2>1 DEF IInv, ThreadInv, CallInv
  <2> QED BY <1>4, <1>5, <2>1, <2>2
<1>7. ASSUME NEW t \in Threads, Lock(t) PROVE PassedInv'
  <2>1. OthersSame(t) /\ pos' = pos /\ pc[t] = "lock"
    BY <1>1, <1>7 DEF Lock, Goto, OthersSame, Same, TypeOK
  <2>2. pos[t] = 1  BY <2>1 DEF IInv, ThreadInv, CallInv
  <2> QED BY <1>4, <1>5, <2>1, <2>2
<1>8. ASSUME NEW t \in Threads, ScanNext(t) PROVE PassedInv'
  <2>1. /\ OthersSame(t) /\ slots' = slots /\ pos'[t] = pos[t] + 1 /\ pc[t] = "scan"
        /\ slots[pos[t]].desc # 0
    BY <1>1, <1>8 DEF ScanNext, Goto, disk, OthersSame, Same, Slot, TypeOK
  <2>2. \A i \in 1 .. pos[t] : i = pos[t] \/ i \in 1 .. pos[t] - 1  BY <1>1
  <2>3. SeenBy(t)'  BY <1>1, <2>1, <2>2 DEF SeenBy, PassedInv
  <2> QED BY <1>5, <2>1, <2>3
<1>9. ASSUME NEW t \in Threads, MissTable(t) PROVE PassedInv'
  <2>1. OthersSame(t) /\ slots' = slots /\ pc[t] = "scan" /\ pos[t] > Direct
    BY <1>1, <1>9 DEF MissTable, Goto, disk, OthersSame, Same, TypeOK
  <2>2. \A i \in 1 .. Slots : i <= Direct => i \in 1 .. pos[t] - 1  BY <1>1, <2>1
  <2>3. pos'[t] \in 1 .. Slots + 1
    BY NextIInv DEF IInv, TypeOK, Slots
  <2>4. \A i \in 1 .. pos'[t] - 1 : i \in 1 .. Slots  BY <1>1, <2>3
  <2>5. SeenBy(t)'  BY <2>1, <2>2, <2>4 DEF SeenBy, PassedInv
  <2> QED BY <1>5, <2>1, <2>5
<1>10. ASSUME NEW t \in Threads, NewTable(t) PROVE PassedInv'
  <2>1. OthersSame(t) /\ pos' = pos /\ pc[t] = "scan"
    BY <1>1, <1>10 DEF NewTable, Goto, OthersSame, Same, TypeOK
  <2> QED BY <1>3, <1>5, <2>1 DEF PassedInv
<1>11. ASSUME NEW t \in Threads, NoDesc(t) \/ ScanHit(t) \/ TakeFree(t) \/ MissDirect(t) \/ Full(t)
       PROVE  PassedInv'
  BY <1>1, <1>5, <1>11
  DEF NoDesc, ScanHit, TakeFree, MissDirect, Full, Finish, Goto, disk, OthersSame, Same, TypeOK
<1>12. ASSUME NEW t \in Threads, ReadHalf(t) \/ Unlinked(t) \/ Linked(t) \/ Link(t) \/ Name(t)
       PROVE  PassedInv'
  <2>1. OthersSame(t) /\ pc'[t] # "scan"
    BY <1>1, <1>12
    DEF ReadHalf, Unlinked, Linked, Link, Name, Finish, Goto, disk, OthersSame, Same, TypeOK
  <2> QED BY <1>5, <2>1
<1>13. ASSUME NEW t \in Threads, Unlock(t) \/ Return(t) \/ Kill(t) PROVE PassedInv'
  <2>1. CASE Unlock(t)
    <3>1. OthersSame(t) /\ pc'[t] # "scan"
      BY <1>1, <2>1 DEF Unlock, Goto, OthersSame, Same, TypeOK
    <3> QED BY <1>5, <3>1
  <2>2. CASE Return(t)
    <3>1. pc'[t] # "scan" /\ \A u \in Threads \ {t} : pc'[u] = pc[u] /\ pos'[u] = pos[u]
      BY <1>1, <2>2 DEF Return, Goto, TypeOK
    <3> QED BY <1>3, <3>1 DEF PassedInv
  <2>3. CASE Kill(t)
    <3>1. OthersSame(t) /\ pc'[t] # "scan"
      BY <1>1, <2>3 DEF Kill, disk, OthersSame, Same, TypeOK
    <3> QED BY <1>5, <3>1
  <2> QED BY <1>13, <2>1, <2>2, <2>3
<1>14. CASE UNCHANGED vars
  BY <1>3, <1>14 DEF vars, PassedInv
<1>15. Killable \subseteq Threads  BY DEF SectionDirAssumption
<1>16. ASSUME NEW t \in Threads, FindEntry(t) PROVE PassedInv'
  BY <1>8, <1>9, <1>10, <1>11, <1>16 DEF FindEntry
<1>17. ASSUME NEW t \in Threads, OpenSection(t) PROVE PassedInv'
  BY <1>12, <1>13, <1>16, <1>17 DEF OpenSection
<1> QED BY <1>6, <1>7, <1>13, <1>14, <1>15, <1>17 DEF Next

LEMMA AlwaysPassed == Spec => []PassedInv
<1>1. Init => PassedInv  BY DEF Init, PassedInv
<1> QED BY <1>1, AlwaysIInv, NextPassed, PTL DEF Spec

-----------------------------------------------------------------------------
(* The refinement. An id that fits into the lower half is read as it was   *)
(* stored, or as the 0 it replaced.                                        *)
SmallIds == Half > 1 + Slots + MaxTables

Calls   == [t \in Threads |-> IF pc[t] = "dead" THEN NoOp ELSE op[t]]
Results == [t \in Threads |-> IF pc[t] = "dead" THEN Nothing("none") ELSE out[t]]
Lates   == [t \in Threads |-> pc[t] # "dead" /\ late[t]]

LEMMA FoundIs ==
  ASSUME NEW d, NEW b
  PROVE  b \in Found(d) <=>
           d # 0 /\ b # 0 /\ \E i \in 1 .. Slots : slots[i].desc = d /\ slots[i].blockId = b
  BY DEF Found

LEMMA OneFound ==
  IInv => \A d : \A b \in Found(d) :
    /\ Found(d) = {b} /\ b \in Sections /\ b \in 2 .. 1 + Slots + MaxTables
    /\ \A e : b \in Found(e) => e = d
<1> SUFFICES ASSUME IInv, NEW d, NEW b \in Found(d)
             PROVE  /\ Found(d) = {b} /\ b \in Sections /\ b \in 2 .. 1 + Slots + MaxTables
                    /\ \A e : b \in Found(e) => e = d
  OBVIOUS
<1>1. TypeOK /\ BlocksInv /\ OneSlotPerDesc  BY DEF IInv, DiskInv
<1>2. PICK i \in 1 .. Slots : slots[i].desc = d /\ slots[i].blockId = b
  BY FoundIs
<1>3. d # 0 /\ b # 0 /\ i \in LinkedSlots  BY <1>2, FoundIs DEF LinkedSlots
<1>4. b \in Sections  BY <1>1, <1>2, <1>3 DEF BlocksInv
<1>5. b \in 2 .. 1 + Slots + MaxTables
  <2>1. NewId \in Nat /\ b \in 0 .. NewId - 1 /\ b > 1
    BY <1>1, <1>4 DEF BlocksInv, Sections
  <2>2. /\ tables \in 0 .. MaxTables /\ Cardinality(LinkedSlots) \in Nat
        /\ Cardinality(LinkedSlots) <= Slots /\ Slots \in Nat
    BY <1>1, LinkedFinite, Bounds DEF TypeOK
  <2>3. NewId = 2 + tables + Cardinality(LinkedSlots)  BY <1>1 DEF BlocksInv
  <2> DEFINE c == Cardinality(LinkedSlots)
  <2>4. c \in Nat /\ c <= Slots /\ NewId = 2 + tables + c  BY <2>2, <2>3
  <2> HIDE DEF c
  <2> QED BY <2>1, <2>2, <2>4
<1>6. \A j \in 1 .. Slots : slots[j].desc = d => j = i
  BY <1>1, <1>2, <1>3 DEF OneSlotPerDesc
<1>7. Found(d) = {b}
  <2>1. \A c : c \in Found(d) => c = b
    <3>1. SUFFICES ASSUME NEW c, c \in Found(d) PROVE c = b  OBVIOUS
    <3>2. PICK j \in 1 .. Slots : slots[j].desc = d /\ slots[j].blockId = c
      BY <3>1, FoundIs
    <3> QED BY <1>2, <1>6, <3>2
  <2> QED BY <2>1
<1>8. ASSUME NEW e, b \in Found(e) PROVE e = d
  <2>1. PICK j \in 1 .. Slots : slots[j].desc = e /\ slots[j].blockId = b
    BY <1>8, FoundIs
  <2>2. i = j  BY <1>1, <1>2, <1>3, <2>1 DEF BlocksInv
  <2> QED BY <1>2, <2>1, <2>2
<1> QED BY <1>4, <1>5, <1>7, <1>8

LEMMA OneFoundNext ==
  (IInv => \A d : \A b \in Found(d) :
    /\ b \in 2 .. 1 + Slots + MaxTables
    /\ \A e : b \in Found(e) => e = d)'
<1>1. IInv => \A d : \A b \in Found(d) :
        /\ b \in 2 .. 1 + Slots + MaxTables
        /\ \A e : b \in Found(e) => e = d
  BY OneFound
<1> QED BY <1>1, PTL

LEMMA Named ==
  IInv => \A d \in Descs :
    /\ \A b \in Found(d) : AbstractSections[d] = [id |-> b, kind |-> blocks[b].kind]
    /\ Found(d) = {} => AbstractSections[d] = NoSection
<1> SUFFICES ASSUME IInv, NEW d \in Descs
             PROVE  /\ \A b \in Found(d) : AbstractSections[d] = [id |-> b, kind |-> blocks[b].kind]
                    /\ Found(d) = {} => AbstractSections[d] = NoSection
  OBVIOUS
<1>1. Found(d) = {} => AbstractSections[d] = NoSection  BY DEF AbstractSections
<1>2. ASSUME NEW b \in Found(d) PROVE AbstractSections[d] = [id |-> b, kind |-> blocks[b].kind]
  <2>1. Found(d) = {b}  BY OneFound
  <2>2. (CHOOSE x \in Found(d) : TRUE) = b  BY <2>1
  <2> QED BY <2>1, <2>2 DEF AbstractSections
<1> QED BY <1>1, <1>2

LEMMA NamedNext ==
  (IInv => \A d \in Descs :
    /\ \A b \in Found(d) : AbstractSections[d] = [id |-> b, kind |-> blocks[b].kind]
    /\ Found(d) = {} => AbstractSections[d] = NoSection)'
  BY Named, PTL

LEMMA SectionsSame ==
  ASSUME IInv, IInv', \A d \in Descs : Found(d)' = Found(d),
         \A b \in Sections : blocks'[b] = blocks[b]
  PROVE  AbstractSections' = AbstractSections
<1>1. ASSUME NEW d \in Descs PROVE AbstractSections'[d] = AbstractSections[d]
  <2>1. CASE Found(d) = {}
    <3>1. Found(d)' = {}  BY <2>1
    <3>2. AbstractSections'[d] = NoSection  BY <3>1 DEF AbstractSections, NoSection
    <3> QED BY <2>1, <3>2, Named
  <2>2. CASE \E b : b \in Found(d)
    <3>1. PICK b : b \in Found(d)  BY <2>2
    <3>2. AbstractSections[d] = [id |-> b, kind |-> blocks[b].kind] /\ b \in Sections
      BY <3>1, Named, OneFound
    <3>3. b \in Found(d)'  BY <3>1
    <3>4. AbstractSections'[d] = [id |-> b, kind |-> blocks'[b].kind]  BY <3>3, NamedNext
    <3> QED BY <3>2, <3>4
  <2> QED BY <2>1, <2>2
<1> QED BY <1>1 DEF AbstractSections

LEMMA SectionAdded ==
  ASSUME IInv, IInv', NEW d \in Descs, NEW b, Found(d) = {}, Found(d)' = {b},
         \A e \in Descs \ {d} : Found(e)' = Found(e), \A c \in Sections : blocks'[c] = blocks[c]
  PROVE  AbstractSections' = [AbstractSections EXCEPT ![d] = [id |-> b, kind |-> blocks'[b].kind]]
<1>1. AbstractSections'[d] = [id |-> b, kind |-> blocks'[b].kind]  BY NamedNext
<1>2. ASSUME NEW e \in Descs \ {d} PROVE AbstractSections'[e] = AbstractSections[e]
  <2>1. Found(e)' = Found(e)  OBVIOUS
  <2>2. CASE Found(e) = {}
    <3>1. AbstractSections'[e] = NoSection'  BY <2>1, <2>2, NamedNext
    <3>2. AbstractSections[e] = NoSection  BY <2>2, Named
    <3> QED BY <3>1, <3>2 DEF NoSection
  <2>3. CASE \E c : c \in Found(e)
    <3>1. PICK c : c \in Found(e)  BY <2>3
    <3>2. AbstractSections[e] = [id |-> c, kind |-> blocks[c].kind] /\ c \in Sections
      BY <3>1, Named, OneFound
    <3>3. c \in Found(e)'  BY <2>1, <3>1
    <3>4. AbstractSections'[e] = [id |-> c, kind |-> blocks'[c].kind]  BY <3>3, NamedNext
    <3> QED BY <3>2, <3>4
  <2> QED BY <2>2, <2>3
<1> QED BY <1>1, <1>2 DEF AbstractSections

(* The state of the calls.                                                 *)
LEMMA CallStep ==
  ASSUME TypeOK, NEW t \in Threads, OthersSame(t), pc[t] # "dead", pc'[t] # "dead"
  PROVE  /\ Calls[t] = op[t] /\ Results[t] = out[t] /\ Lates[t] = late[t]
         /\ Calls' = [Calls EXCEPT ![t] = op'[t]]
         /\ Results' = [Results EXCEPT ![t] = out'[t]]
         /\ Lates' = [Lates EXCEPT ![t] = (late'[t] = TRUE)]
         /\ op'[t] = op[t] => Calls' = Calls
         /\ TypeOK' /\ late'[t] = late[t] => Lates' = Lates
<1>1. late[t] \in BOOLEAN  BY DEF TypeOK
<1>2. Calls' = [Calls EXCEPT ![t] = op'[t]]  BY DEF Calls, OthersSame, Same
<1>3. Results' = [Results EXCEPT ![t] = out'[t]]  BY DEF Results, OthersSame, Same
<1>4. Lates' = [Lates EXCEPT ![t] = (late'[t] = TRUE)]  BY DEF Lates, OthersSame, Same
<1>5. op'[t] = op[t] => Calls' = Calls  BY DEF Calls, OthersSame, Same
<1>6. TypeOK' /\ late'[t] = late[t] => Lates' = Lates
  <2>1. TypeOK' => late'[t] \in BOOLEAN  BY DEF TypeOK
  <2> QED BY <1>1, <2>1 DEF Lates, OthersSame, Same
<1> QED BY <1>1, <1>2, <1>3, <1>4, <1>5, <1>6 DEF Calls, Results, Lates

(* Steps nobody sees.                                                      *)
LEMMA Unseen ==
  ASSUME TypeOK, TypeOK', NEW t \in Threads, OthersSame(t), pc[t] # "dead", pc'[t] # "dead",
         op'[t] = op[t], out'[t] = out[t], late'[t] = late[t],
         AbstractSections' = AbstractSections, Room' = Room
  PROVE  UNCHANGED Promise!vars
<1>1. late[t] \in BOOLEAN /\ late'[t] \in BOOLEAN  BY DEF TypeOK
<1>2. Calls' = Calls /\ Results' = Results /\ Lates' = Lates
  BY <1>1 DEF Calls, Results, Lates, OthersSame, Same
<1> QED BY <1>2 DEF Promise!vars, Calls, Results, Lates

LEMMA ExistsFound ==
  ASSUME IInv, NEW d, d # 0 => d \in Descs
  PROVE  Promise!Exists(d) <=> Found(d) # {}
<1>1. d # 0 /\ Found(d) = {} => AbstractSections[d] = NoSection  BY Named
<1>2. ASSUME NEW b, b \in Found(d) PROVE Promise!Exists(d)
  <2>1. d # 0 /\ b # 0  BY <1>2, FoundIs
  <2>2. AbstractSections[d] = [id |-> b, kind |-> blocks[b].kind]  BY <1>2, <2>1, Named
  <2> QED BY <2>1, <2>2 DEF Promise!Exists
<1>3. Found(d) = {} => ~Promise!Exists(d)  BY <1>1 DEF Promise!Exists, NoSection
<1> QED BY <1>2, <1>3

(* A call that has not answered yet.                                       *)
Open(t) == pc[t] \in {"scan", "first", "second", "link", "name"} /\ pc'[t] # "dead"

LEMMA Waits ==
  ASSUME IInv, NEW t \in Threads, Open(t)
  PROVE  /\ Promise!Waiting(t) /\ op[t] \in Ops /\ Calls[t] = op[t] /\ Lates[t] = late[t]
         /\ op[t].desc # 0 => op[t].desc \in Descs
<1>1. TypeOK /\ CallInv(t) /\ pc[t] \notin {"idle", "dead"}  BY DEF IInv, ThreadInv, Open
<1>2. op[t] \in Ops /\ out[t] = Nothing("none")  BY <1>1 DEF CallInv, Open
<1>3. op[t].mode # "none"  BY <1>2 DEF SectionDirAssumption, Modes
<1>4. Promise!Waiting(t)
  BY <1>1, <1>2, <1>3 DEF Promise!Waiting, Promise!NoCall, Promise!Pending, Nothing
<1>5. Lates[t] = late[t]  BY <1>1 DEF Lates, TypeOK
<1> QED BY <1>1, <1>2, <1>4, <1>5 DEF Calls, Descs

LEMMA AnswersHit ==
  ASSUME IInv, TypeOK', NEW t \in Threads, Open(t), NEW b \in Found(op[t].desc),
         OthersSame(t), op'[t] = op[t], late'[t] = late[t], out'[t] = Section(t, b),
         AbstractSections' = AbstractSections, Room' = Room
  PROVE  Promise!Hit(t)
<1>1. TypeOK /\ late[t] \in BOOLEAN  BY DEF IInv, TypeOK
<1>2. Promise!Waiting(t) /\ op[t] \in Ops  BY Waits
<1>3. op[t].desc # 0 /\ op[t].desc \in Descs  BY Waits, FoundIs
<1>4. AbstractSections[op[t].desc] = [id |-> b, kind |-> blocks[b].kind] /\ b # 0
  BY <1>3, Named, FoundIs
<1>5. /\ Calls[t] = op[t] /\ Results' = [Results EXCEPT ![t] = Section(t, b)]
      /\ Calls' = Calls /\ Lates' = Lates
  BY <1>1, CallStep DEF Open
<1>7. b \in DOMAIN blocks /\ blocks[b].kind \in Kinds  BY OneFound DEF Sections
<1>8. Section(t, b) =
        [what |-> IF op[t].mode = "type" \/ blocks[b].kind = op[t].kind THEN "opened"
                  ELSE "cast failed", id |-> b]
  BY <1>7 DEF Section, Opened
<1>9. Promise!Exists(op[t].desc)  BY <1>3, <1>4 DEF Promise!Exists
<1> HIDE DEF Calls, Results, Lates
<1> DEFINE s == AbstractSections[Calls[t].desc]
           r == [what |-> IF Calls[t].mode = "type" \/ s.kind = Calls[t].kind THEN "opened"
                          ELSE "cast failed", id |-> s.id]
<1>10. r = Section(t, b)
  <2>1. s.id = b /\ s.kind = blocks[b].kind /\ Calls[t] = op[t]  BY <1>4, <1>5
  <2> QED BY <1>8, <2>1
<1>12. Results' = [Results EXCEPT ![t] = r]
  <2> HIDE DEF r
  <2> QED BY <1>5, <1>10
<1>11. Promise!Exists(Calls[t].desc)  BY <1>5, <1>9
<1> QED BY <1>2, <1>5, <1>11, <1>12 DEF Promise!Hit, Promise!Answer, Calls, Results, Lates

LEMMA AnswersMiss ==
  ASSUME IInv, TypeOK', NEW t \in Threads, Open(t), ~late[t],
         OthersSame(t), op'[t] = op[t], late'[t] = late[t],
         AbstractSections' = AbstractSections, Room' = Room,
         \/ (~Creates(t) \/ op[t].desc = 0) /\ out'[t] = Nothing("null")
         \/ /\ op[t].desc # 0 /\ out'[t] = Nothing("dir entry is full")
            /\ \/ Creates(t) /\ Found(op[t].desc) = {} /\ Room = "none"
               \/ ~Creates(t) /\ Room # "own"
  PROVE  Promise!Miss(t) \/ Promise!RefuseCreate(t) \/ Promise!RefuseLookup(t)
<1>1. TypeOK  BY DEF IInv
<1>2. Promise!Waiting(t)  BY Waits
<1>3. /\ Calls[t] = op[t] /\ Results' = [Results EXCEPT ![t] = out'[t]]
      /\ Calls' = Calls /\ Lates' = Lates /\ Lates[t] = late[t]
  BY <1>1, CallStep DEF Open
<1>4. ~Lates[t]  BY <1>3
<1>5. Found(op[t].desc) = {} => ~Promise!Exists(op[t].desc)  BY Waits, ExistsFound
<1> HIDE DEF Calls, Results, Lates
<1> DEFINE full == [what |-> "dir entry is full", id |-> 0]
<1>6. CASE (~Creates(t) \/ op[t].desc = 0) /\ out'[t] = Nothing("null")
  <2>1. /\ Calls[t].mode # "create" \/ Calls[t].desc = 0
        /\ Results' = [Results EXCEPT ![t] = [what |-> "null", id |-> 0]]
    BY <1>3, <1>6 DEF Creates, Nothing
  <2> QED BY <1>2, <1>3, <1>4, <2>1 DEF Promise!Miss, Promise!Answer, Calls, Results, Lates
<1>7. CASE /\ op[t].desc # 0 /\ out'[t] = Nothing("dir entry is full")
           /\ Creates(t) /\ Found(op[t].desc) = {} /\ Room = "none"
  <2>1. /\ Calls[t].mode = "create" /\ Calls[t].desc # 0 /\ ~Promise!Exists(Calls[t].desc)
        /\ Results' = [Results EXCEPT ![t] = full]
    BY <1>3, <1>5, <1>7 DEF Creates, Nothing
  <2> QED BY <1>2, <1>3, <1>7, <2>1
          DEF Promise!RefuseCreate, Promise!Answer, Calls, Results, Lates
<1>8. CASE /\ op[t].desc # 0 /\ out'[t] = Nothing("dir entry is full")
           /\ ~Creates(t) /\ Room # "own"
  <2>1. /\ Calls[t].mode # "create" /\ Calls[t].desc # 0
        /\ Results' = [Results EXCEPT ![t] = full]
    BY <1>3, <1>8 DEF Creates, Nothing
  <2> QED BY <1>2, <1>3, <1>4, <1>8, <2>1
          DEF Promise!RefuseLookup, Promise!Answer, Calls, Results, Lates
<1> QED BY <1>6, <1>7, <1>8

LEMMA AnswersCreate ==
  ASSUME IInv, IInv', NEW t \in Threads, Open(t), Creates(t), NEW d \in Descs, op[t].desc = d,
         Found(d) = {}, NEW b, Found(d)' = {b},
         \A e \in Descs \ {d} : Found(e)' = Found(e),
         \A c \in Sections : blocks'[c] = blocks[c], blocks'[b].kind = op[t].kind,
         OthersSame(t), op'[t] = op[t], late'[t] = late[t], Room' \in Promise!Filled(Room),
         out'[t] = out[t] \/ out'[t] = [what |-> "opened", id |-> b]
  PROVE  \E id \in 2 .. 1 + Slots + MaxTables : Promise!Create(t, id)
<1>1. TypeOK /\ TypeOK' /\ late[t] \in BOOLEAN  BY DEF IInv, TypeOK
<1>2. Promise!Waiting(t) /\ d # 0  BY Waits DEF Descs
<1>3. /\ Calls[t] = op[t] /\ Results[t] = out[t] /\ Results' = [Results EXCEPT ![t] = out'[t]]
      /\ Calls' = Calls /\ Lates' = Lates
  BY <1>1, CallStep DEF Open
<1>5. AbstractSections' =
        [AbstractSections EXCEPT ![d] = [id |-> b, kind |-> op[t].kind]]
  BY SectionAdded
<1>6. AbstractSections[d] = NoSection  BY Named
<1>7. ~Promise!Exists(d)  BY <1>6 DEF Promise!Exists, NoSection
<1>8. /\ b \in 2 .. 1 + Slots + MaxTables
      /\ \A e \in Descs : b \in Found(e)' => e = d
  <2>1. b \in Found(d)'  OBVIOUS
  <2>2. b \in (2 .. 1 + Slots + MaxTables)' /\ \A e : b \in Found(e)' => e = d
    BY <2>1, OneFoundNext
  <2> QED BY <2>2 DEF Slots
<1>9. \A e \in Descs : AbstractSections[e].id # b
  <2>1. SUFFICES ASSUME NEW e \in Descs PROVE AbstractSections[e].id # b  OBVIOUS
  <2>2. CASE Found(e) = {}  BY <1>8, <2>2, Named DEF NoSection
  <2>3. CASE \E c : c \in Found(e)
    <3>1. PICK c : c \in Found(e)  BY <2>3
    <3>2. AbstractSections[e] = [id |-> c, kind |-> blocks[c].kind]  BY <3>1, Named
    <3>3. e # d  BY <3>1
    <3>4. c \in Found(e)'  BY <3>1, <3>3
    <3> QED BY <1>8, <3>2, <3>3, <3>4
  <2> QED BY <2>2, <2>3
<1>10. DOMAIN AbstractSections = Descs  BY DEF AbstractSections
<1> HIDE DEF Calls, Results, Lates
<1>11. Results' = Results \/ Results' = [Results EXCEPT ![t] = [what |-> "opened", id |-> b]]
  <2>1. Results = [Results EXCEPT ![t] = out[t]]  BY <1>3 DEF Results
  <2> QED BY <1>3, <2>1
<1>12. /\ Calls[t].desc = d /\ Calls[t].mode = "create"
       /\ \A e \in DOMAIN AbstractSections : AbstractSections[e].id # b
       /\ AbstractSections' = [AbstractSections EXCEPT ![d] = [id |-> b, kind |-> Calls[t].kind]]
  BY <1>3, <1>5, <1>9, <1>10 DEF Creates
<1>13. Promise!Create(t, b)
  BY <1>2, <1>3, <1>7, <1>11, <1>12 DEF Promise!Create, Promise!Answer, Calls, Results, Lates
<1> QED BY <1>8, <1>13

(* The steps of a call that leave the directory as it is.                  *)
LEMMA SectionsUntouched ==
  ASSUME UNCHANGED <<slots, blocks>>
  PROVE  AbstractSections' = AbstractSections /\ Room' = Room
<1>1. AbstractSections' = AbstractSections  BY DEF AbstractSections, Found, Slots
<1>2. Room' = Room  BY DEF Room, Slots
<1> QED BY <1>1, <1>2

LEMMA RoomFills ==
  ASSUME IInv, [Next]_vars
  PROVE  Room' \in Promise!Filled(Room)
<1>1. \A i \in 1 .. Slots : slots'[i].desc = 0 => slots[i].desc = 0  BY EntriesStay
<1>2. \A i \in 1 .. Direct : i \in 1 .. Slots  BY OwnSlots DEF IInv
<1>3. (\E i \in 1 .. Direct : slots'[i].desc = 0) => \E i \in 1 .. Direct : slots[i].desc = 0
  BY <1>1, <1>2
<1>4. (\E i \in 1 .. Slots : slots'[i].desc = 0) => \E i \in 1 .. Slots : slots[i].desc = 0
  BY <1>1
<1> QED BY <1>3, <1>4 DEF Room, Slots, Promise!Filled

LEMMA BeginMaps ==
  ASSUME IInv, IInv', NEW t \in Threads, NEW o \in Ops, Begin(t, o)
  PROVE  Promise!Begin(t, o)
<1> USE DEF Begin, Goto, disk
<1>1. TypeOK /\ TypeOK' /\ CallInv(t)  BY DEF IInv, ThreadInv
<1>2. OthersSame(t)  BY <1>1 DEF OthersSame, Same, TypeOK
<1>3. /\ pc[t] = "idle" /\ pc'[t] # "dead" /\ op[t] = NoOp /\ op'[t] = o /\ out'[t] = out[t]
      /\ late'[t] = (Found(o.desc) # {})
  BY <1>1 DEF TypeOK, CallInv
<1>4. /\ Calls[t] = NoOp /\ Calls' = [Calls EXCEPT ![t] = o]
      /\ Results[t] = out[t] /\ Results' = [Results EXCEPT ![t] = out[t]]
      /\ Lates' = [Lates EXCEPT ![t] = (Found(o.desc) # {})]
  BY <1>1, <1>2, <1>3, CallStep
<1>5. Results' = Results  BY <1>4 DEF Results
<1>6. (Found(o.desc) # {}) <=> Promise!Exists(o.desc)
  BY ExistsFound DEF Descs
<1>7. AbstractSections' = AbstractSections /\ Room' = Room  BY SectionsUntouched
<1>8. Lates' = [Lates EXCEPT ![t] = Promise!Exists(o.desc)]
  <2>1. (Found(o.desc) # {}) = Promise!Exists(o.desc)
    BY <1>6 DEF Promise!Exists
  <2> QED BY <1>4, <2>1
<1> QED BY <1>4, <1>5, <1>7, <1>8 DEF Promise!Begin, Promise!NoCall, NoOp, Calls, Results, Lates

LEMMA EndMaps ==
  ASSUME IInv, IInv', NEW t \in Threads, Return(t)
  PROVE  Promise!End(t)
<1> USE DEF Return, Goto, disk
<1>1. TypeOK /\ TypeOK' /\ CallInv(t)  BY DEF IInv, ThreadInv
<1>2. OthersSame(t)
  <2> SUFFICES ASSUME NEW u \in Threads \ {t} PROVE Same(u)  BY DEF OthersSame
  <2>1. /\ t \in DOMAIN pc /\ t \in DOMAIN op /\ t \in DOMAIN pos
        /\ u \in DOMAIN pc /\ u \in DOMAIN op /\ u \in DOMAIN pos /\ u # t
    BY <1>1 DEF TypeOK
  <2>2. /\ t \in DOMAIN val /\ t \in DOMAIN out /\ t \in DOMAIN late
        /\ u \in DOMAIN val /\ u \in DOMAIN out /\ u \in DOMAIN late
    BY <1>1 DEF TypeOK
  <2>3. pc'[u] = pc[u]  BY <2>1
  <2>4. op'[u] = op[u] /\ pos'[u] = pos[u]  BY <2>1
  <2>5. val'[u] = val[u] /\ out'[u] = out[u] /\ late'[u] = late[u]  BY <2>1, <2>2
  <2> QED BY <2>3, <2>4, <2>5 DEF Same
<1>3. /\ pc[t] = "done" /\ pc'[t] = "idle" /\ out[t].what # "none" /\ op'[t] = NoOp
      /\ out'[t] = Nothing("none") /\ ~late'[t]
  BY <1>1 DEF TypeOK, CallInv
<1>4. /\ Calls' = [Calls EXCEPT ![t] = NoOp] /\ Results[t] = out[t]
      /\ Results' = [Results EXCEPT ![t] = Nothing("none")]
      /\ Lates' = [Lates EXCEPT ![t] = FALSE]
  BY <1>1, <1>2, <1>3, CallStep
<1>5. Results[t] # Nothing("none")  BY <1>3, <1>4 DEF Nothing
<1>6. AbstractSections' = AbstractSections /\ Room' = Room  BY SectionsUntouched
<1> QED BY <1>4, <1>5, <1>6 DEF Promise!End, Promise!NoCall, Promise!Pending, NoOp, Nothing,
           Calls, Results, Lates

LEMMA KillMaps ==
  ASSUME IInv, IInv', NEW t \in Threads, Kill(t)
  PROVE  Promise!Kill(t)
<1> USE DEF Kill, disk
<1>1. TypeOK  BY DEF IInv
<1>2. \A u \in Threads : pc'[u] = IF u = t THEN "dead" ELSE pc[u]  BY <1>1 DEF TypeOK
<1>3. Calls' = [Calls EXCEPT ![t] = NoOp]  BY <1>2 DEF Calls
<1>4. Results' = [Results EXCEPT ![t] = Nothing("none")]  BY <1>2 DEF Results, Nothing
<1>5. Lates' = [Lates EXCEPT ![t] = FALSE]  BY <1>2 DEF Lates
<1>6. AbstractSections' = AbstractSections /\ Room' = Room  BY SectionsUntouched
<1> QED BY <1>3, <1>4, <1>5, <1>6 DEF Promise!Kill, Promise!NoCall, Promise!Pending, NoOp,
           Nothing, Calls, Results, Lates

LEMMA QuietMaps ==
  ASSUME IInv, IInv', NEW t \in Threads,
         Lock(t) \/ Unlock(t) \/ ScanNext(t) \/ ScanHit(t) \/ MissTable(t) \/ ReadHalf(t)
  PROVE  UNCHANGED Promise!vars
<1> USE DEF Lock, Unlock, ScanNext, ScanHit, MissTable, ReadHalf, Goto, disk
<1>1. TypeOK /\ TypeOK'  BY DEF IInv
<1>2. OthersSame(t)  BY <1>1 DEF OthersSame, Same, TypeOK
<1>3. pc[t] # "dead" /\ pc'[t] # "dead"  BY <1>1 DEF TypeOK
<1>4. UNCHANGED <<slots, blocks, op, out, late>>  OBVIOUS
<1>5. AbstractSections' = AbstractSections /\ Room' = Room  BY <1>4, SectionsUntouched
<1> QED BY <1>1, <1>2, <1>3, <1>4, <1>5, Unseen

LEMMA MissMaps ==
  ASSUME IInv, IInv', PassedInv, NEW t \in Threads, NoDesc(t) \/ MissDirect(t) \/ Full(t)
  PROVE  Promise!Miss(t) \/ Promise!RefuseCreate(t) \/ Promise!RefuseLookup(t)
<1>1. TypeOK /\ TypeOK' /\ ThreadInv(t) /\ RowInv /\ OneSlotPerDesc
  BY DEF IInv, DiskInv
<1>2. /\ UNCHANGED <<slots, tables, atomic_lock, blocks, op, pos, val, late>>
      /\ pc[t] = "scan" /\ pc'[t] \in {"unlock", "done"}
  BY <1>1 DEF NoDesc, MissDirect, Full, Finish, Goto, disk, TypeOK
<1>3. OthersSame(t)
  BY <1>1, <1>2 DEF NoDesc, MissDirect, Full, Finish, Goto, disk, OthersSame, Same, TypeOK
<1>4. AbstractSections' = AbstractSections /\ Room' = Room  BY <1>2, SectionsUntouched
<1>5. /\ Slots \in Nat /\ Visible \in Nat /\ Visible <= Slots /\ Direct <= Visible
      /\ pos[t] \in 1 .. Slots + 1
  BY <1>1, Bounds DEF TypeOK
<1>6. late[t] => op[t].desc # 0 /\ \E i \in pos[t] .. Slots : slots[i].desc = op[t].desc
  BY <1>1, <1>2 DEF ThreadInv, LateInv
<1>7. Open(t)  BY <1>2 DEF Open
<1>8. CASE NoDesc(t)
  <2>1. op[t].desc = 0 /\ out'[t] = Nothing("null")
    BY <1>1, <1>8 DEF NoDesc, Finish, TypeOK
  <2> QED BY <1>1, <1>2, <1>3, <1>4, <1>6, <1>7, <2>1, AnswersMiss
<1>9. CASE MissDirect(t)
  <2>1. /\ pos[t] <= Direct /\ slots[pos[t]].desc = 0 /\ ~Creates(t)
        /\ out'[t] = Nothing("null")
    BY <1>1, <1>9 DEF MissDirect, Finish, Slot, TypeOK
  <2>2. ~late[t]
    <3>1. SUFFICES ASSUME late[t] PROVE FALSE  OBVIOUS
    <3>2. PICK i \in pos[t] .. Slots : slots[i].desc = op[t].desc /\ op[t].desc # 0
      BY <1>6, <3>1
    <3> QED BY <1>1, <1>5, <2>1, <3>2 DEF RowInv
  <2> QED BY <1>1, <1>2, <1>3, <1>4, <1>7, <2>1, <2>2, AnswersMiss
<1>10. CASE Full(t)
  <2>1. /\ pos[t] > Visible /\ op[t].desc # 0 /\ out'[t] = Nothing("dir entry is full")
    BY <1>1, <1>10 DEF Full, Finish, TypeOK
  <2>2. \A i \in pos[t] .. Slots : slots[i].desc = 0
    <3>1. SUFFICES ASSUME NEW i \in pos[t] .. Slots PROVE slots[i].desc = 0  OBVIOUS
    <3>2. i \in 1 .. Slots /\ i > Visible
      <4> DEFINE p == pos[t]
                 v == Visible
                 n == Slots
      <4>1. n \in Nat /\ v \in Nat /\ p \in 1 .. n + 1 /\ p > v /\ i \in p .. n
        BY <1>5, <2>1
      <4> HIDE DEF p, v, n
      <4>2. i \in 1 .. n /\ i > v  BY <4>1
      <4> QED BY <4>2 DEF v, n
    <3>3. \A j \in 1 .. Slots : j > Visible => slots[j].desc = 0  BY <1>1 DEF RowInv
    <3> QED BY <3>2, <3>3
  <2>3. ~late[t]  BY <1>6, <2>2
  <2>4. Creates(t) => Found(op[t].desc) = {}
    <3>1. SUFFICES ASSUME Creates(t), NEW b, b \in Found(op[t].desc) PROVE FALSE
      OBVIOUS
    <3>2. PICK i \in 1 .. Slots : slots[i].desc = op[t].desc  BY <3>1, FoundIs
    <3>3. Ahead(t)  BY <1>1, <1>2, <3>1 DEF ThreadInv, CreatorInv
    <3>4. i \in pos[t] .. Slots \/ i \in 1 .. pos[t] - 1  BY <1>5, <3>2
    <3> QED BY <2>1, <2>2, <3>2, <3>3, <3>4 DEF Ahead
  <2>5. Room # "own"
    <3>1. \A i \in 1 .. Direct : i \in 1 .. pos[t] - 1  BY <1>5, <2>1, Beyond
    <3>2. \A i \in 1 .. Direct : slots[i].desc # 0  BY <1>2, <3>1 DEF PassedInv, SeenBy
    <3> QED BY <3>2 DEF Room
  <2>6. Creates(t) => Room = "none"
    <3>1. SUFFICES ASSUME Creates(t), NEW i \in 1 .. Slots PROVE slots[i].desc # 0
      BY <2>5 DEF Room
    <3>2. Visible = Slots  BY <1>10, <3>1 DEF Full, Visible, Slots
    <3>3. i \in 1 .. pos[t] - 1  BY <1>5, <2>1, <3>2, Beyond
    <3> QED BY <1>1, <1>2, <3>1, <3>3 DEF ThreadInv, CreatorInv, Ahead
  <2> QED BY <1>1, <1>2, <1>3, <1>4, <1>7, <2>1, <2>3, <2>4, <2>5, <2>6, AnswersMiss
<1> QED BY <1>8, <1>9, <1>10

(* Small ids.                                                              *)
LEMMA TornSmall ==
  ASSUME NEW b \in Nat, b < Half
  PROVE  Torn(0, b) = {0, b} /\ Torn(b, b) = {b}
<1>1. b \div Half = 0 /\ b % Half = b /\ 0 \div Half = 0 /\ 0 % Half = 0  OBVIOUS
<1>2. Torn(0, b) = {0, b}  BY <1>1 DEF Torn
<1> QED BY <1>2, TornSame

(* What a call has read between the two halves.                            *)
LEMMA HalfRead ==
  ASSUME IInv, SmallIds, NEW t \in Threads, pc[t] = "second"
  PROVE  /\ pos[t] \in 1 .. Slots /\ op[t].desc # 0 /\ slots[pos[t]].blockId \in Nat
         /\ Torn(val[t], Slot(t).blockId) \ {0} # {} =>
              Torn(val[t], Slot(t).blockId) \ {0} = {slots[pos[t]].blockId}
              /\ slots[pos[t]].blockId \in Found(op[t].desc)
         /\ late[t] => 0 \notin Torn(val[t], Slot(t).blockId)
<1> DEFINE b == slots[pos[t]].blockId
<1>1. TypeOK /\ ThreadInv(t)  BY DEF IInv
<1>2. pos[t] \in 1 .. Slots /\ op[t].desc # 0
  BY <1>1, Positions DEF ThreadInv, CallInv, CreatorInv, ReaderInv
<1>3. b \in Nat  BY <1>1, <1>2 DEF TypeOK
<1>4. val[t] \in {0, b} /\ (Creates(t) => val[t] = b)
  BY <1>1 DEF ThreadInv, CreatorInv, ReaderInv
<1>5. b # 0 => slots[pos[t]].desc = op[t].desc
  <2>1. CASE Creates(t)
    <3>1. slots[pos[t]].desc \in {0, op[t].desc}  BY <1>1, <2>1 DEF ThreadInv, CreatorInv
    <3>2. \A i \in LinkedSlots : slots[i].desc # 0  BY <2>1, CreatorAlone
    <3> QED BY <1>2, <3>1, <3>2 DEF LinkedSlots
  <2>2. CASE ~Creates(t)  BY <1>1, <2>2 DEF ThreadInv, ReaderInv
  <2> QED BY <2>1, <2>2
<1>6. b # 0 => b \in Found(op[t].desc)  BY <1>2, <1>5, FoundIs
<1>7. b < Half
  <2>1. b # 0 => b \in 2 .. 1 + Slots + MaxTables  BY <1>6, OneFound
  <2>2. Slots \in Nat  BY <1>1, Bounds DEF TypeOK
  <2> HIDE DEF b
  <2> QED BY <1>3, <2>1, <2>2 DEF SmallIds
<1>8. Torn(val[t], b) \in {{0, b}, {b}}
  <2> HIDE DEF b
  <2> QED BY <1>3, <1>4, <1>7, TornSmall
<1>9. late[t] => val[t] # 0  BY <1>1 DEF ThreadInv, LateInv
<1>10. late[t] => 0 \notin Torn(val[t], b)
  <2> HIDE DEF b
  <2> QED BY <1>3, <1>4, <1>7, <1>9, TornSmall
<1>11. Torn(val[t], b) \ {0} # {} => Torn(val[t], b) \ {0} = {b} /\ b # 0
  <2> HIDE DEF b
  <2> QED BY <1>8
<1> QED BY <1>2, <1>3, <1>6, <1>10, <1>11 DEF Slot

LEMMA LinkedMaps ==
  ASSUME IInv, IInv', SmallIds, NEW t \in Threads, Linked(t)
  PROVE  Promise!Hit(t)
<1> DEFINE b == slots[pos[t]].blockId
<1>1. TypeOK /\ TypeOK' /\ pc[t] = "second"  BY DEF IInv, Linked
<1>2. PICK id \in Torn(val[t], Slot(t).blockId) \ {0} : Finish(t, "second", Section(t, id))
  BY DEF Linked
<1>3. id = b /\ b \in Found(op[t].desc)  BY <1>1, HalfRead
<1>4. UNCHANGED <<slots, tables, atomic_lock, blocks, op, pos, val, late>>  BY DEF Linked, disk
<1>5. OthersSame(t) /\ pc'[t] # "dead" /\ out'[t] = Section(t, b)
  BY <1>1, <1>2, <1>3, <1>4 DEF Finish, Goto, OthersSame, Same, TypeOK
<1>6. AbstractSections' = AbstractSections /\ Room' = Room  BY <1>4, SectionsUntouched
<1> QED BY <1>1, <1>3, <1>4, <1>5, <1>6, AnswersHit DEF Open

LEMMA UnlinkedMaps ==
  ASSUME IInv, IInv', SmallIds, NEW t \in Threads, Unlinked(t)
  PROVE  \/ Promise!Miss(t) \/ Promise!RefuseCreate(t) \/ Promise!RefuseLookup(t)
         \/ UNCHANGED Promise!vars
<1>1. TypeOK /\ TypeOK' /\ pc[t] = "second"  BY DEF IInv, Unlinked
<1>2. UNCHANGED <<slots, tables, atomic_lock, blocks, op, pos, val, late>>  BY DEF Unlinked, disk
<1>3. AbstractSections' = AbstractSections /\ Room' = Room  BY <1>2, SectionsUntouched
<1>4. ~late[t]  BY <1>1, HalfRead DEF Unlinked
<1>5. CASE ~Creates(t) /\ Finish(t, "second", Nothing("null"))
  <2>1. OthersSame(t) /\ pc'[t] # "dead" /\ out'[t] = Nothing("null")
    BY <1>1, <1>2, <1>5 DEF Finish, Goto, OthersSame, Same, TypeOK
  <2> QED BY <1>1, <1>2, <1>3, <1>4, <1>5, <2>1, AnswersMiss DEF Open
<1>6. CASE Goto(t, "second", "link") /\ UNCHANGED out
  <2>1. OthersSame(t) /\ pc'[t] # "dead"
    BY <1>1, <1>2, <1>6 DEF Goto, OthersSame, Same, TypeOK
  <2> QED BY <1>1, <1>2, <1>3, <1>6, <2>1, Unseen
<1> QED BY <1>5, <1>6 DEF Unlinked

(* A free slot and a new table say nothing about a section.                *)
LEMMA TakeMaps ==
  ASSUME IInv, IInv', Room' \in Promise!Filled(Room), NEW t \in Threads, TakeFree(t)
  PROVE  Promise!Take(t) \/ UNCHANGED Promise!vars
<1>1. TypeOK /\ TypeOK'  BY DEF IInv
<1>2. /\ pos[t] \in 1 .. Slots /\ slots[pos[t]].desc = 0 /\ Creates(t) /\ pc[t] = "scan"
      /\ pc' = [pc EXCEPT ![t] = "first"]
      /\ UNCHANGED <<tables, atomic_lock, blocks, op, pos, val, out, late>>
  BY <1>1, Positions DEF TakeFree, Goto, Slot
<1>3. slots[pos[t]].blockId = 0  BY <1>2, CreatorAlone DEF LinkedSlots
<1>4. \A i \in 1 .. Slots :
        slots'[i] = slots[i] \/ (slots[i].blockId = 0 /\ slots'[i].blockId = 0)
  BY <1>1, <1>2, <1>3 DEF TakeFree, TypeOK
<1>5. ASSUME NEW d \in Descs PROVE Found(d)' = Found(d)
  BY <1>4 DEF Found, Slots
<1>6. AbstractSections' = AbstractSections  BY <1>2, <1>5, SectionsSame
<1>7. OthersSame(t) /\ pc'[t] # "dead"  BY <1>1, <1>2 DEF OthersSame, Same, TypeOK
<1>8. CASE Room' = Room  BY <1>1, <1>2, <1>6, <1>7, <1>8, Unseen
<1>9. CASE Room' # Room
  <2>1. Promise!Waiting(t) /\ Calls[t].mode = "create"
    BY <1>2, <1>7, Waits DEF Open, Creates
  <2>2. late'[t] = late[t] /\ op'[t] = op[t] /\ out'[t] = out[t]  BY <1>2
  <2>3. Calls' = Calls /\ Lates' = Lates /\ Results' = [Results EXCEPT ![t] = Results[t]]
    BY <1>1, <1>2, <1>7, <2>2, CallStep
  <2>4. Results' = Results  BY <2>3 DEF Results
  <2> QED BY <1>6, <1>9, <2>1, <2>3, <2>4 DEF Promise!Take, Calls, Results, Lates
<1> QED BY <1>8, <1>9

LEMMA TableMaps ==
  ASSUME IInv, IInv', NEW t \in Threads, NewTable(t)
  PROVE  UNCHANGED Promise!vars
<1>1. TypeOK /\ TypeOK' /\ BlocksInv  BY DEF IInv, DiskInv
<1>2. /\ pc[t] = "scan" /\ pc' = pc /\ blocks' = WithBlock("table", 0)
      /\ UNCHANGED <<slots, atomic_lock, op, pos, val, out, late>>
  <2>1. pc[t] = "scan" /\ pc' = [pc EXCEPT ![t] = "scan"] /\ blocks' = WithBlock("table", 0)
    BY DEF NewTable, Goto
  <2>2. pc = [u \in Threads |-> pc[u]]  BY <1>1, Zenon DEF TypeOK
  <2>3. pc' = pc  BY <2>1, <2>2
  <2> QED BY <2>1, <2>3 DEF NewTable
<1>3. \A b \in Sections : blocks'[b] = blocks[b]  BY <1>1, <1>2, AppendBlock DEF Sections
<1>4. ASSUME NEW d \in Descs PROVE Found(d)' = Found(d)  BY <1>2 DEF Found, Slots
<1>5. AbstractSections' = AbstractSections  BY <1>3, <1>4, SectionsSame
<1>6. OthersSame(t) /\ pc'[t] # "dead"  BY <1>1, <1>2 DEF OthersSame, Same
<1>7. Room' = Room  BY <1>2 DEF Room, Slots
<1> QED BY <1>1, <1>2, <1>5, <1>6, <1>7, Unseen

(* A section appears when its entry has both an id and a desc: the desc of *)
(* a direct entry was there before, that of a table comes last.            *)
LEMMA LinkMaps ==
  ASSUME IInv, IInv', Room' \in Promise!Filled(Room), NEW t \in Threads, Link(t)
  PROVE  (\E id \in 2 .. 1 + Slots + MaxTables : Promise!Create(t, id)) \/ UNCHANGED Promise!vars
<1>0. PICK d, p, n : d = op[t].desc /\ p = pos[t] /\ n = NewId  OBVIOUS
<1>1. TypeOK /\ TypeOK' /\ BlocksInv /\ ThreadInv(t)  BY DEF IInv, DiskInv
<1>2. /\ pc[t] = "link" /\ pc' = [pc EXCEPT ![t] = "name"]
      /\ blocks' = WithBlock(op[t].kind, d)
      /\ slots' = [slots EXCEPT ![p].blockId = n]
      /\ UNCHANGED <<tables, atomic_lock, op, pos, val, out, late>>
  BY <1>0 DEF Link, Goto
<1>3. /\ Creates(t) /\ d # 0 /\ p \in 1 .. Slots /\ slots[p].blockId = 0
      /\ slots[p].desc \in {0, d} /\ Ahead(t) /\ op[t] \in Ops
  BY <1>0, <1>1, <1>2, Positions DEF ThreadInv, CallInv, CreatorInv
<1>4. /\ n \in Nat /\ blocks'[n] = [kind |-> op[t].kind, desc |-> d]
      /\ \A b \in DOMAIN blocks : blocks'[b] = blocks[b]
  BY <1>0, <1>1, <1>2, AppendBlock
<1>5. \A i \in 1 .. Slots :
        /\ slots'[i].desc = slots[i].desc
        /\ slots'[i].blockId = IF i = p THEN n ELSE slots[i].blockId
  <2>1. slots \in [1 .. Slots -> [desc : Nat, blockId : Nat]]  BY <1>1 DEF TypeOK
  <2> QED BY <1>2, <1>3, <2>1
<1>6. \A b \in Sections : blocks'[b] = blocks[b]  BY <1>4 DEF Sections
<1>7. OthersSame(t) /\ pc'[t] # "dead"  BY <1>1, <1>2 DEF OthersSame, Same, TypeOK
<1>8. d \in Descs  BY <1>0, <1>3 DEF Descs
<1>12. Room' = Room
  <2>1. \A i \in 1 .. Direct : i \in 1 .. Slots  BY <1>1, OwnSlots
  <2> QED BY <1>5, <2>1 DEF Room, Slots
<1>9. ASSUME NEW e \in Descs, e # slots[p].desc PROVE Found(e)' = Found(e)
  BY <1>5, <1>9 DEF Found, Slots
<1>10. CASE slots[p].desc = 0
  <2>1. \A e \in Descs : Found(e)' = Found(e)  BY <1>9, <1>10 DEF Descs
  <2>2. AbstractSections' = AbstractSections  BY <1>6, <2>1, SectionsSame
  <2> QED BY <1>1, <1>2, <1>7, <1>12, <2>2, Unseen
<1>11. CASE slots[p].desc = d
  <2>1. \A i \in 1 .. Slots : slots[i].desc = d => i = p
    BY <1>0, <1>3, OnlyHere
  <2>2. Found(d) = {}
    <3>1. SUFFICES ASSUME NEW b, b \in Found(d) PROVE FALSE  OBVIOUS
    <3>2. PICK i \in 1 .. Slots : slots[i].desc = d /\ slots[i].blockId = b /\ b # 0
      BY <3>1, FoundIs
    <3> QED BY <1>3, <2>1, <3>2
  <2>3. n # 0
    <3>1. tables \in Nat /\ Cardinality(LinkedSlots) \in Nat
      <4>1. tables \in 0 .. MaxTables  BY <1>1, Zenon DEF TypeOK
      <4>2. Cardinality(LinkedSlots) \in Nat  BY <1>1, LinkedFinite
      <4> QED BY <4>1, <4>2
    <3>2. n = 2 + tables + Cardinality(LinkedSlots)  BY <1>0, <1>1 DEF BlocksInv
    <3> QED BY <3>1, <3>2
  <2>4. Found(d)' = {n}
    <3>1. \A j \in 1 .. Slots : slots'[j].desc = d <=> j = p  BY <1>5, <1>11, <2>1
    <3>2. {j \in 1 .. Slots : slots'[j].desc = d /\ d # 0} = {p}  BY <1>3, <3>1
    <3>3. slots'[p].blockId = n  BY <1>3, <1>5
    <3>4. {slots'[i].blockId : i \in {j \in 1 .. Slots : slots'[j].desc = d /\ d # 0}} = {n}
      BY <3>2, <3>3
    <3> QED BY <2>3, <3>4 DEF Found, Slots
  <2>5. \A e \in Descs \ {d} : Found(e)' = Found(e)  BY <1>9, <1>11
  <2>6. Open(t)  BY <1>2, <1>7 DEF Open
  <2>7. blocks'[n].kind = op[t].kind  BY <1>4
  <2> QED BY <1>0, <1>2, <1>3, <1>6, <1>7, <1>8, <2>2, <2>4, <2>5, <2>6, <2>7, AnswersCreate
<1> QED BY <1>3, <1>10, <1>11

LEMMA NameMaps ==
  ASSUME IInv, IInv', Room' \in Promise!Filled(Room), NEW t \in Threads, Name(t)
  PROVE  Promise!Hit(t) \/ \E id \in 2 .. 1 + Slots + MaxTables : Promise!Create(t, id)
<1>0. PICK d, p, b : d = op[t].desc /\ p = pos[t] /\ b = slots[p].blockId  OBVIOUS
<1>1. TypeOK /\ TypeOK' /\ BlocksInv /\ ThreadInv(t)  BY DEF IInv, DiskInv
<1>2. /\ pc[t] = "name" /\ slots' = [slots EXCEPT ![p].desc = d]
      /\ pc' = [pc EXCEPT ![t] = IF Locks(t) THEN "unlock" ELSE "done"]
      /\ out' = [out EXCEPT ![t] = Section(t, b)]
      /\ UNCHANGED <<tables, atomic_lock, blocks, op, pos, val, late>>
  BY <1>0 DEF Name, Finish, Goto, Slot
<1>3. /\ Creates(t) /\ d # 0 /\ p \in 1 .. Slots /\ b # 0 /\ slots[p].desc \in {0, d}
      /\ blocks[b] = [kind |-> op[t].kind, desc |-> d] /\ Ahead(t) /\ op[t] \in Ops
  BY <1>0, <1>1, <1>2, Positions DEF ThreadInv, CallInv, CreatorInv
<1>4. \A i \in 1 .. Slots :
        /\ slots'[i].blockId = slots[i].blockId
        /\ slots'[i].desc = IF i = p THEN d ELSE slots[i].desc
  <2>1. slots \in [1 .. Slots -> [desc : Nat, blockId : Nat]]  BY <1>1 DEF TypeOK
  <2> QED BY <1>2, <1>3, <2>1
<1>5. OthersSame(t) /\ pc'[t] # "dead" /\ out'[t] = Section(t, b)
  BY <1>1, <1>2 DEF OthersSame, Same, TypeOK
<1>6. Open(t) /\ d \in Descs  BY <1>0, <1>2, <1>3, <1>5 DEF Open, Descs
<1>7. \A i \in 1 .. Slots : slots[i].desc = d => i = p  BY <1>0, <1>3, OnlyHere
<1>8. b \in Sections
  BY <1>0, <1>1, <1>3 DEF BlocksInv, LinkedSlots
<1>9. CASE slots[p].desc = d
  <2>1. ASSUME NEW e \in Descs PROVE Found(e)' = Found(e)
    BY <1>4, <1>9 DEF Found, Slots
  <2>2. AbstractSections' = AbstractSections  BY <1>2, <2>1, SectionsSame
  <2>3. b \in Found(op[t].desc)  BY <1>0, <1>3, <1>9, FoundIs
  <2>4. Room' = Room
    <3>1. \A i \in 1 .. Direct : i \in 1 .. Slots  BY <1>1, OwnSlots
    <3> QED BY <1>4, <1>9, <3>1 DEF Room, Slots
  <2> QED BY <1>1, <1>2, <1>5, <1>6, <2>2, <2>3, <2>4, AnswersHit
<1>10. CASE slots[p].desc = 0
  <2>1. Found(d) = {}
    <3>1. SUFFICES ASSUME NEW c, c \in Found(d) PROVE FALSE  OBVIOUS
    <3>2. PICK i \in 1 .. Slots : slots[i].desc = d  BY <3>1, FoundIs
    <3> QED BY <1>3, <1>7, <1>10, <3>2
  <2>2. Found(d)' = {b}
    <3>1. \A j \in 1 .. Slots : slots'[j].desc = d <=> j = p  BY <1>4, <1>7, <1>10, <1>3
    <3>2. {j \in 1 .. Slots : slots'[j].desc = d /\ d # 0} = {p}  BY <1>3, <3>1
    <3>3. slots'[p].blockId = b  BY <1>0, <1>3, <1>4
    <3>4. {slots'[i].blockId : i \in {j \in 1 .. Slots : slots'[j].desc = d /\ d # 0}} = {b}
      BY <3>2, <3>3
    <3> QED BY <1>3, <3>4 DEF Found, Slots
  <2>3. ASSUME NEW e \in Descs \ {d} PROVE Found(e)' = Found(e)
    <3>1. e # 0  BY DEF Descs
    <3>2. \A i \in 1 .. Slots : slots'[i].desc = e <=> slots[i].desc = e
      BY <1>4, <1>10, <3>1
    <3> QED BY <1>4, <3>2 DEF Found, Slots
  <2>4. out'[t] = [what |-> "opened", id |-> b]
    <3>1. Opened(t, b) = "opened"  BY <1>3, <1>8 DEF Opened, Sections
    <3> QED BY <1>5, <3>1 DEF Section
  <2>5. blocks'[b].kind = op[t].kind  BY <1>2, <1>3
  <2> QED BY <1>0, <1>2, <1>3, <1>5, <1>6, <2>1, <2>2, <2>3, <2>4, <2>5, AnswersCreate
<1> QED BY <1>3, <1>9, <1>10

-----------------------------------------------------------------------------
LEMMA InitMaps == Init => Promise!Init
<1> SUFFICES ASSUME Init PROVE Promise!Init  OBVIOUS
<1>1. \A d : Found(d) = {}  BY DEF Init, Found, Free
<1>2. AbstractSections = [d \in {o.desc : o \in Ops} \ {0} |-> [id |-> 0, kind |-> "none"]]
  BY <1>1 DEF AbstractSections, NoSection, Descs
<1>3. \A t \in Threads : pc[t] = "idle" /\ op[t] = NoOp /\ ~late[t]
                         /\ out[t] = [what |-> "none", id |-> 0]
  BY DEF Init
<1>4. Calls = [t \in Threads |-> NoOp]  BY <1>3 DEF Calls
<1>5. Results = [t \in Threads |-> [what |-> "none", id |-> 0]]  BY <1>3 DEF Results
<1>6. Lates = [t \in Threads |-> FALSE]  BY <1>3 DEF Lates
<1>7. Room = "own"
  <2>1. 1 \in 1 .. Direct /\ 1 \in 1 .. Slots  BY Bounds DEF Init
  <2> QED BY <2>1 DEF Room, Init, Free
<1> QED BY <1>2, <1>4, <1>5, <1>6, <1>7 DEF Promise!Init, Promise!NoCall, Promise!Pending, NoOp,
           Calls, Results, Lates

LEMMA StepMaps ==
  SmallIds /\ IInv /\ IInv' /\ PassedInv /\ [Next]_vars => [Promise!Next]_Promise!vars
<1> SUFFICES ASSUME SmallIds, IInv, IInv', PassedInv, [Next]_vars
             PROVE  [Promise!Next]_Promise!vars
  OBVIOUS
<1>0. Room' \in Promise!Filled(Room)  BY RoomFills
<1> DEFINE Visibly(t) ==
      \/ Promise!Take(t) \/ Promise!Hit(t) \/ Promise!Miss(t) \/ Promise!End(t)
      \/ Promise!RefuseCreate(t) \/ Promise!RefuseLookup(t)
      \/ (\E o \in Ops : Promise!Begin(t, o))
      \/ \E id \in 2 .. 1 + Slots + MaxTables : Promise!Create(t, id)
<1>1. ASSUME NEW t \in Threads, NEW o \in Ops, Begin(t, o) PROVE Visibly(t)
  BY <1>1, BeginMaps
<1>2. ASSUME NEW t \in Threads, Lock(t) PROVE UNCHANGED Promise!vars  BY <1>2, QuietMaps
<1>3. ASSUME NEW t \in Threads, FindEntry(t) PROVE Visibly(t) \/ UNCHANGED Promise!vars
  <2>1. CASE NoDesc(t) \/ MissDirect(t) \/ Full(t)  BY <2>1, MissMaps
  <2>2. CASE ScanNext(t) \/ ScanHit(t) \/ MissTable(t)  BY <2>2, QuietMaps
  <2>3. CASE TakeFree(t)  BY <1>0, <2>3, TakeMaps
  <2>4. CASE NewTable(t)  BY <2>4, TableMaps
  <2> QED BY <1>3, <2>1, <2>2, <2>3, <2>4 DEF FindEntry
<1>4. ASSUME NEW t \in Threads, OpenSection(t) PROVE Visibly(t) \/ UNCHANGED Promise!vars
  <2>1. CASE FindEntry(t)  BY <1>3, <2>1
  <2>2. CASE ReadHalf(t) \/ Unlock(t)  BY <2>2, QuietMaps
  <2>3. CASE Unlinked(t)  BY <2>3, UnlinkedMaps
  <2>4. CASE Linked(t)  BY <2>4, LinkedMaps
  <2>5. CASE Link(t)  BY <1>0, <2>5, LinkMaps
  <2>6. CASE Name(t)  BY <1>0, <2>6, NameMaps
  <2>7. CASE Return(t)  BY <2>7, EndMaps
  <2> QED BY <1>4, <2>1, <2>2, <2>3, <2>4, <2>5, <2>6, <2>7 DEF OpenSection
<1>5. ASSUME NEW t \in Killable, Kill(t) PROVE Promise!Kill(t)
  BY <1>5, KillMaps DEF SectionDirAssumption
<1>6. CASE UNCHANGED vars
  <2>1. UNCHANGED <<slots, blocks, pc, op, out, late>>  BY <1>6 DEF vars
  <2>2. AbstractSections' = AbstractSections /\ Room' = Room  BY <2>1, SectionsUntouched
  <2>3. Calls' = Calls /\ Results' = Results /\ Lates' = Lates
    BY <2>1 DEF Calls, Results, Lates
  <2> QED BY <2>2, <2>3 DEF Promise!vars, Calls, Results, Lates
<1>7. ASSUME NEW t \in Threads, Visibly(t) PROVE Promise!Next  BY <1>7 DEF Promise!Next
<1>8. ASSUME NEW t \in Killable, Promise!Kill(t) PROVE Promise!Next  BY <1>8 DEF Promise!Next
<1> HIDE DEF Visibly
<1> QED BY <1>1, <1>2, <1>4, <1>5, <1>6, <1>7, <1>8 DEF Next

(* As long as every block id of the file fits into the lower half of a     *)
(* uint48_t, opening sections, in any number of threads and processes, by  *)
(* calls that overlap and are killed anywhere, is one of the behaviours of *)
(* Directory: a desc has one section for ever, every call that finds it    *)
(* returns it, only calls that began before it was there miss it, creators *)
(* are refused only when every entry is taken, and a lookup that misses    *)
(* gets an exception instead of null only when the direct entries are.     *)
THEOREM KeepsPromise == SmallIds /\ Spec => ImplementsDirectory
<1>1. SmallIds => SmallIds'  BY DEF SmallIds, Slots
<1> QED
  BY <1>1, AlwaysIInv, AlwaysPassed, InitMaps, StepMaps, PTL
  DEF Spec, ImplementsDirectory, Promise!Spec
=============================================================================
