----------------------- MODULE SectionLifecycleProofs -----------------------
(***************************************************************************)
(* Any number of processes open, write and close one section file, and     *)
(* some of them are killed. The counter never falls below the number of    *)
(* processes inside; and when, as in a job, nobody closes before all have  *)
(* opened, nothing fails, nothing written is cut off, no mapping loses its *)
(* file, and the closed file is trimmed.                                   *)
(*                                                                         *)
(* Two facts carry the proof. Before the ready sign nobody has counted     *)
(* itself in, so that setting the counter to 0 forgets nobody. And whoever *)
(* saw the counter at 1 was alone and, since all had opened, stays alone,  *)
(* so that blockAllocated does not change between its load and its cut.    *)
(***************************************************************************)
EXTENDS SectionLifecycle, FiniteSetTheorems, TLAPS

Past  == Inside \cup Closing \cup Ended
AllIn == \A q \in Writers : pc[q] \in Past

(* A reader has made the file.                                             *)
Orphaned == \E r \in Readers : pc[r] = "orphaned"

(* The creator goes first, or nobody goes on.                              *)
OrderInv ==
  /\ ~exists => lockId = "absent" /\ \A p \in Writers : pc[p] = "none"
  /\ exists => pc[Creator] # "none" \/ Orphaned
  /\ Orphaned => /\ exists /\ lockId = "absent"
                 /\ \A p \in Writers : pc[p] \in {"none", "wait_ready", "killed"}
  /\ pc[Creator] = "wait_ready" => Orphaned
  /\ lockId = "absent" => \A p \in Writers :
       pc[p] \in {"none", "create", "zero", "ready", "wait_ready", "killed"}
  /\ \A p \in Writers : pc[p] \in {"create", "zero", "ready"} =>
       p = Creator /\ lockId = "absent"
  /\ \A p \in Writers : pc[p] \in {"super", "publish"} => p = Creator
  /\ pc[Creator] \notin {"attach_counter", "wait_file", "attach", "check"}
  /\ pc[Creator] \in {"none", "wait_ready", "create", "zero", "ready", "inc", "super"} => ~lockFile

CountInv ==
  /\ IsFiniteSet(Counted) /\ Cardinality(Counted) <= counter
  /\ (\A p \in Writers : pc[p] \notin {"failed", "killed"}) =>
       counter = Cardinality(Counted)

(* What every place of a process says of the file.                         *)
OpenInv ==
  /\ ~lockFile => \A p \in Writers :
       pc[p] \notin {"attach", "check", "closed"} \cup Inside \cup Closing
  /\ pc[Creator] \in {"none", "wait_ready", "create", "zero", "ready", "inc", "super"} => written = 0
  /\ lockFile => blockAllocated >= 2
  /\ written <= fileLen /\ written <= blockAllocated

WriterInv(p) ==
  /\ pc[p] = "publish" => blockAllocated >= 2
  /\ pc[p] \in {"publish", "check"} \cup Inside => mapped[p] * BlocksPerPage <= fileLen
  /\ pc[p] \in {"extend", "touch"} => own[p] < blockAllocated
  /\ pc[p] = "touch" => own[p] < mapped[p] * BlocksPerPage

ReaderInv(p) ==
  /\ pc[p] \in {"none", "open", "closed", "failed", "orphaned"}
  /\ pc[p] = "open" => own[p] <= written /\ own[p] <= mapped[p] * BlocksPerPage

(* Nobody leaves before all have come, and the last one is alone.          *)
LeaveInv ==
  /\ (\E q \in Writers : pc[q] \in Closing \cup {"closed"}) => AllIn
  /\ counterId = "removed" \/ lockId = "removed" => AllIn
  /\ lockId # "absent" => counterId # "absent"
  /\ pc[Creator] \in {"zero", "ready"} => counterId = "live"
  /\ \A p \in Writers : pc[p] \in {"size", "truncate"} => Counted = {}
  /\ \A p \in Writers : pc[p] = "truncate" => own[p] = blockAllocated

TrimInv ==
  (\A p \in Writers : pc[p] # "killed") /\ AllIn /\ Counted = {} =>
    (\E p \in Writers : pc[p] \in {"size", "truncate"}) \/ fileLen = blockAllocated

CInv == TypeOK /\ OrderInv /\ CountInv

JInv ==
  /\ CInv /\ NobodyFails /\ OpenInv /\ LeaveInv /\ TrimInv
  /\ \A p \in Writers : WriterInv(p)
  /\ \A p \in Readers : ReaderInv(p)

-----------------------------------------------------------------------------
(* The counter covers everybody, for any LateJoin.                         *)
LEMMA InitC == SectionLifecycleAssumption /\ Init => CInv
<1> SUFFICES ASSUME SectionLifecycleAssumption, Init PROVE CInv
  OBVIOUS
<1>1. TypeOK
  BY DEF Init, TypeOK, Keys
<1>2. OrderInv
  BY DEF Init, OrderInv, Orphaned, SectionLifecycleAssumption, Procs
<1>3. Counted = {} /\ counter = 0
  BY DEF Init, Counted, Inside, Procs
<1>4. CountInv
  BY <1>3, FS_EmptySet DEF CountInv
<1> QED BY <1>1, <1>2, <1>4 DEF CInv

LEMMA TypeKept ==
  ASSUME SectionLifecycleAssumption, TypeOK, OrderInv, CountInv, Next
  PROVE  TypeOK'
<1> USE DEF Goto, TypeOK, Procs, SectionLifecycleAssumption, file, shm,
        Opening, Inside, Closing, Ended, Keys, Larger
<1>1. ASSUME NEW p \in Writers, OpenFile(p) PROVE TypeOK'
  BY <1>1 DEF OpenFile
<1>2. ASSUME NEW p \in Writers, CreateCounter(p) PROVE TypeOK'
  BY <1>2 DEF CreateCounter
<1>3. ASSUME NEW p \in Writers, ZeroCounter(p) PROVE TypeOK'
  BY <1>3 DEF ZeroCounter
<1>4. ASSUME NEW p \in Writers, CreateReady(p) PROVE TypeOK'
  BY <1>4 DEF CreateReady
<1>5. ASSUME NEW p \in Writers, WaitReady(p) PROVE TypeOK'
  BY <1>5 DEF WaitReady
<1>6. ASSUME NEW p \in Writers, AttachCounter(p) PROVE TypeOK'
  BY <1>6 DEF AttachCounter
<1>7. ASSUME NEW p \in Writers, IncCounter(p) PROVE TypeOK'
  BY <1>7 DEF IncCounter
<1>8. ASSUME NEW p \in Writers, InitSuper(p) PROVE TypeOK'
  BY <1>8 DEF InitSuper
<1>9. ASSUME NEW p \in Writers, Publish(p) PROVE TypeOK'
  BY <1>9 DEF Publish
<1>10. ASSUME NEW p \in Writers, WaitFile(p) PROVE TypeOK'
  BY <1>10 DEF WaitFile
<1>11. ASSUME NEW p \in Writers, AttachFile(p) PROVE TypeOK'
  BY <1>11 DEF AttachFile
<1>12. ASSUME NEW p \in Writers, CheckSuper(p) PROVE TypeOK'
  BY <1>12 DEF CheckSuper
<1>13. ASSUME NEW p \in Writers, Allocate(p) PROVE TypeOK'
  BY <1>13 DEF Allocate
<1>14. ASSUME NEW p \in Writers, Extend(p) PROVE TypeOK'
  BY <1>14 DEF Extend
<1>15. ASSUME NEW p \in Writers, Touch(p) PROVE TypeOK'
  BY <1>15 DEF Touch
<1>16. ASSUME NEW p \in Writers, DecCounter(p) PROVE TypeOK'
  <2>1. p \in Counted
    BY <1>16 DEF DecCounter, Counted, Inside
  <2>2. Cardinality(Counted) \in Nat \ {0}
    BY <2>1, FS_CardinalityType, FS_EmptySet DEF CountInv
  <2>3. counter - 1 \in Nat
    BY <2>2 DEF CountInv
  <2> QED BY <1>16, <2>3 DEF DecCounter, Closing
<1>17. ASSUME NEW p \in Writers, LoadAllocated(p) PROVE TypeOK'
  BY <1>17 DEF LoadAllocated
<1>18. ASSUME NEW p \in Writers, Truncate(p) PROVE TypeOK'
  BY <1>18 DEF Truncate
<1>19. ASSUME NEW p \in Writers, RemoveReady(p) PROVE TypeOK'
  BY <1>19 DEF RemoveReady
<1>20. ASSUME NEW p \in Writers, RemoveCounter(p) PROVE TypeOK'
  BY <1>20 DEF RemoveCounter
<1>21. ASSUME NEW p \in Readers, OpenRead(p) PROVE TypeOK'
  BY <1>21 DEF OpenRead
<1>22. ASSUME NEW p \in Readers, CloseRead(p) PROVE TypeOK'
  BY <1>22 DEF CloseRead
<1>23. ASSUME NEW p \in Killable, Kill(p) PROVE TypeOK'
  BY <1>23 DEF Kill
<1> QED BY <1>1, <1>2, <1>3, <1>4, <1>5, <1>6, <1>7, <1>8, <1>9, <1>10,
  <1>11, <1>12, <1>13, <1>14, <1>15, <1>16, <1>17, <1>18, <1>19, <1>20,
  <1>21, <1>22, <1>23
  DEF Next, OpenStep, WriteStep, CloseStep

LEMMA OrderKept ==
  ASSUME SectionLifecycleAssumption, TypeOK, OrderInv, Next
  PROVE  OrderInv'
<1> USE DEF Goto, OrderInv, TypeOK, Procs, SectionLifecycleAssumption, file, shm
<1>1. ASSUME NEW p \in Writers, OpenFile(p) PROVE OrderInv'
  <2>1. Orphaned' = Orphaned
    BY <1>1 DEF OpenFile, Orphaned
  <2> QED BY <1>1, <2>1 DEF OpenFile
<1>2. ASSUME NEW p \in Writers, CreateCounter(p) PROVE OrderInv'
  <2>1. Orphaned' = Orphaned
    BY <1>2 DEF CreateCounter, Orphaned
  <2> QED BY <1>2, <2>1 DEF CreateCounter
<1>3. ASSUME NEW p \in Writers, ZeroCounter(p) PROVE OrderInv'
  <2>1. Orphaned' = Orphaned
    BY <1>3 DEF ZeroCounter, Orphaned
  <2> QED BY <1>3, <2>1 DEF ZeroCounter
<1>4. ASSUME NEW p \in Writers, CreateReady(p) PROVE OrderInv'
  <2>1. Orphaned' = Orphaned
    BY <1>4 DEF CreateReady, Orphaned
  <2> QED BY <1>4, <2>1 DEF CreateReady
<1>5. ASSUME NEW p \in Writers, WaitReady(p) PROVE OrderInv'
  <2>1. Orphaned' = Orphaned
    BY <1>5 DEF WaitReady, Orphaned
  <2> QED BY <1>5, <2>1 DEF WaitReady
<1>6. ASSUME NEW p \in Writers, AttachCounter(p) PROVE OrderInv'
  <2>1. Orphaned' = Orphaned
    BY <1>6 DEF AttachCounter, Orphaned
  <2> QED BY <1>6, <2>1 DEF AttachCounter
<1>7. ASSUME NEW p \in Writers, IncCounter(p) PROVE OrderInv'
  <2>1. Orphaned' = Orphaned
    BY <1>7 DEF IncCounter, Orphaned
  <2> QED BY <1>7, <2>1 DEF IncCounter
<1>8. ASSUME NEW p \in Writers, InitSuper(p) PROVE OrderInv'
  <2>1. Orphaned' = Orphaned
    BY <1>8 DEF InitSuper, Orphaned
  <2> QED BY <1>8, <2>1 DEF InitSuper
<1>9. ASSUME NEW p \in Writers, Publish(p) PROVE OrderInv'
  <2>1. Orphaned' = Orphaned
    BY <1>9 DEF Publish, Orphaned
  <2> QED BY <1>9, <2>1 DEF Publish
<1>10. ASSUME NEW p \in Writers, WaitFile(p) PROVE OrderInv'
  <2>1. Orphaned' = Orphaned
    BY <1>10 DEF WaitFile, Orphaned
  <2> QED BY <1>10, <2>1 DEF WaitFile
<1>11. ASSUME NEW p \in Writers, AttachFile(p) PROVE OrderInv'
  <2>1. Orphaned' = Orphaned
    BY <1>11 DEF AttachFile, Orphaned
  <2> QED BY <1>11, <2>1 DEF AttachFile
<1>12. ASSUME NEW p \in Writers, CheckSuper(p) PROVE OrderInv'
  <2>1. Orphaned' = Orphaned
    BY <1>12 DEF CheckSuper, Orphaned
  <2> QED BY <1>12, <2>1 DEF CheckSuper
<1>13. ASSUME NEW p \in Writers, Allocate(p) PROVE OrderInv'
  <2>1. Orphaned' = Orphaned
    BY <1>13 DEF Allocate, Orphaned
  <2> QED BY <1>13, <2>1 DEF Allocate
<1>14. ASSUME NEW p \in Writers, Extend(p) PROVE OrderInv'
  <2>1. Orphaned' = Orphaned
    BY <1>14 DEF Extend, Orphaned
  <2> QED BY <1>14, <2>1 DEF Extend
<1>15. ASSUME NEW p \in Writers, Touch(p) PROVE OrderInv'
  <2>1. Orphaned' = Orphaned
    BY <1>15 DEF Touch, Orphaned
  <2> QED BY <1>15, <2>1 DEF Touch
<1>16. ASSUME NEW p \in Writers, DecCounter(p) PROVE OrderInv'
  <2>1. Orphaned' = Orphaned
    BY <1>16 DEF DecCounter, Orphaned
  <2> QED BY <1>16, <2>1 DEF DecCounter
<1>17. ASSUME NEW p \in Writers, LoadAllocated(p) PROVE OrderInv'
  <2>1. Orphaned' = Orphaned
    BY <1>17 DEF LoadAllocated, Orphaned
  <2> QED BY <1>17, <2>1 DEF LoadAllocated
<1>18. ASSUME NEW p \in Writers, Truncate(p) PROVE OrderInv'
  <2>1. Orphaned' = Orphaned
    BY <1>18 DEF Truncate, Orphaned
  <2> QED BY <1>18, <2>1 DEF Truncate
<1>19. ASSUME NEW p \in Writers, RemoveReady(p) PROVE OrderInv'
  <2>1. Orphaned' = Orphaned
    BY <1>19 DEF RemoveReady, Orphaned
  <2> QED BY <1>19, <2>1 DEF RemoveReady
<1>20. ASSUME NEW p \in Writers, RemoveCounter(p) PROVE OrderInv'
  <2>1. Orphaned' = Orphaned
    BY <1>20 DEF RemoveCounter, Orphaned
  <2> QED BY <1>20, <2>1 DEF RemoveCounter
<1>21. ASSUME NEW p \in Readers, OpenRead(p) PROVE OrderInv'
  <2>1. Orphaned' <=> Orphaned \/ ~exists
    BY <1>21 DEF OpenRead, Orphaned
  <2> QED BY <1>21, <2>1 DEF OpenRead
<1>22. ASSUME NEW p \in Readers, CloseRead(p) PROVE OrderInv'
  <2>1. Orphaned' = Orphaned
    BY <1>22 DEF CloseRead, Orphaned
  <2> QED BY <1>22, <2>1 DEF CloseRead
<1>23. ASSUME NEW p \in Killable, Kill(p) PROVE OrderInv'
  <2>1. Orphaned' = Orphaned
    BY <1>23 DEF Kill, Orphaned
  <2> QED BY <1>23, <2>1 DEF Kill
<1> QED BY <1>1, <1>2, <1>3, <1>4, <1>5, <1>6, <1>7, <1>8, <1>9, <1>10,
  <1>11, <1>12, <1>13, <1>14, <1>15, <1>16, <1>17, <1>18, <1>19, <1>20,
  <1>21, <1>22, <1>23
  DEF Next, OpenStep, WriteStep, CloseStep

LEMMA CountStays ==
  ASSUME CountInv, Counted' = Counted, counter' = counter,
         (\A q \in Writers : pc'[q] \notin {"failed", "killed"}) =>
           \A q \in Writers : pc[q] \notin {"failed", "killed"}
  PROVE  CountInv'
BY DEF CountInv

(* Who fails or is killed leaves the counter as it is.                     *)
LEMMA CountDrops ==
  ASSUME CountInv, TypeOK, NEW p, Counted' = Counted \/ Counted' = Counted \ {p},
         counter' = counter, \E q \in Writers : pc'[q] \in {"failed", "killed"}
  PROVE  CountInv'
<1>1. IsFiniteSet(Counted') /\ Cardinality(Counted') <= Cardinality(Counted)
  BY FS_Subset, FS_CardinalityType DEF CountInv
<1>2. Cardinality(Counted) \in Nat /\ Cardinality(Counted') \in Nat
  BY <1>1, FS_CardinalityType DEF CountInv
<1> QED BY <1>1, <1>2 DEF CountInv, TypeOK

LEMMA CountKept ==
  ASSUME SectionLifecycleAssumption, TypeOK, OrderInv, CountInv, Next
  PROVE  CountInv'
<1> USE DEF Goto, TypeOK, Procs, SectionLifecycleAssumption, file, shm
<1>1. ASSUME NEW p \in Writers, OpenFile(p) PROVE CountInv'
  <2>1. Counted' = Counted
    BY <1>1 DEF OpenFile, Counted, Inside
  <2> QED BY <1>1, <2>1, CountStays DEF OpenFile
<1>2. ASSUME NEW p \in Writers, CreateCounter(p) PROVE CountInv'
  <2>1. Counted' = Counted
    BY <1>2 DEF CreateCounter, Counted, Inside
  <2> QED BY <1>2, <2>1, CountStays DEF CreateCounter
<1>3. ASSUME NEW p \in Writers, ZeroCounter(p) PROVE CountInv'
  <2>1. Counted = {} /\ Counted' = {}
    BY <1>3 DEF ZeroCounter, Counted, Inside, OrderInv
  <2> QED BY <1>3, <2>1, FS_EmptySet DEF ZeroCounter, CountInv
<1>4. ASSUME NEW p \in Writers, CreateReady(p) PROVE CountInv'
  <2>1. Counted' = Counted
    BY <1>4 DEF CreateReady, Counted, Inside
  <2> QED BY <1>4, <2>1, CountStays DEF CreateReady
<1>5. ASSUME NEW p \in Writers, WaitReady(p) PROVE CountInv'
  <2>1. Counted' = Counted
    BY <1>5 DEF WaitReady, Counted, Inside
  <2> QED BY <1>5, <2>1, CountStays DEF WaitReady
<1>6. ASSUME NEW p \in Writers, AttachCounter(p) PROVE CountInv'
  <2>1. Counted' = Counted
    BY <1>6 DEF AttachCounter, Counted, Inside
  <2> QED BY <1>6, <2>1, CountStays DEF AttachCounter
<1>7. ASSUME NEW p \in Writers, IncCounter(p) PROVE CountInv'
  <2>1. p \notin Counted /\ Counted' = Counted \cup {p}
    BY <1>7 DEF IncCounter, Counted, Inside
  <2>2. Cardinality(Counted') = Cardinality(Counted) + 1 /\ IsFiniteSet(Counted')
    BY <2>1, FS_AddElement DEF CountInv
  <2>3. Cardinality(Counted) \in Nat
    BY FS_CardinalityType DEF CountInv
  <2>4. (\A q \in Writers : pc'[q] \notin {"failed", "killed"}) =>
          \A q \in Writers : pc[q] \notin {"failed", "killed"}
    BY <1>7 DEF IncCounter
  <2> QED BY <1>7, <2>2, <2>3, <2>4 DEF IncCounter, CountInv
<1>8. ASSUME NEW p \in Writers, InitSuper(p) PROVE CountInv'
  <2>1. Counted' = Counted
    BY <1>8 DEF InitSuper, Counted, Inside
  <2> QED BY <1>8, <2>1, CountStays DEF InitSuper
<1>9. ASSUME NEW p \in Writers, Publish(p) PROVE CountInv'
  <2>1. Counted' = Counted
    BY <1>9 DEF Publish, Counted, Inside
  <2> QED BY <1>9, <2>1, CountStays DEF Publish
<1>10. ASSUME NEW p \in Writers, WaitFile(p) PROVE CountInv'
  <2>1. Counted' = Counted
    BY <1>10 DEF WaitFile, Counted, Inside
  <2> QED BY <1>10, <2>1, CountStays DEF WaitFile
<1>11. ASSUME NEW p \in Writers, AttachFile(p) PROVE CountInv'
  <2>1. Counted' = Counted
    BY <1>11 DEF AttachFile, Counted, Inside
  <2> QED BY <1>11, <2>1, CountStays DEF AttachFile
<1>12. ASSUME NEW p \in Writers, CheckSuper(p) PROVE CountInv'
  <2>1. CASE blockAllocated > 0
    <3>1. Counted' = Counted
      BY <1>12, <2>1 DEF CheckSuper, Counted, Inside
    <3> QED BY <1>12, <2>1, <3>1, CountStays DEF CheckSuper
  <2>2. CASE ~(blockAllocated > 0)
    <3>1. Counted' = Counted \ {p} /\ pc'[p] = "failed"
      BY <1>12, <2>2 DEF CheckSuper, Counted, Inside
    <3> QED BY <1>12, <3>1, CountDrops DEF CheckSuper
  <2> QED BY <2>1, <2>2
<1>13. ASSUME NEW p \in Writers, Allocate(p) PROVE CountInv'
  <2>1. Counted' = Counted
    BY <1>13 DEF Allocate, Counted, Inside
  <2> QED BY <1>13, <2>1, CountStays DEF Allocate
<1>14. ASSUME NEW p \in Writers, Extend(p) PROVE CountInv'
  <2>1. Counted' = Counted
    BY <1>14 DEF Extend, Counted, Inside
  <2> QED BY <1>14, <2>1, CountStays DEF Extend
<1>15. ASSUME NEW p \in Writers, Touch(p) PROVE CountInv'
  <2>1. CASE own[p] < fileLen
    <3>1. Counted' = Counted
      BY <1>15, <2>1 DEF Touch, Counted, Inside
    <3> QED BY <1>15, <2>1, <3>1, CountStays DEF Touch
  <2>2. CASE ~(own[p] < fileLen)
    <3>1. Counted' = Counted \ {p} /\ pc'[p] = "failed"
      BY <1>15, <2>2 DEF Touch, Counted, Inside
    <3> QED BY <1>15, <3>1, CountDrops DEF Touch
  <2> QED BY <2>1, <2>2
<1>16. ASSUME NEW p \in Writers, DecCounter(p) PROVE CountInv'
  <2>1. p \in Counted /\ counter' = counter - 1
    BY <1>16 DEF DecCounter, Counted, Inside
  <2>2. Counted' = Counted \ {p}
    BY <1>16 DEF DecCounter, Counted, Inside
  <2>3. /\ IsFiniteSet(Counted') /\ Cardinality(Counted) \in Nat
        /\ Cardinality(Counted') = Cardinality(Counted) - 1
    BY <2>1, <2>2, FS_RemoveElement, FS_CardinalityType DEF CountInv
  <2>4. (\A q \in Writers : pc'[q] \notin {"failed", "killed"}) =>
          \A q \in Writers : pc[q] \notin {"failed", "killed"}
    BY <1>16 DEF DecCounter
  <2> QED BY <2>1, <2>3, <2>4 DEF CountInv
<1>17. ASSUME NEW p \in Writers, LoadAllocated(p) PROVE CountInv'
  <2>1. Counted' = Counted
    BY <1>17 DEF LoadAllocated, Counted, Inside
  <2> QED BY <1>17, <2>1, CountStays DEF LoadAllocated
<1>18. ASSUME NEW p \in Writers, Truncate(p) PROVE CountInv'
  <2>1. Counted' = Counted
    BY <1>18 DEF Truncate, Counted, Inside
  <2> QED BY <1>18, <2>1, CountStays DEF Truncate
<1>19. ASSUME NEW p \in Writers, RemoveReady(p) PROVE CountInv'
  <2>1. Counted' = Counted
    BY <1>19 DEF RemoveReady, Counted, Inside
  <2> QED BY <1>19, <2>1, CountStays DEF RemoveReady
<1>20. ASSUME NEW p \in Writers, RemoveCounter(p) PROVE CountInv'
  <2>1. Counted' = Counted
    BY <1>20 DEF RemoveCounter, Counted, Inside
  <2> QED BY <1>20, <2>1, CountStays DEF RemoveCounter
<1>21. ASSUME NEW p \in Readers, OpenRead(p) PROVE CountInv'
  <2>1. Counted' = Counted
    BY <1>21 DEF OpenRead, Counted, Inside
  <2> QED BY <1>21, <2>1, CountStays DEF OpenRead
<1>22. ASSUME NEW p \in Readers, CloseRead(p) PROVE CountInv'
  <2>1. Counted' = Counted
    BY <1>22 DEF CloseRead, Counted, Inside
  <2> QED BY <1>22, <2>1, CountStays DEF CloseRead
<1>23. ASSUME NEW p \in Killable, Kill(p) PROVE CountInv'
  <2>1. Counted' = Counted \ {p} /\ pc'[p] = "killed" /\ p \in Writers
    BY <1>23 DEF Kill, Counted, Inside
  <2> QED BY <1>23, <2>1, CountDrops DEF Kill
<1> QED BY <1>1, <1>2, <1>3, <1>4, <1>5, <1>6, <1>7, <1>8, <1>9, <1>10,
  <1>11, <1>12, <1>13, <1>14, <1>15, <1>16, <1>17, <1>18, <1>19, <1>20,
  <1>21, <1>22, <1>23
  DEF Next, OpenStep, WriteStep, CloseStep

LEMMA StepC ==
  ASSUME SectionLifecycleAssumption, CInv, [Next]_vars
  PROVE  CInv'
<1>1. CASE Next
  <2>1. TypeOK /\ OrderInv /\ CountInv
    BY DEF CInv
  <2>2. TypeOK' /\ OrderInv' /\ CountInv'
    BY <1>1, <2>1, TypeKept, OrderKept, CountKept
  <2> QED BY <2>2 DEF CInv
<1>2. CASE UNCHANGED vars
  BY <1>2 DEF CInv, TypeOK, OrderInv, Orphaned, CountInv, Counted, vars
<1> QED BY <1>1, <1>2

LEMMA InvC == Spec => []CInv
<1>1. Init => CInv
  BY SectionLifecycleAssumption, InitC
<1>2. CInv /\ [Next]_vars => CInv'
  BY SectionLifecycleAssumption, StepC
<1> QED BY <1>1, <1>2, PTL DEF Spec

(* Type correctness.                                                       *)
THEOREM LifecycleTypeCorrect == Spec => []TypeOK
<1>1. CInv => TypeOK
  BY DEF CInv
<1> QED BY <1>1, InvC, PTL

(* Whoever may close first, killed or not: the counter never falls below   *)
(* the number of processes inside (fsl_lib.cpp:65-76, 387).                *)
THEOREM CounterCovers == Spec => []CounterCoversOpen
<1>1. CInv => CounterCoversOpen
  BY FS_CardinalityType DEF CInv, CountInv, CounterCoversOpen, TypeOK
<1> QED BY <1>1, InvC, PTL

-----------------------------------------------------------------------------
(* When nobody closes before all have opened.                              *)
LEMMA InitJ == SectionLifecycleAssumption /\ Init => JInv
<1> SUFFICES ASSUME SectionLifecycleAssumption, Init PROVE JInv
  OBVIOUS
<1> USE DEF Init, Procs, SectionLifecycleAssumption
<1>1. CInv
  BY InitC
<1>2. NobodyFails /\ OpenInv
  BY DEF NobodyFails, OpenInv, Inside, Closing
<1>3. LeaveInv
  BY DEF LeaveInv, Closing
<1>4. TrimInv
  BY DEF TrimInv
<1>5. ASSUME NEW p \in Writers PROVE WriterInv(p)
  BY DEF WriterInv, Inside
<1>6. ASSUME NEW p \in Readers PROVE ReaderInv(p)
  BY DEF ReaderInv
<1> QED BY <1>1, <1>2, <1>3, <1>4, <1>5, <1>6 DEF JInv

LEMMA Wider ==
  ASSUME NEW m \in Nat, NEW n \in Nat, m < n
  PROVE  (m + 1) * BlocksPerPage <= n * BlocksPerPage /\ m * BlocksPerPage \in Nat
BY SectionLifecycleAssumption DEF SectionLifecycleAssumption

LEMMA Pages ==
  ASSUME NEW b \in Nat
  PROVE  /\ b \div BlocksPerPage \in Nat
         /\ b < (b \div BlocksPerPage + 1) * BlocksPerPage
         /\ b <= ((b + BlocksPerPage - 1) \div BlocksPerPage) * BlocksPerPage
         /\ (b + BlocksPerPage - 1) \div BlocksPerPage \in Nat
BY SectionLifecycleAssumption DEF SectionLifecycleAssumption

LEMMA WriterReach ==
  ASSUME JInv, NEW p \in Writers, pc[p] \in {"touch"}
  PROVE  own[p] < fileLen
<1>1. mapped[p] * BlocksPerPage \in Nat /\ own[p] \in Nat /\ fileLen \in Nat
  BY SectionLifecycleAssumption DEF SectionLifecycleAssumption, JInv, CInv, TypeOK, Procs
<1>2. own[p] < mapped[p] * BlocksPerPage /\ mapped[p] * BlocksPerPage <= fileLen
  BY DEF JInv, WriterInv, Inside
<1> QED BY <1>1, <1>2

LEMMA FailKept ==
  ASSUME SectionLifecycleAssumption, ~LateJoin, JInv, Next
  PROVE  NobodyFails'
<1> USE DEF Goto, Procs, SectionLifecycleAssumption, file, shm, JInv, CInv,
        TypeOK, NobodyFails
<1>1. ASSUME NEW p \in Writers, OpenFile(p) PROVE NobodyFails'
  BY <1>1 DEF OpenFile
<1>2. ASSUME NEW p \in Writers, CreateCounter(p) PROVE NobodyFails'
  BY <1>2 DEF CreateCounter
<1>3. ASSUME NEW p \in Writers, ZeroCounter(p) PROVE NobodyFails'
  BY <1>3 DEF ZeroCounter
<1>4. ASSUME NEW p \in Writers, CreateReady(p) PROVE NobodyFails'
  BY <1>4 DEF CreateReady
<1>5. ASSUME NEW p \in Writers, WaitReady(p) PROVE NobodyFails'
  BY <1>5 DEF WaitReady
<1>6. ASSUME NEW p \in Writers, AttachCounter(p) PROVE NobodyFails'
  <2>1. counterId = "live"
    BY <1>6 DEF AttachCounter, OrderInv, LeaveInv, AllIn, Past, Inside, Closing, Ended, Keys
  <2> QED BY <1>6, <2>1 DEF AttachCounter
<1>7. ASSUME NEW p \in Writers, IncCounter(p) PROVE NobodyFails'
  BY <1>7 DEF IncCounter
<1>8. ASSUME NEW p \in Writers, InitSuper(p) PROVE NobodyFails'
  BY <1>8 DEF InitSuper
<1>9. ASSUME NEW p \in Writers, Publish(p) PROVE NobodyFails'
  BY <1>9 DEF Publish
<1>10. ASSUME NEW p \in Writers, WaitFile(p) PROVE NobodyFails'
  BY <1>10 DEF WaitFile
<1>11. ASSUME NEW p \in Writers, AttachFile(p) PROVE NobodyFails'
  BY <1>11 DEF AttachFile
<1>12. ASSUME NEW p \in Writers, CheckSuper(p) PROVE NobodyFails'
  <2>1. blockAllocated > 0
    BY <1>12 DEF CheckSuper, OpenInv
  <2> QED BY <1>12, <2>1 DEF CheckSuper
<1>13. ASSUME NEW p \in Writers, Allocate(p) PROVE NobodyFails'
  BY <1>13 DEF Allocate
<1>14. ASSUME NEW p \in Writers, Extend(p) PROVE NobodyFails'
  BY <1>14 DEF Extend
<1>15. ASSUME NEW p \in Writers, Touch(p) PROVE NobodyFails'
  <2>1. own[p] < fileLen
    BY <1>15, WriterReach DEF Touch, Inside
  <2> QED BY <1>15, <2>1 DEF Touch
<1>16. ASSUME NEW p \in Writers, DecCounter(p) PROVE NobodyFails'
  BY <1>16 DEF DecCounter
<1>17. ASSUME NEW p \in Writers, LoadAllocated(p) PROVE NobodyFails'
  BY <1>17 DEF LoadAllocated
<1>18. ASSUME NEW p \in Writers, Truncate(p) PROVE NobodyFails'
  BY <1>18 DEF Truncate
<1>19. ASSUME NEW p \in Writers, RemoveReady(p) PROVE NobodyFails'
  BY <1>19 DEF RemoveReady
<1>20. ASSUME NEW p \in Writers, RemoveCounter(p) PROVE NobodyFails'
  BY <1>20 DEF RemoveCounter
<1>21. ASSUME NEW p \in Readers, OpenRead(p) PROVE NobodyFails'
  <2>1. pc'[p] \in {"failed", "orphaned"} => written = 0
    <3>1. ~exists => written = 0
      BY DEF OpenInv, OrderInv
    <3>2. fileLen = 0 => written = 0
      BY DEF OpenInv
    <3> QED BY <1>21, <3>1, <3>2 DEF OpenRead
  <2> QED BY <1>21, <2>1 DEF OpenRead
<1>22. ASSUME NEW p \in Readers, CloseRead(p) PROVE NobodyFails'
  BY <1>22 DEF CloseRead
<1>23. ASSUME NEW p \in Killable, Kill(p) PROVE NobodyFails'
  BY <1>23 DEF Kill
<1> QED BY <1>1, <1>2, <1>3, <1>4, <1>5, <1>6, <1>7, <1>8, <1>9, <1>10,
  <1>11, <1>12, <1>13, <1>14, <1>15, <1>16, <1>17, <1>18, <1>19, <1>20,
  <1>21, <1>22, <1>23
  DEF Next, OpenStep, WriteStep, CloseStep

LEMMA OpenKept ==
  ASSUME SectionLifecycleAssumption, ~LateJoin, JInv, Next
  PROVE  OpenInv'
<1> USE DEF Goto, Procs, SectionLifecycleAssumption, file, shm, JInv, CInv,
        TypeOK, OpenInv, Inside, Closing, Larger
<1>1. ASSUME NEW p \in Writers, OpenFile(p) PROVE OpenInv'
  BY <1>1 DEF OpenFile
<1>2. ASSUME NEW p \in Writers, CreateCounter(p) PROVE OpenInv'
  BY <1>2 DEF CreateCounter
<1>3. ASSUME NEW p \in Writers, ZeroCounter(p) PROVE OpenInv'
  BY <1>3 DEF ZeroCounter
<1>4. ASSUME NEW p \in Writers, CreateReady(p) PROVE OpenInv'
  BY <1>4 DEF CreateReady
<1>5. ASSUME NEW p \in Writers, WaitReady(p) PROVE OpenInv'
  BY <1>5 DEF WaitReady
<1>6. ASSUME NEW p \in Writers, AttachCounter(p) PROVE OpenInv'
  BY <1>6 DEF AttachCounter, OrderInv
<1>7. ASSUME NEW p \in Writers, IncCounter(p) PROVE OpenInv'
  BY <1>7 DEF IncCounter
<1>8. ASSUME NEW p \in Writers, InitSuper(p) PROVE OpenInv'
  BY <1>8 DEF InitSuper, OrderInv
<1>9. ASSUME NEW p \in Writers, Publish(p) PROVE OpenInv'
  BY <1>9 DEF Publish, WriterInv, OrderInv
<1>10. ASSUME NEW p \in Writers, WaitFile(p) PROVE OpenInv'
  BY <1>10 DEF WaitFile
<1>11. ASSUME NEW p \in Writers, AttachFile(p) PROVE OpenInv'
  BY <1>11 DEF AttachFile
<1>12. ASSUME NEW p \in Writers, CheckSuper(p) PROVE OpenInv'
  BY <1>12 DEF CheckSuper
<1>13. ASSUME NEW p \in Writers, Allocate(p) PROVE OpenInv'
  BY <1>13 DEF Allocate
<1>14. ASSUME NEW p \in Writers, Extend(p) PROVE OpenInv'
  BY <1>14 DEF Extend
<1>15. ASSUME NEW p \in Writers, Touch(p) PROVE OpenInv'
  <2>1. own[p] < fileLen /\ own[p] < blockAllocated
    BY <1>15, WriterReach DEF Touch, WriterInv
  <2>2. /\ UNCHANGED <<exists, fileLen, blockAllocated, lockFile>>
        /\ written' = Larger(written, own[p] + 1)
        /\ pc' = [pc EXCEPT ![p] = "open"] /\ pc[p] = "touch"
    BY <1>15, <2>1 DEF Touch
  <2>3. /\ lockFile
        /\ pc'[Creator] \notin {"none", "wait_ready", "create", "zero", "ready", "inc", "super"}
    BY <2>2 DEF OrderInv
  <2> QED BY <2>1, <2>2, <2>3 DEF Larger
<1>16. ASSUME NEW p \in Writers, DecCounter(p) PROVE OpenInv'
  BY <1>16 DEF DecCounter
<1>17. ASSUME NEW p \in Writers, LoadAllocated(p) PROVE OpenInv'
  BY <1>17 DEF LoadAllocated
<1>18. ASSUME NEW p \in Writers, Truncate(p) PROVE OpenInv'
  BY <1>18 DEF Truncate, LeaveInv
<1>19. ASSUME NEW p \in Writers, RemoveReady(p) PROVE OpenInv'
  BY <1>19 DEF RemoveReady
<1>20. ASSUME NEW p \in Writers, RemoveCounter(p) PROVE OpenInv'
  BY <1>20 DEF RemoveCounter
<1>21. ASSUME NEW p \in Readers, OpenRead(p) PROVE OpenInv'
  BY <1>21 DEF OpenRead
<1>22. ASSUME NEW p \in Readers, CloseRead(p) PROVE OpenInv'
  BY <1>22 DEF CloseRead
<1>23. ASSUME NEW p \in Killable, Kill(p) PROVE OpenInv'
  BY <1>23 DEF Kill
<1> QED BY <1>1, <1>2, <1>3, <1>4, <1>5, <1>6, <1>7, <1>8, <1>9, <1>10,
  <1>11, <1>12, <1>13, <1>14, <1>15, <1>16, <1>17, <1>18, <1>19, <1>20,
  <1>21, <1>22, <1>23
  DEF Next, OpenStep, WriteStep, CloseStep

(* Who has opened before anybody leaves has seen all in.                   *)
LEMMA LeaveKept ==
  ASSUME SectionLifecycleAssumption, ~LateJoin, JInv, Next
  PROVE  LeaveInv'
<1> USE DEF Goto, Procs, SectionLifecycleAssumption, file, shm, JInv, CInv,
        TypeOK, Past, AllIn, LeaveInv, Inside, Closing, Ended
<1>1. ASSUME NEW p \in Writers, OpenFile(p) PROVE LeaveInv'
  <2>1. Counted' = Counted
    BY <1>1 DEF OpenFile, Counted
  <2> QED BY <1>1, <2>1 DEF OpenFile, OrderInv
<1>2. ASSUME NEW p \in Writers, CreateCounter(p) PROVE LeaveInv'
  <2>1. Counted' = Counted
    BY <1>2 DEF CreateCounter, Counted
  <2> QED BY <1>2, <2>1 DEF CreateCounter, OrderInv
<1>3. ASSUME NEW p \in Writers, ZeroCounter(p) PROVE LeaveInv'
  <2>1. Counted' = Counted
    BY <1>3 DEF ZeroCounter, Counted
  <2> QED BY <1>3, <2>1 DEF ZeroCounter, OrderInv
<1>4. ASSUME NEW p \in Writers, CreateReady(p) PROVE LeaveInv'
  <2>1. Counted' = Counted
    BY <1>4 DEF CreateReady, Counted
  <2> QED BY <1>4, <2>1 DEF CreateReady, OrderInv
<1>5. ASSUME NEW p \in Writers, WaitReady(p) PROVE LeaveInv'
  <2>1. Counted' = Counted
    BY <1>5 DEF WaitReady, Counted
  <2> QED BY <1>5, <2>1 DEF WaitReady, OrderInv
<1>6. ASSUME NEW p \in Writers, AttachCounter(p) PROVE LeaveInv'
  <2>1. Counted' = Counted
    BY <1>6 DEF AttachCounter, Counted
  <2> QED BY <1>6, <2>1 DEF AttachCounter, OrderInv
<1>7. ASSUME NEW p \in Writers, IncCounter(p) PROVE LeaveInv'
  BY <1>7 DEF IncCounter, Counted, OrderInv
<1>8. ASSUME NEW p \in Writers, InitSuper(p) PROVE LeaveInv'
  <2>1. Counted' = Counted /\ p \in Counted
    BY <1>8 DEF InitSuper, Counted
  <2> QED BY <1>8, <2>1 DEF InitSuper, OrderInv
<1>9. ASSUME NEW p \in Writers, Publish(p) PROVE LeaveInv'
  <2>1. Counted' = Counted
    BY <1>9 DEF Publish, Counted
  <2> QED BY <1>9, <2>1 DEF Publish
<1>10. ASSUME NEW p \in Writers, WaitFile(p) PROVE LeaveInv'
  <2>1. Counted' = Counted
    BY <1>10 DEF WaitFile, Counted
  <2> QED BY <1>10, <2>1 DEF WaitFile
<1>11. ASSUME NEW p \in Writers, AttachFile(p) PROVE LeaveInv'
  <2>1. Counted' = Counted
    BY <1>11 DEF AttachFile, Counted
  <2> QED BY <1>11, <2>1 DEF AttachFile
<1>12. ASSUME NEW p \in Writers, CheckSuper(p) PROVE LeaveInv'
  <2>1. Counted' \subseteq Counted
    BY <1>12 DEF CheckSuper, Counted
  <2> QED BY <1>12, <2>1 DEF CheckSuper
<1>13. ASSUME NEW p \in Writers, Allocate(p) PROVE LeaveInv'
  <2>1. Counted' = Counted /\ p \in Counted
    BY <1>13 DEF Allocate, Counted
  <2> QED BY <1>13, <2>1 DEF Allocate, OrderInv
<1>14. ASSUME NEW p \in Writers, Extend(p) PROVE LeaveInv'
  <2>1. Counted' = Counted
    BY <1>14 DEF Extend, Counted
  <2> QED BY <1>14, <2>1 DEF Extend
<1>15. ASSUME NEW p \in Writers, Touch(p) PROVE LeaveInv'
  <2>1. Counted' \subseteq Counted
    BY <1>15 DEF Touch, Counted
  <2> QED BY <1>15, <2>1 DEF Touch
<1>16. ASSUME NEW p \in Writers, DecCounter(p) PROVE LeaveInv'
  <2>1. p \in Counted /\ Counted' = Counted \ {p}
    BY <1>16 DEF DecCounter, Counted
  <2>2. counter = 1 => Counted' = {}
    <3>1. Cardinality(Counted) \in Nat /\ Cardinality(Counted') = Cardinality(Counted) - 1
          /\ IsFiniteSet(Counted')
      BY <2>1, FS_RemoveElement, FS_CardinalityType DEF CountInv
    <3> QED BY <3>1, FS_EmptySet, FS_CardinalityType DEF CountInv
  <2> QED BY <1>16, <2>1, <2>2 DEF DecCounter
<1>17. ASSUME NEW p \in Writers, LoadAllocated(p) PROVE LeaveInv'
  <2>1. Counted' = Counted
    BY <1>17 DEF LoadAllocated, Counted
  <2> QED BY <1>17, <2>1 DEF LoadAllocated
<1>18. ASSUME NEW p \in Writers, Truncate(p) PROVE LeaveInv'
  <2>1. Counted' = Counted
    BY <1>18 DEF Truncate, Counted
  <2> QED BY <1>18, <2>1 DEF Truncate
<1>19. ASSUME NEW p \in Writers, RemoveReady(p) PROVE LeaveInv'
  <2>1. Counted' = Counted
    BY <1>19 DEF RemoveReady, Counted
  <2> QED BY <1>19, <2>1 DEF RemoveReady, OrderInv
<1>20. ASSUME NEW p \in Writers, RemoveCounter(p) PROVE LeaveInv'
  <2>1. Counted' = Counted
    BY <1>20 DEF RemoveCounter, Counted
  <2> QED BY <1>20, <2>1 DEF RemoveCounter
<1>21. ASSUME NEW p \in Readers, OpenRead(p) PROVE LeaveInv'
  <2>1. Counted' = Counted
    BY <1>21 DEF OpenRead, Counted
  <2> QED BY <1>21, <2>1 DEF OpenRead
<1>22. ASSUME NEW p \in Readers, CloseRead(p) PROVE LeaveInv'
  <2>1. Counted' = Counted
    BY <1>22 DEF CloseRead, Counted
  <2> QED BY <1>22, <2>1 DEF CloseRead
<1>23. ASSUME NEW p \in Killable, Kill(p) PROVE LeaveInv'
  <2>1. Counted' \subseteq Counted
    BY <1>23 DEF Kill, Counted
  <2> QED BY <1>23, <2>1 DEF Kill
<1> QED BY <1>1, <1>2, <1>3, <1>4, <1>5, <1>6, <1>7, <1>8, <1>9, <1>10,
  <1>11, <1>12, <1>13, <1>14, <1>15, <1>16, <1>17, <1>18, <1>19, <1>20,
  <1>21, <1>22, <1>23
  DEF Next, OpenStep, WriteStep, CloseStep

(* The last one to leave finds the counter at 1, unless one has been       *)
(* killed.                                                                 *)
LEMMA TrimKept ==
  ASSUME SectionLifecycleAssumption, ~LateJoin, JInv, Next
  PROVE  TrimInv'
<1> USE DEF Goto, Procs, SectionLifecycleAssumption, file, shm, JInv, CInv,
        TypeOK, Past, AllIn, TrimInv, Inside, Closing, Ended
<1>1. ASSUME NEW p \in Writers, OpenFile(p) PROVE TrimInv'
  <2>1. ~AllIn'
    BY <1>1 DEF OpenFile
  <2> QED BY <2>1
<1>2. ASSUME NEW p \in Writers, CreateCounter(p) PROVE TrimInv'
  <2>1. ~AllIn'
    BY <1>2 DEF CreateCounter
  <2> QED BY <2>1
<1>3. ASSUME NEW p \in Writers, ZeroCounter(p) PROVE TrimInv'
  <2>1. ~AllIn'
    BY <1>3 DEF ZeroCounter
  <2> QED BY <2>1
<1>4. ASSUME NEW p \in Writers, CreateReady(p) PROVE TrimInv'
  <2>1. ~AllIn'
    BY <1>4 DEF CreateReady
  <2> QED BY <2>1
<1>5. ASSUME NEW p \in Writers, WaitReady(p) PROVE TrimInv'
  <2>1. ~AllIn'
    BY <1>5 DEF WaitReady
  <2> QED BY <2>1
<1>6. ASSUME NEW p \in Writers, AttachCounter(p) PROVE TrimInv'
  <2>1. ~AllIn'
    BY <1>6, FailKept DEF AttachCounter, NobodyFails
  <2> QED BY <2>1
<1>7. ASSUME NEW p \in Writers, IncCounter(p) PROVE TrimInv'
  <2>1. ~AllIn'
    BY <1>7 DEF IncCounter
  <2> QED BY <2>1
<1>8. ASSUME NEW p \in Writers, InitSuper(p) PROVE TrimInv'
  <2>1. ~AllIn'
    BY <1>8 DEF InitSuper
  <2> QED BY <2>1
<1>9. ASSUME NEW p \in Writers, Publish(p) PROVE TrimInv'
  <2>1. p \in Counted'
    BY <1>9 DEF Publish, Counted
  <2> QED BY <2>1
<1>10. ASSUME NEW p \in Writers, WaitFile(p) PROVE TrimInv'
  <2>1. ~AllIn'
    BY <1>10 DEF WaitFile
  <2> QED BY <2>1
<1>11. ASSUME NEW p \in Writers, AttachFile(p) PROVE TrimInv'
  <2>1. ~AllIn'
    BY <1>11 DEF AttachFile
  <2> QED BY <2>1
<1>12. ASSUME NEW p \in Writers, CheckSuper(p) PROVE TrimInv'
  <2>1. p \in Counted'
    BY <1>12, FailKept DEF CheckSuper, NobodyFails, Counted
  <2> QED BY <2>1
<1>13. ASSUME NEW p \in Writers, Allocate(p) PROVE TrimInv'
  <2>1. p \in Counted'
    BY <1>13 DEF Allocate, Counted
  <2> QED BY <2>1
<1>14. ASSUME NEW p \in Writers, Extend(p) PROVE TrimInv'
  <2>1. p \in Counted'
    BY <1>14 DEF Extend, Counted
  <2> QED BY <2>1
<1>15. ASSUME NEW p \in Writers, Touch(p) PROVE TrimInv'
  <2>1. p \in Counted'
    BY <1>15, FailKept DEF Touch, NobodyFails, Counted
  <2> QED BY <2>1
<1>16. ASSUME NEW p \in Writers, DecCounter(p) PROVE TrimInv'
  <2>1. CASE counter = 1
    BY <1>16, <2>1 DEF DecCounter
  <2>2. CASE counter # 1
    <3>1. SUFFICES ASSUME Counted' = {}, \A q \in Writers : pc'[q] # "killed" PROVE FALSE
      BY DEF TrimInv
    <3>2. \A q \in Writers : pc[q] \notin {"failed", "killed"}
      BY <1>16, <3>1, FailKept DEF DecCounter, NobodyFails
    <3>3. p \in Counted /\ Counted' = Counted \ {p} /\ counter = Cardinality(Counted)
      BY <1>16, <3>2 DEF DecCounter, Counted, CountInv
    <3>4. Cardinality(Counted') = Cardinality(Counted) - 1 /\ Cardinality(Counted) \in Nat
      BY <3>3, FS_RemoveElement, FS_CardinalityType DEF CountInv
    <3> QED BY <2>2, <3>1, <3>3, <3>4, FS_EmptySet
  <2> QED BY <2>1, <2>2
<1>17. ASSUME NEW p \in Writers, LoadAllocated(p) PROVE TrimInv'
  BY <1>17 DEF LoadAllocated
<1>18. ASSUME NEW p \in Writers, Truncate(p) PROVE TrimInv'
  BY <1>18 DEF Truncate, LeaveInv
<1>19. ASSUME NEW p \in Writers, RemoveReady(p) PROVE TrimInv'
  <2>1. Counted' = Counted
    BY <1>19 DEF RemoveReady, Counted
  <2> QED BY <1>19, <2>1 DEF RemoveReady
<1>20. ASSUME NEW p \in Writers, RemoveCounter(p) PROVE TrimInv'
  <2>1. Counted' = Counted
    BY <1>20 DEF RemoveCounter, Counted
  <2> QED BY <1>20, <2>1 DEF RemoveCounter
<1>21. ASSUME NEW p \in Readers, OpenRead(p) PROVE TrimInv'
  <2>1. Counted' = Counted
    BY <1>21 DEF OpenRead, Counted
  <2> QED BY <1>21, <2>1 DEF OpenRead
<1>22. ASSUME NEW p \in Readers, CloseRead(p) PROVE TrimInv'
  <2>1. Counted' = Counted
    BY <1>22 DEF CloseRead, Counted
  <2> QED BY <1>22, <2>1 DEF CloseRead
<1>23. ASSUME NEW p \in Killable, Kill(p) PROVE TrimInv'
  BY <1>23 DEF Kill
<1> QED BY <1>1, <1>2, <1>3, <1>4, <1>5, <1>6, <1>7, <1>8, <1>9, <1>10,
  <1>11, <1>12, <1>13, <1>14, <1>15, <1>16, <1>17, <1>18, <1>19, <1>20,
  <1>21, <1>22, <1>23
  DEF Next, OpenStep, WriteStep, CloseStep

(* While anybody is inside, nothing shrinks.                               *)
LEMMA WriterKept ==
  ASSUME SectionLifecycleAssumption, ~LateJoin, JInv, Next, NEW q \in Writers
  PROVE  WriterInv(q)'
<1> USE DEF Goto, Procs, SectionLifecycleAssumption, file, shm, JInv, CInv,
        TypeOK, WriterInv, Inside, Larger
<1>1. ASSUME NEW p \in Writers, OpenFile(p) PROVE WriterInv(q)'
  BY <1>1 DEF OpenFile
<1>2. ASSUME NEW p \in Writers, CreateCounter(p) PROVE WriterInv(q)'
  BY <1>2 DEF CreateCounter
<1>3. ASSUME NEW p \in Writers, ZeroCounter(p) PROVE WriterInv(q)'
  BY <1>3 DEF ZeroCounter
<1>4. ASSUME NEW p \in Writers, CreateReady(p) PROVE WriterInv(q)'
  BY <1>4 DEF CreateReady
<1>5. ASSUME NEW p \in Writers, WaitReady(p) PROVE WriterInv(q)'
  BY <1>5 DEF WaitReady
<1>6. ASSUME NEW p \in Writers, AttachCounter(p) PROVE WriterInv(q)'
  BY <1>6 DEF AttachCounter
<1>7. ASSUME NEW p \in Writers, IncCounter(p) PROVE WriterInv(q)'
  BY <1>7 DEF IncCounter
<1>8. ASSUME NEW p \in Writers, InitSuper(p) PROVE WriterInv(q)'
  <2>1. p = Creator /\ ~lockFile
    BY <1>8 DEF InitSuper, OrderInv
  <2>2. pc[q] \notin {"publish", "check", "extend", "touch", "open"}
    BY <1>8, <2>1 DEF InitSuper, OpenInv, OrderInv
  <2> QED BY <1>8, <2>2 DEF InitSuper
<1>9. ASSUME NEW p \in Writers, Publish(p) PROVE WriterInv(q)'
  BY <1>9 DEF Publish
<1>10. ASSUME NEW p \in Writers, WaitFile(p) PROVE WriterInv(q)'
  BY <1>10 DEF WaitFile
<1>11. ASSUME NEW p \in Writers, AttachFile(p) PROVE WriterInv(q)'
  BY <1>11 DEF AttachFile
<1>12. ASSUME NEW p \in Writers, CheckSuper(p) PROVE WriterInv(q)'
  BY <1>12 DEF CheckSuper
<1>13. ASSUME NEW p \in Writers, Allocate(p) PROVE WriterInv(q)'
  BY <1>13 DEF Allocate
<1>14. ASSUME NEW p \in Writers, Extend(p) PROVE WriterInv(q)'
  <2> DEFINE page == own[p] \div BlocksPerPage
             next == IF page < mapped[p] THEN mapped[p] ELSE Larger(page + 1, 2 * mapped[p])
  <2>1. /\ own[p] \in Nat /\ mapped[p] \in Nat /\ page \in Nat
        /\ own[p] < (page + 1) * BlocksPerPage
    BY <1>14, Pages DEF Extend
  <2>2. next \in Nat /\ page < next
    BY <2>1
  <2>3. own[p] < next * BlocksPerPage /\ next * BlocksPerPage \in Nat
    <3>1. (page + 1) * BlocksPerPage <= next * BlocksPerPage
      BY <2>1, <2>2, Wider
    <3>2. (page + 1) * BlocksPerPage \in Nat /\ next * BlocksPerPage \in Nat
      BY <2>1, <2>2
    <3> QED BY <2>1, <3>1, <3>2
  <2>4. /\ pc[p] = "extend" /\ pc' = [pc EXCEPT ![p] = "touch"]
        /\ mapped' = [mapped EXCEPT ![p] = next]
        /\ fileLen' = IF page < mapped[p] THEN fileLen ELSE Larger(fileLen, next * BlocksPerPage)
        /\ UNCHANGED <<blockAllocated, own>>
    BY <1>14 DEF Extend
  <2>5. own[p] < blockAllocated /\ mapped[p] * BlocksPerPage <= fileLen
    BY <2>4
  <2>6. next * BlocksPerPage <= fileLen' /\ fileLen <= fileLen' /\ fileLen' \in Nat
    BY <2>3, <2>4, <2>5
  <2>7. CASE q = p
    BY <2>3, <2>4, <2>5, <2>6, <2>7
  <2>8. CASE q # p
    <3>1. mapped[q] * BlocksPerPage \in Nat
      OBVIOUS
    <3> QED BY <2>4, <2>6, <2>8, <3>1
  <2> QED BY <2>7, <2>8
<1>15. ASSUME NEW p \in Writers, Touch(p) PROVE WriterInv(q)'
  BY <1>15 DEF Touch
<1>16. ASSUME NEW p \in Writers, DecCounter(p) PROVE WriterInv(q)'
  BY <1>16 DEF DecCounter
<1>17. ASSUME NEW p \in Writers, LoadAllocated(p) PROVE WriterInv(q)'
  BY <1>17 DEF LoadAllocated
<1>18. ASSUME NEW p \in Writers, Truncate(p) PROVE WriterInv(q)'
  <2>1. pc[q] \notin {"publish", "check"} \cup Inside
    BY <1>18 DEF Truncate, LeaveInv, Counted
  <2> QED BY <1>18, <2>1 DEF Truncate
<1>19. ASSUME NEW p \in Writers, RemoveReady(p) PROVE WriterInv(q)'
  BY <1>19 DEF RemoveReady
<1>20. ASSUME NEW p \in Writers, RemoveCounter(p) PROVE WriterInv(q)'
  BY <1>20 DEF RemoveCounter
<1>21. ASSUME NEW p \in Readers, OpenRead(p) PROVE WriterInv(q)'
  BY <1>21 DEF OpenRead
<1>22. ASSUME NEW p \in Readers, CloseRead(p) PROVE WriterInv(q)'
  BY <1>22 DEF CloseRead
<1>23. ASSUME NEW p \in Killable, Kill(p) PROVE WriterInv(q)'
  BY <1>23 DEF Kill
<1> QED BY <1>1, <1>2, <1>3, <1>4, <1>5, <1>6, <1>7, <1>8, <1>9, <1>10,
  <1>11, <1>12, <1>13, <1>14, <1>15, <1>16, <1>17, <1>18, <1>19, <1>20,
  <1>21, <1>22, <1>23
  DEF Next, OpenStep, WriteStep, CloseStep

LEMMA ReaderKept ==
  ASSUME SectionLifecycleAssumption, ~LateJoin, JInv, Next, NEW q \in Readers
  PROVE  ReaderInv(q)'
<1> USE DEF Goto, Procs, SectionLifecycleAssumption, file, shm, JInv, CInv,
        TypeOK, ReaderInv, Larger
<1>1. ASSUME NEW p \in Writers, OpenFile(p) PROVE ReaderInv(q)'
  BY <1>1 DEF OpenFile
<1>2. ASSUME NEW p \in Writers, CreateCounter(p) PROVE ReaderInv(q)'
  BY <1>2 DEF CreateCounter
<1>3. ASSUME NEW p \in Writers, ZeroCounter(p) PROVE ReaderInv(q)'
  BY <1>3 DEF ZeroCounter
<1>4. ASSUME NEW p \in Writers, CreateReady(p) PROVE ReaderInv(q)'
  BY <1>4 DEF CreateReady
<1>5. ASSUME NEW p \in Writers, WaitReady(p) PROVE ReaderInv(q)'
  BY <1>5 DEF WaitReady
<1>6. ASSUME NEW p \in Writers, AttachCounter(p) PROVE ReaderInv(q)'
  BY <1>6 DEF AttachCounter
<1>7. ASSUME NEW p \in Writers, IncCounter(p) PROVE ReaderInv(q)'
  BY <1>7 DEF IncCounter
<1>8. ASSUME NEW p \in Writers, InitSuper(p) PROVE ReaderInv(q)'
  <2>1. written = 0
    BY <1>8 DEF InitSuper, OpenInv, OrderInv
  <2> QED BY <1>8, <2>1 DEF InitSuper
<1>9. ASSUME NEW p \in Writers, Publish(p) PROVE ReaderInv(q)'
  BY <1>9 DEF Publish
<1>10. ASSUME NEW p \in Writers, WaitFile(p) PROVE ReaderInv(q)'
  BY <1>10 DEF WaitFile
<1>11. ASSUME NEW p \in Writers, AttachFile(p) PROVE ReaderInv(q)'
  BY <1>11 DEF AttachFile
<1>12. ASSUME NEW p \in Writers, CheckSuper(p) PROVE ReaderInv(q)'
  BY <1>12 DEF CheckSuper
<1>13. ASSUME NEW p \in Writers, Allocate(p) PROVE ReaderInv(q)'
  BY <1>13 DEF Allocate
<1>14. ASSUME NEW p \in Writers, Extend(p) PROVE ReaderInv(q)'
  BY <1>14 DEF Extend
<1>15. ASSUME NEW p \in Writers, Touch(p) PROVE ReaderInv(q)'
  BY <1>15 DEF Touch
<1>16. ASSUME NEW p \in Writers, DecCounter(p) PROVE ReaderInv(q)'
  BY <1>16 DEF DecCounter
<1>17. ASSUME NEW p \in Writers, LoadAllocated(p) PROVE ReaderInv(q)'
  BY <1>17 DEF LoadAllocated
<1>18. ASSUME NEW p \in Writers, Truncate(p) PROVE ReaderInv(q)'
  BY <1>18 DEF Truncate
<1>19. ASSUME NEW p \in Writers, RemoveReady(p) PROVE ReaderInv(q)'
  BY <1>19 DEF RemoveReady
<1>20. ASSUME NEW p \in Writers, RemoveCounter(p) PROVE ReaderInv(q)'
  BY <1>20 DEF RemoveCounter
<1>21. ASSUME NEW p \in Readers, OpenRead(p) PROVE ReaderInv(q)'
  <2> DEFINE wide == (fileLen + BlocksPerPage - 1) \div BlocksPerPage
  <2>1. fileLen <= wide * BlocksPerPage /\ wide \in Nat /\ fileLen \in Nat
    BY Pages
  <2>2. /\ pc[p] = "none" /\ pc'[p] \in {"open", "failed", "orphaned"}
        /\ pc' = [pc EXCEPT ![p] = pc'[p]]
        /\ mapped' = [mapped EXCEPT ![p] = wide]
        /\ own' = [own EXCEPT ![p] = written] /\ written' = written
    BY <1>21 DEF OpenRead
  <2> HIDE DEF wide
  <2>3. written <= wide * BlocksPerPage /\ wide * BlocksPerPage \in Nat
    BY <2>1 DEF OpenInv
  <2> QED BY <2>2, <2>3
<1>22. ASSUME NEW p \in Readers, CloseRead(p) PROVE ReaderInv(q)'
  BY <1>22 DEF CloseRead
<1>23. ASSUME NEW p \in Killable, Kill(p) PROVE ReaderInv(q)'
  BY <1>23 DEF Kill
<1> QED BY <1>1, <1>2, <1>3, <1>4, <1>5, <1>6, <1>7, <1>8, <1>9, <1>10,
  <1>11, <1>12, <1>13, <1>14, <1>15, <1>16, <1>17, <1>18, <1>19, <1>20,
  <1>21, <1>22, <1>23
  DEF Next, OpenStep, WriteStep, CloseStep

LEMMA StepJ ==
  ASSUME SectionLifecycleAssumption, ~LateJoin, JInv, [Next]_vars
  PROVE  JInv'
<1>1. CInv'
  BY StepC DEF JInv
<1>2. CASE Next
  <2>1. NobodyFails' /\ OpenInv' /\ LeaveInv' /\ TrimInv'
    BY <1>2, FailKept, OpenKept, LeaveKept, TrimKept
  <2>2. \A q \in Writers : WriterInv(q)'
    BY <1>2, WriterKept
  <2>3. \A q \in Readers : ReaderInv(q)'
    BY <1>2, ReaderKept
  <2> QED BY <1>1, <2>1, <2>2, <2>3 DEF JInv
<1>3. CASE UNCHANGED vars
  <2>1. NobodyFails' /\ OpenInv'
    BY <1>3 DEF vars, JInv, NobodyFails, OpenInv
  <2>2. Counted' = Counted /\ AllIn' = AllIn
    BY <1>3 DEF vars, Counted, AllIn
  <2>3. LeaveInv' /\ TrimInv'
    BY <1>3, <2>2 DEF vars, JInv, LeaveInv, TrimInv
  <2>4. \A q \in Writers : WriterInv(q)'
    BY <1>3 DEF vars, JInv, WriterInv
  <2>5. \A q \in Readers : ReaderInv(q)'
    BY <1>3 DEF vars, JInv, ReaderInv
  <2> QED BY <1>1, <2>1, <2>3, <2>4, <2>5 DEF JInv
<1> QED BY <1>2, <1>3

LEMMA InvJ == ~LateJoin /\ Spec => []JInv
<1>1. Init => JInv
  BY SectionLifecycleAssumption, InitJ
<1>2. ~LateJoin /\ JInv /\ [Next]_vars => JInv'
  BY SectionLifecycleAssumption, StepJ
<1>3. ~LateJoin => (~LateJoin)'
  OBVIOUS
<1> QED BY <1>1, <1>2, <1>3, PTL DEF Spec

(* No constructor of a writer throws or fails its assertion, no write hits *)
(* the missing end of the file, and a reader fails only if it comes before *)
(* anything has been written (fsl_lib.cpp:72-86, 349-366, 389, 433-450).   *)
THEOREM NobodyEverFails == ~LateJoin /\ Spec => []NobodyFails
<1>1. JInv => NobodyFails
  BY DEF JInv
<1> QED BY <1>1, InvJ, PTL

(* The file keeps every block that was written, whoever cuts it            *)
(* (fsl_lib.cpp:383-390).                                                  *)
THEOREM NothingIsCutOff == ~LateJoin /\ Spec => []WrittenIsKept
<1>1. JInv => WrittenIsKept
  BY DEF JInv, OpenInv, WrittenIsKept
<1> QED BY <1>1, InvJ, PTL

(* No mapping loses its file, and a reader reaches what was written before *)
(* it opened (fsl_lib.cpp:156-183, 349-356, 389).                          *)
THEOREM MappingsStayBacked == ~LateJoin /\ Spec => []MappingsAreBacked
<1>1. ASSUME JInv PROVE MappingsAreBacked
  <2>1. \A p \in Writers : pc[p] \in Inside => mapped[p] * BlocksPerPage <= fileLen
    BY <1>1 DEF JInv, WriterInv
  <2>2. ASSUME NEW p \in Readers, pc[p] = "open"
        PROVE  own[p] <= fileLen /\ own[p] <= mapped[p] * BlocksPerPage
    <3>1. own[p] \in Nat /\ written \in Nat /\ fileLen \in Nat
      BY <1>1 DEF JInv, CInv, TypeOK, Procs
    <3> QED BY <1>1, <2>2, <3>1 DEF JInv, ReaderInv, OpenInv
  <2> QED BY <2>1, <2>2 DEF MappingsAreBacked
<1> QED BY <1>1, InvJ, PTL

(* The file of a job of which nobody was killed ends with its last block   *)
(* (fsl_lib.cpp:385-392).                                                  *)
THEOREM TrimmedAtLast == ~LateJoin /\ Spec => []ClosedFileIsTrimmed
<1>1. ASSUME JInv, \A p \in Writers : pc[p] = "closed" PROVE fileLen = blockAllocated
  <2>1. AllIn /\ Counted = {}
    BY <1>1 DEF AllIn, Past, Ended, Counted, Inside
  <2> QED BY <1>1, <2>1 DEF JInv, TrimInv
<1>2. JInv => ClosedFileIsTrimmed
  BY <1>1 DEF ClosedFileIsTrimmed
<1> QED BY <1>2, InvJ, PTL
=============================================================================
