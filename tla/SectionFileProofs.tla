------------------------- MODULE SectionFileProofs -------------------------
(***************************************************************************)
(* Proofs about the page mapping, for any processes, threads, page size    *)
(* and bounds.                                                             *)
(***************************************************************************)
EXTENDS SectionFile, FiniteSetTheorems, FunctionTheorems, TLAPS

(* The threads between Lock and Unlock: they hold the spin lock.           *)
Holding(t) == attached[P(t)] /\ pc[t] \in {"size", "grow", "map", "unlock"}

(* A held lock is 1 and has one holder. (A killed holder leaves it at 1.)  *)
LockInv ==
  /\ \A t \in Threads : Holding(t) => atomic_lock = 1
  /\ \A t, u \in Threads : Holding(t) /\ Holding(u) => t = u

(* The thread that runs the constructor of a process.                      *)
Attaching(t) == ~attached[P(t)] /\ pc[t] \notin {"idle", "dead"}

(* Before a process has a lock it runs one thread, which loads block 0 of  *)
(* a file that already has this page: its ftruncate is never reached.      *)
AttachInv ==
  /\ \A t \in Threads : Attaching(t) =>
       /\ pc[t] \in {"try", "size", "grow", "map", "use"}
       /\ blk[t] = 0
       /\ \A u \in Threads : P(u) = P(t) => u = t \/ pc[u] = "idle"
       /\ pc[t] \in {"try", "size"} => mapedEnd[P(t)] = 0
       /\ pc[t] = "grow" => next[t] = 1 /\ seen[t] >= 1
       /\ pc[t] = "map" => next[t] = 1
  /\ \A t \in Threads :
       ~attached[P(t)] /\ (\A u \in Threads : P(u) = P(t) => pc[u] = "idle")
         => mapedEnd[P(t)] = 0

(* What the holder has read is still the length of the file, what it is    *)
(* about to map has been reserved, and it will reach the block.            *)
GrowInv ==
  /\ fileSize >= 1
  /\ \A t \in Threads :
       /\ attached[P(t)] /\ pc[t] = "grow" => seen[t] = fileSize
       /\ pc[t] = "map" => next[t] <= fileSize
       /\ pc[t] \in {"grow", "map"} => next[t] > Page(blk[t])
       /\ pc[t] \in {"unlock", "use"} => Page(blk[t]) < mapedEnd[P(t)]

IInv == TypeOK /\ LockInv /\ AttachInv /\ GrowInv /\ MappedIsBacked

-----------------------------------------------------------------------------
(* Page numbers are naturals, and block 0 is on page 0.                    *)
LEMMA PageType == ASSUME NEW b \in Nat PROVE Page(b) \in Nat
  BY SectionFileAssumption DEF Page

LEMMA PageZero == Page(0) = 0
  BY SectionFileAssumption DEF Page

(* No state of the program leaves the types of the model.                  *)
THEOREM TypeCorrect == Spec => []TypeOK
<1> USE SectionFileAssumption DEF P, TypeOK
<1>1. Init => TypeOK
  BY DEF Init, Locations
<1>2. TypeOK /\ [Next]_vars => TypeOK'
  <2> SUFFICES ASSUME TypeOK, [Next]_vars PROVE TypeOK'
    OBVIOUS
  <2>1. ASSUME NEW t \in Threads, Attach(t) PROVE TypeOK'
    BY <2>1 DEF Attach, Goto, Locations
  <2>2. ASSUME NEW t \in Threads, NEW n \in 1 .. MaxRun, AllocateBlock(t, n) PROVE TypeOK'
    BY <2>2 DEF AllocateBlock, Goto, Locations
  <2>3. ASSUME NEW t \in Threads, NEW b \in 0 .. blockAllocated - 1, LoadBlock(t, b) PROVE TypeOK'
    BY <2>3 DEF LoadBlock, Goto, Locations
  <2>4. ASSUME NEW t \in Threads, TryLoadHit(t) PROVE TypeOK'
    BY <2>4 DEF TryLoadHit, Goto, Locations
  <2>5. ASSUME NEW t \in Threads, TryLoadMiss(t) PROVE TypeOK'
    BY <2>5 DEF TryLoadMiss, Goto, Locations
  <2>6. ASSUME NEW t \in Threads, Lock(t) PROVE TypeOK'
    BY <2>6 DEF Lock, Goto, Locations
  <2>7. ASSUME NEW t \in Threads, ReadSize(t) PROVE TypeOK'
    <3>1. Page(blk[t]) \in Nat
      BY PageType
    <3>2. Larger(Page(blk[t]) + 1, 2 * mapedEnd[P(t)]) \in Nat
      BY <3>1 DEF Larger
    <3>3. QED
      BY <2>7, <3>2 DEF ReadSize, NextLength, Goto, Locations
  <2>8. ASSUME NEW t \in Threads, Grow(t) PROVE TypeOK'
    BY <2>8 DEF Grow, Goto, Locations
  <2>9. ASSUME NEW t \in Threads, Map(t) PROVE TypeOK'
    BY <2>9 DEF Map, Goto, Locations, Larger
  <2>10. ASSUME NEW t \in Threads, Unlock(t) PROVE TypeOK'
    BY <2>10 DEF Unlock, Goto, Locations
  <2>11. ASSUME NEW t \in Threads, Use(t) PROVE TypeOK'
    BY <2>11 DEF Use, Goto, Locations
  <2>12. ASSUME NEW p \in Killable, Kill(p) PROVE TypeOK'
    BY <2>12 DEF Kill, Locations
  <2>13. CASE UNCHANGED vars
    BY <2>13 DEF vars
  <2>14. QED
    BY <2>1, <2>2, <2>3, <2>4, <2>5, <2>6, <2>7, <2>8, <2>9, <2>10, <2>11, <2>12, <2>13
       DEF Next, Step
<1>3. QED
  BY <1>1, <1>2, PTL DEF Spec

(* The facts above are inductive: one step per action of the driver.      *)
LEMMA InductiveStep == IInv /\ TypeOK' /\ [Next]_vars => IInv'
<1> USE SectionFileAssumption, PageType, PageZero DEF P, Holding, Attaching, Goto
<1> SUFFICES ASSUME IInv, TypeOK', [Next]_vars PROVE IInv'
  OBVIOUS
<1> USE DEF IInv
<1>1. ASSUME NEW t \in Threads, Attach(t) PROVE IInv'
  <2>1. LockInv'
    BY <1>1 DEF Attach, TypeOK, LockInv, AttachInv, GrowInv, MappedIsBacked
  <2>2. AttachInv'
    BY <1>1 DEF Attach, TypeOK, LockInv, AttachInv, GrowInv, MappedIsBacked
  <2>3. GrowInv'
    BY <1>1 DEF Attach, TypeOK, LockInv, AttachInv, GrowInv, MappedIsBacked
  <2>4. MappedIsBacked'
    BY <1>1 DEF Attach, TypeOK, LockInv, AttachInv, GrowInv, MappedIsBacked
  <2>5. QED
    BY <2>1, <2>2, <2>3, <2>4
<1>2. ASSUME NEW t \in Threads, NEW n \in 1 .. MaxRun, AllocateBlock(t, n) PROVE IInv'
  <2>1. LockInv'
    BY <1>2 DEF AllocateBlock, TypeOK, LockInv, AttachInv, GrowInv, MappedIsBacked
  <2>2. AttachInv'
    BY <1>2 DEF AllocateBlock, TypeOK, LockInv, AttachInv, GrowInv, MappedIsBacked
  <2>3. GrowInv'
    BY <1>2 DEF AllocateBlock, TypeOK, LockInv, AttachInv, GrowInv, MappedIsBacked
  <2>4. MappedIsBacked'
    BY <1>2 DEF AllocateBlock, TypeOK, LockInv, AttachInv, GrowInv, MappedIsBacked
  <2>5. QED
    BY <2>1, <2>2, <2>3, <2>4
<1>3. ASSUME NEW t \in Threads, NEW b \in 0 .. blockAllocated - 1, LoadBlock(t, b) PROVE IInv'
  <2>1. LockInv'
    BY <1>3 DEF LoadBlock, TypeOK, LockInv, AttachInv, GrowInv, MappedIsBacked
  <2>2. AttachInv'
    BY <1>3 DEF LoadBlock, TypeOK, LockInv, AttachInv, GrowInv, MappedIsBacked
  <2>3. GrowInv'
    BY <1>3 DEF LoadBlock, TypeOK, LockInv, AttachInv, GrowInv, MappedIsBacked
  <2>4. MappedIsBacked'
    BY <1>3 DEF LoadBlock, TypeOK, LockInv, AttachInv, GrowInv, MappedIsBacked
  <2>5. QED
    BY <2>1, <2>2, <2>3, <2>4
<1>4. ASSUME NEW t \in Threads, TryLoadHit(t) PROVE IInv'
  <2>1. LockInv'
    BY <1>4 DEF TryLoadHit, TypeOK, LockInv, AttachInv, GrowInv, MappedIsBacked
  <2>2. AttachInv'
    BY <1>4 DEF TryLoadHit, TypeOK, LockInv, AttachInv, GrowInv, MappedIsBacked
  <2>3. GrowInv'
    BY <1>4 DEF TryLoadHit, TypeOK, LockInv, AttachInv, GrowInv, MappedIsBacked
  <2>4. MappedIsBacked'
    BY <1>4 DEF TryLoadHit, TypeOK, LockInv, AttachInv, GrowInv, MappedIsBacked
  <2>5. QED
    BY <2>1, <2>2, <2>3, <2>4
<1>5. ASSUME NEW t \in Threads, TryLoadMiss(t) PROVE IInv'
  <2>1. LockInv'
    BY <1>5 DEF TryLoadMiss, TypeOK, LockInv, AttachInv, GrowInv, MappedIsBacked
  <2>2. AttachInv'
    BY <1>5 DEF TryLoadMiss, TypeOK, LockInv, AttachInv, GrowInv, MappedIsBacked
  <2>3. GrowInv'
    BY <1>5 DEF TryLoadMiss, TypeOK, LockInv, AttachInv, GrowInv, MappedIsBacked
  <2>4. MappedIsBacked'
    BY <1>5 DEF TryLoadMiss, TypeOK, LockInv, AttachInv, GrowInv, MappedIsBacked
  <2>5. QED
    BY <2>1, <2>2, <2>3, <2>4
<1>6. ASSUME NEW t \in Threads, Lock(t) PROVE IInv'
  <2>1. LockInv'
    BY <1>6 DEF Lock, TypeOK, LockInv, AttachInv, GrowInv, MappedIsBacked
  <2>2. AttachInv'
    BY <1>6 DEF Lock, TypeOK, LockInv, AttachInv, GrowInv, MappedIsBacked
  <2>3. GrowInv'
    BY <1>6 DEF Lock, TypeOK, LockInv, AttachInv, GrowInv, MappedIsBacked
  <2>4. MappedIsBacked'
    BY <1>6 DEF Lock, TypeOK, LockInv, AttachInv, GrowInv, MappedIsBacked
  <2>5. QED
    BY <2>1, <2>2, <2>3, <2>4
<1>7. ASSUME NEW t \in Threads, ReadSize(t) PROVE IInv'
  <2>1. LockInv'
    BY <1>7 DEF ReadSize, NextLength, TypeOK, LockInv, AttachInv, GrowInv, MappedIsBacked, Larger
  <2>2. AttachInv'
    BY <1>7 DEF ReadSize, NextLength, TypeOK, LockInv, AttachInv, GrowInv, MappedIsBacked, Larger
  <2>3. GrowInv'
    BY <1>7 DEF ReadSize, NextLength, TypeOK, LockInv, AttachInv, GrowInv, MappedIsBacked, Larger
  <2>4. MappedIsBacked'
    BY <1>7 DEF ReadSize, NextLength, TypeOK, LockInv, AttachInv, GrowInv, MappedIsBacked, Larger
  <2>5. QED
    BY <2>1, <2>2, <2>3, <2>4
<1>8. ASSUME NEW t \in Threads, Grow(t) PROVE IInv'
  <2>1. LockInv'
    BY <1>8 DEF Grow, TypeOK, LockInv, AttachInv, GrowInv, MappedIsBacked
  <2>2. AttachInv'
    BY <1>8 DEF Grow, TypeOK, LockInv, AttachInv, GrowInv, MappedIsBacked
  <2>3. GrowInv'
    BY <1>8 DEF Grow, TypeOK, LockInv, AttachInv, GrowInv, MappedIsBacked
  <2>4. MappedIsBacked'
    BY <1>8 DEF Grow, TypeOK, LockInv, AttachInv, GrowInv, MappedIsBacked
  <2>5. QED
    BY <2>1, <2>2, <2>3, <2>4
<1>9. ASSUME NEW t \in Threads, Map(t) PROVE IInv'
  <2>1. LockInv'
    BY <1>9 DEF Map, TypeOK, LockInv, AttachInv, GrowInv, MappedIsBacked, Larger
  <2>2. AttachInv'
    BY <1>9 DEF Map, TypeOK, LockInv, AttachInv, GrowInv, MappedIsBacked, Larger
  <2>3. GrowInv'
    BY <1>9 DEF Map, TypeOK, LockInv, AttachInv, GrowInv, MappedIsBacked, Larger
  <2>4. MappedIsBacked'
    BY <1>9 DEF Map, TypeOK, LockInv, AttachInv, GrowInv, MappedIsBacked, Larger
  <2>5. QED
    BY <2>1, <2>2, <2>3, <2>4
<1>10. ASSUME NEW t \in Threads, Unlock(t) PROVE IInv'
  <2>1. LockInv'
    BY <1>10 DEF Unlock, TypeOK, LockInv, AttachInv, GrowInv, MappedIsBacked
  <2>2. AttachInv'
    BY <1>10 DEF Unlock, TypeOK, LockInv, AttachInv, GrowInv, MappedIsBacked
  <2>3. GrowInv'
    BY <1>10 DEF Unlock, TypeOK, LockInv, AttachInv, GrowInv, MappedIsBacked
  <2>4. MappedIsBacked'
    BY <1>10 DEF Unlock, TypeOK, LockInv, AttachInv, GrowInv, MappedIsBacked
  <2>5. QED
    BY <2>1, <2>2, <2>3, <2>4
<1>11. ASSUME NEW t \in Threads, Use(t) PROVE IInv'
  <2>1. LockInv'
    BY <1>11 DEF Use, TypeOK, LockInv, AttachInv, GrowInv, MappedIsBacked
  <2>2. AttachInv'
    BY <1>11 DEF Use, TypeOK, LockInv, AttachInv, GrowInv, MappedIsBacked
  <2>3. GrowInv'
    BY <1>11 DEF Use, TypeOK, LockInv, AttachInv, GrowInv, MappedIsBacked
  <2>4. MappedIsBacked'
    BY <1>11 DEF Use, TypeOK, LockInv, AttachInv, GrowInv, MappedIsBacked
  <2>5. QED
    BY <2>1, <2>2, <2>3, <2>4
<1>12. ASSUME NEW p \in Killable, Kill(p) PROVE IInv'
  <2>1. LockInv'
    BY <1>12 DEF Kill, TypeOK, LockInv, AttachInv, GrowInv, MappedIsBacked
  <2>2. AttachInv'
    BY <1>12 DEF Kill, TypeOK, LockInv, AttachInv, GrowInv, MappedIsBacked
  <2>3. GrowInv'
    BY <1>12 DEF Kill, TypeOK, LockInv, AttachInv, GrowInv, MappedIsBacked
  <2>4. MappedIsBacked'
    BY <1>12 DEF Kill, TypeOK, LockInv, AttachInv, GrowInv, MappedIsBacked
  <2>5. QED
    BY <2>1, <2>2, <2>3, <2>4
<1>13. CASE UNCHANGED vars
  BY <1>13 DEF vars, TypeOK, LockInv, AttachInv, GrowInv, MappedIsBacked
<1>14. QED
  BY <1>1, <1>2, <1>3, <1>4, <1>5, <1>6, <1>7, <1>8, <1>9, <1>10, <1>11, <1>12, <1>13 DEF Next, Step

LEMMA Inductive == Spec => []IInv
<1>1. Init => IInv
  <2> SUFFICES ASSUME Init PROVE IInv
    OBVIOUS
  <2>1. TypeOK
    BY SectionFileAssumption DEF Init, TypeOK, Locations
  <2>2. LockInv
    BY DEF Init, LockInv, Holding
  <2>3. AttachInv
    BY SectionFileAssumption DEF Init, AttachInv, Attaching, P
  <2>4. GrowInv /\ MappedIsBacked
    BY DEF Init, GrowInv, MappedIsBacked
  <2>5. QED
    BY <2>1, <2>2, <2>3, <2>4 DEF IInv
<1>2. IInv /\ TypeOK' /\ [Next]_vars => IInv'
  BY InductiveStep
<1>3. QED
  BY <1>1, <1>2, TypeCorrect, PTL DEF Spec

(* Whatever the processes and threads, and whoever is killed: every mapped *)
(* page is inside the file (MappedIsBacked; load, fsl_lib.cpp:156-183).    *)
THEOREM MappedPagesExist == Spec => []MappedIsBacked
<1>1. IInv => MappedIsBacked
  BY DEF IInv
<1>2. QED
  BY <1>1, Inductive, PTL

(* Every address load() returns is mapped when its caller uses it          *)
(* (UseIsMapped; load and tryLoad, fsl_lib.cpp:137-266).                   *)
THEOREM LoadedPagesMapped == Spec => []UseIsMapped
<1>1. IInv => UseIsMapped
  BY DEF IInv, GrowInv, UseIsMapped
<1>2. QED
  BY <1>1, Inductive, PTL

(* While the file is written no ftruncate of load() shortens it, with or   *)
(* without the lock (FileNeverShrinks; fsl_lib.cpp:154-166).               *)
THEOREM NoShrink == Spec => FileNeverShrinks
<1>1. IInv /\ Next => fileSize' >= fileSize
  <2> SUFFICES ASSUME IInv, Next PROVE fileSize' >= fileSize
    OBVIOUS
  <2> USE DEF IInv, TypeOK
  <2>1. ASSUME NEW t \in Threads, Grow(t) PROVE fileSize' >= fileSize
    BY <2>1 DEF Grow, Goto, AttachInv, GrowInv, Attaching, P
  <2>2. ASSUME NEW t \in Threads, Attach(t) \/ Unlock(t) \/ Use(t) \/ Lock(t)
        PROVE fileSize' >= fileSize
    BY <2>2 DEF Attach, Unlock, Use, Lock
  <2>3. ASSUME NEW t \in Threads, TryLoadHit(t) \/ TryLoadMiss(t) \/ ReadSize(t) \/ Map(t)
        PROVE fileSize' >= fileSize
    BY <2>3 DEF TryLoadHit, TryLoadMiss, ReadSize, NextLength, Map
  <2>4. ASSUME NEW t \in Threads, NEW n \in 1 .. MaxRun, AllocateBlock(t, n)
        PROVE fileSize' >= fileSize
    BY <2>4 DEF AllocateBlock
  <2>5. ASSUME NEW t \in Threads, NEW b \in 0 .. blockAllocated - 1, LoadBlock(t, b)
        PROVE fileSize' >= fileSize
    BY <2>5 DEF LoadBlock
  <2>6. ASSUME NEW p \in Killable, Kill(p) PROVE fileSize' >= fileSize
    BY <2>6 DEF Kill
  <2>7. QED
    BY <2>1, <2>2, <2>3, <2>4, <2>5, <2>6 DEF Next, Step
<1>2. IInv /\ [Next]_vars => [fileSize' >= fileSize]_vars
  BY <1>1
<1>3. QED
  BY <1>2, Inductive, PTL DEF Spec, FileNeverShrinks

-----------------------------------------------------------------------------
(* How far the mapping may run ahead: 2 to the number of threads of a set. *)
Doublings(S) == 2 ^ Cardinality(S)

(* The threads of p that missed their page and have not mapped it yet:     *)
(* each of them will double the mapping once, whatever the others did.     *)
Waiting(p) == {t \in ThreadsOf(p) : pc[t] \in {"lock", "size", "grow", "map"}}

(* The last allocated page, at least 1.                                    *)
Top == Larger(1, Page(blockAllocated - 1))

(* Nobody loads a block that is not allocated, and what a thread is about  *)
(* to map is within its page or twice what is mapped by now.               *)
LoadInv ==
  /\ blockAllocated >= 2
  /\ \A t \in Threads :
       /\ blk[t] < blockAllocated
       /\ pc[t] \in {"grow", "map"} => next[t] <= NextLength(t)

(* The doublings that are still to come are paid for in advance.           *)
Budget(p) == mapedEnd[p] * Doublings(Waiting(p)) <= Doublings(ThreadsOf(p)) * Top

BudgetInv == \A p \in Procs : Budget(p)

(* A set has 2^n subsets: that is how the library knows 2^n.               *)
LEMMA DoublingsType ==
  ASSUME NEW S, IsFiniteSet(S)
  PROVE  Doublings(S) \in Nat /\ Doublings(S) >= 1
<1>1. IsFiniteSet(SUBSET S) /\ Cardinality(SUBSET S) = Doublings(S)
  BY FS_SUBSET DEF Doublings
<1>2. Cardinality(SUBSET S) \in Nat
  BY <1>1, FS_CardinalityType
<1>3. SUBSET S # {}
  OBVIOUS
<1>4. Cardinality(SUBSET S) # 0
  BY <1>1, <1>3, FS_EmptySet
<1>5. QED
  BY <1>1, <1>2, <1>4

(* A larger set allows at least as many doublings.                         *)
LEMMA DoublingsMonotone ==
  ASSUME NEW S, IsFiniteSet(S), NEW R \in SUBSET S
  PROVE  Doublings(R) <= Doublings(S)
<1>1. IsFiniteSet(R)
  BY FS_Subset
<1>2. Cardinality(SUBSET R) = Doublings(R) /\ Cardinality(SUBSET S) = Doublings(S)
  BY <1>1, FS_SUBSET DEF Doublings
<1>3. IsFiniteSet(SUBSET S) /\ SUBSET R \in SUBSET SUBSET S
  BY FS_SUBSET
<1>4. Cardinality(SUBSET R) <= Cardinality(SUBSET S)
  BY <1>3, FS_Subset
<1>5. QED
  BY <1>2, <1>4

(* One more thread, one more doubling: the subsets with the new thread are *)
(* as many as those without it.                                            *)
LEMMA DoublingsOneMore ==
  ASSUME NEW S, IsFiniteSet(S), NEW x, x \notin S
  PROVE  Doublings(S \cup {x}) = 2 * Doublings(S)
<1> DEFINE A == SUBSET S
           B == {R \cup {x} : R \in A}
           F == [R \in A |-> R \cup {x}]
<1>1. SUBSET (S \cup {x}) = A \cup B
  <2>1. ASSUME NEW R \in SUBSET (S \cup {x}) PROVE R \in A \cup B
    <3>1. CASE x \in R
      <4>1. R \ {x} \in A /\ R = (R \ {x}) \cup {x}
        BY <3>1
      <4>2. QED
        BY <4>1
    <3>2. CASE x \notin R
      BY <3>2
    <3>3. QED
      BY <3>1, <3>2
  <2>2. ASSUME NEW R \in A \cup B PROVE R \in SUBSET (S \cup {x})
    OBVIOUS
  <2>3. QED
    BY <2>1, <2>2
<1>2. A \cap B = {}
  OBVIOUS
<1>3. ExistsBijection(A, B)
  <2>1. F \in [A -> B]
    OBVIOUS
  <2>2. ASSUME NEW a \in A, NEW b \in A, F[a] = F[b] PROVE a = b
    <3>1. a = (a \cup {x}) \ {x} /\ b = (b \cup {x}) \ {x}
      OBVIOUS
    <3>2. QED
      BY <2>2, <3>1
  <2>3. ASSUME NEW b \in B PROVE \E a \in A : F[a] = b
    OBVIOUS
  <2>4. F \in Bijection(A, B)
    BY <2>1, <2>2, <2>3, Fun_IsBij
  <2>5. QED
    BY <2>4, Fun_ExistsBij
<1>4. IsFiniteSet(A) /\ Cardinality(A) = Doublings(S)
  BY FS_SUBSET DEF Doublings
<1>5. IsFiniteSet(B) /\ Cardinality(B) = Cardinality(A)
  BY <1>3, <1>4, FS_Bijection
<1>6. Cardinality(A \cup B) = Cardinality(A) + Cardinality(B) - Cardinality(A \cap B)
  BY <1>4, <1>5, FS_Union
<1>7. Cardinality(A \cap B) = 0
  BY <1>2, FS_EmptySet
<1>8. IsFiniteSet(S \cup {x})
  BY FS_AddElement
<1>9. Cardinality(SUBSET (S \cup {x})) = Doublings(S \cup {x})
  BY <1>8, FS_SUBSET DEF Doublings
<1>10. Doublings(S) \in Nat
  BY DoublingsType
<1>11. Doublings(S \cup {x}) = Cardinality(A \cup B)
  BY <1>1, <1>9
<1>12. QED
  <2> HIDE DEF A, B
  <2>1. QED
    BY <1>4, <1>5, <1>6, <1>7, <1>10, <1>11

(* A product grows with either factor.                                     *)
LEMMA ProductMonotone ==
  ASSUME NEW a \in Nat, NEW b \in Nat, NEW c \in Nat, NEW d \in Nat, a <= c, b <= d
  PROVE  a * b <= c * d
<1>1. a * b <= c * b
  OBVIOUS
<1>2. c * b <= c * d
  OBVIOUS
<1>3. a * b \in Nat /\ c * b \in Nat /\ c * d \in Nat
  OBVIOUS
<1>4. QED
  BY <1>1, <1>2, <1>3

(* A budget holds on when no more threads wait and the file is no shorter. *)
LEMMA BudgetKept ==
  ASSUME NEW U, IsFiniteSet(U), NEW W \in SUBSET U, NEW V \in SUBSET W,
         NEW m \in Nat, NEW k \in Nat, NEW l \in Nat, k <= l,
         m * Doublings(W) <= Doublings(U) * k
  PROVE  m * Doublings(V) <= Doublings(U) * l
<1>1. IsFiniteSet(W) /\ IsFiniteSet(V)
  BY FS_Subset
<1>2. Doublings(U) \in Nat /\ Doublings(W) \in Nat /\ Doublings(V) \in Nat
  BY <1>1, DoublingsType
<1>3. Doublings(V) <= Doublings(W)
  BY <1>1, DoublingsMonotone
<1>4. m * Doublings(V) <= m * Doublings(W)
  BY <1>2, <1>3, ProductMonotone
<1>5. Doublings(U) * k <= Doublings(U) * l
  BY <1>2, ProductMonotone
<1>6. QED
  <2> DEFINE a == m * Doublings(V)
             b == m * Doublings(W)
             c == Doublings(U) * k
             d == Doublings(U) * l
  <2>1. a \in Nat /\ b \in Nat /\ c \in Nat /\ d \in Nat
    BY <1>2
  <2>2. a <= b /\ b <= c /\ c <= d
    BY <1>4, <1>5
  <2> HIDE DEF a, b, c, d
  <2>3. a <= d
    BY <2>1, <2>2
  <2>4. QED
    BY <2>3 DEF a, d

(* A thread that has just missed an allocated page finds the mapping small *)
(* enough for one doubling of every thread of its process.                 *)
LEMMA BudgetOfMiss ==
  ASSUME NEW U, IsFiniteSet(U), NEW W \in SUBSET U,
         NEW m \in Nat, NEW k \in Nat, m <= k
  PROVE  m * Doublings(W) <= Doublings(U) * k
<1>1. IsFiniteSet(W)
  BY FS_Subset
<1>2. Doublings(U) \in Nat /\ Doublings(W) \in Nat
  BY <1>1, DoublingsType
<1>3. Doublings(W) <= Doublings(U)
  BY DoublingsMonotone
<1>4. m * Doublings(W) <= k * Doublings(U)
  BY <1>2, <1>3, ProductMonotone
<1>5. QED
  BY <1>2, <1>4

(* A thread that maps its page or doubles the mapping spends one doubling. *)
LEMMA BudgetSpent ==
  ASSUME NEW U, IsFiniteSet(U), NEW W \in SUBSET U, NEW x \in U, x \notin W,
         NEW m \in Nat, NEW n \in Nat, NEW b \in Nat, NEW k \in Nat, 1 <= k, b <= k,
         n <= Larger(b + 1, 2 * m),
         m * Doublings(W \cup {x}) <= Doublings(U) * k
  PROVE  Larger(m, n) * Doublings(W) <= Doublings(U) * k
<1>1. IsFiniteSet(W)
  BY FS_Subset
<1>2. W \cup {x} \in SUBSET U /\ IsFiniteSet(W \cup {x})
  BY <1>1, FS_AddElement
<1>3. Doublings(U) \in Nat /\ Doublings(W) \in Nat /\ Doublings(W \cup {x}) \in Nat
  BY <1>1, <1>2, DoublingsType
<1>4. Doublings(W \cup {x}) = 2 * Doublings(W)
  BY <1>1, DoublingsOneMore
<1>5. Larger(m, n) \in Nat
  BY DEF Larger
<1>6. CASE Larger(m, n) <= 2 * m
  <2>1. Larger(m, n) * Doublings(W) <= (2 * m) * Doublings(W)
    BY <1>3, <1>5, <1>6, ProductMonotone
  <2>2. (2 * m) * Doublings(W) = m * (2 * Doublings(W))
    BY <1>3
  <2>3. m * (2 * Doublings(W)) <= Doublings(U) * k
    BY <1>4
  <2>4. Larger(m, n) * Doublings(W) \in Nat /\ m * (2 * Doublings(W)) \in Nat
        /\ Doublings(U) * k \in Nat
    BY <1>3, <1>5
  <2>5. QED
    BY <2>1, <2>2, <2>3, <2>4
<1>7. CASE Larger(m, n) <= 2 * k
  <2>1. Larger(m, n) * Doublings(W) <= (2 * k) * Doublings(W)
    BY <1>3, <1>5, <1>7, ProductMonotone
  <2>2. (2 * k) * Doublings(W) = k * (2 * Doublings(W))
    BY <1>3
  <2>3. k * Doublings(W \cup {x}) <= Doublings(U) * k
    BY <1>2, BudgetOfMiss
  <2>4. Larger(m, n) * Doublings(W) \in Nat /\ k * (2 * Doublings(W)) \in Nat
        /\ Doublings(U) * k \in Nat
    BY <1>3, <1>5
  <2>5. QED
    BY <1>4, <2>1, <2>2, <2>3, <2>4
<1>8. Larger(m, n) <= 2 * m \/ Larger(m, n) <= 2 * k
  BY DEF Larger
<1>9. QED
  BY <1>6, <1>7, <1>8

(* A later block is on the same page or a later one.                       *)
LEMMA PageMonotone ==
  ASSUME NEW a \in Nat, NEW b \in Nat, a <= b
  PROVE  Page(a) <= Page(b)
  BY SectionFileAssumption DEF Page

(* LoadInv is inductive: the mapping a thread measured only grows.         *)
LEMMA LoadStep == TypeOK /\ TypeOK' /\ LoadInv /\ [Next]_vars => LoadInv'
<1> USE SectionFileAssumption, PageType DEF P, Goto
<1> SUFFICES ASSUME TypeOK, TypeOK', LoadInv, [Next]_vars PROVE LoadInv'
  OBVIOUS
<1> USE DEF TypeOK, LoadInv, NextLength, Larger
<1>1. ASSUME NEW t \in Threads, Attach(t) PROVE LoadInv'
  BY <1>1 DEF Attach
<1>2. ASSUME NEW t \in Threads, NEW n \in 1 .. MaxRun, AllocateBlock(t, n) PROVE LoadInv'
  BY <1>2 DEF AllocateBlock
<1>3. ASSUME NEW t \in Threads, NEW b \in 0 .. blockAllocated - 1, LoadBlock(t, b) PROVE LoadInv'
  BY <1>3 DEF LoadBlock
<1>4. ASSUME NEW t \in Threads, TryLoadHit(t) PROVE LoadInv'
  BY <1>4 DEF TryLoadHit
<1>5. ASSUME NEW t \in Threads, TryLoadMiss(t) PROVE LoadInv'
  BY <1>5 DEF TryLoadMiss
<1>6. ASSUME NEW t \in Threads, Lock(t) PROVE LoadInv'
  BY <1>6 DEF Lock
<1>7. ASSUME NEW t \in Threads, ReadSize(t) PROVE LoadInv'
  BY <1>7 DEF ReadSize
<1>8. ASSUME NEW t \in Threads, Grow(t) PROVE LoadInv'
  BY <1>8 DEF Grow
<1>9. ASSUME NEW t \in Threads, Map(t) PROVE LoadInv'
  BY <1>9 DEF Map
<1>10. ASSUME NEW t \in Threads, Unlock(t) PROVE LoadInv'
  BY <1>10 DEF Unlock
<1>11. ASSUME NEW t \in Threads, Use(t) PROVE LoadInv'
  BY <1>11 DEF Use
<1>12. ASSUME NEW p \in Killable, Kill(p) PROVE LoadInv'
  BY <1>12 DEF Kill
<1>13. CASE UNCHANGED vars
  BY <1>13 DEF vars
<1>14. QED
  BY <1>1, <1>2, <1>3, <1>4, <1>5, <1>6, <1>7, <1>8, <1>9, <1>10, <1>11, <1>12, <1>13
     DEF Next, Step

(* The number of the last allocated block.                                 *)
LEMMA LastBlock ==
  ASSUME NEW n \in Nat, NEW m \in Nat, n >= 2, n <= m
  PROVE  n - 1 \in Nat /\ m - 1 \in Nat /\ n - 1 <= m - 1
  OBVIOUS

(* What the budget of a process is made of.                                *)
LEMMA BudgetParts ==
  ASSUME TypeOK, LoadInv, NEW p \in Procs
  PROVE  /\ mapedEnd[p] \in Nat
         /\ Top \in Nat /\ 1 <= Top
         /\ IsFiniteSet(ThreadsOf(p))
         /\ Waiting(p) \in SUBSET ThreadsOf(p)
         /\ \A t \in Threads : Page(blk[t]) \in Nat /\ Page(blk[t]) <= Top
<1>1. blockAllocated - 1 \in Nat /\ Page(blockAllocated - 1) \in Nat
  BY PageType DEF TypeOK, LoadInv
<1>2. IsFiniteSet(ThreadsOf(p))
  <2>1. ThreadsOf(p) \in SUBSET Threads
    BY DEF ThreadsOf
  <2>2. QED
    BY <2>1, SectionFileAssumption, FS_Subset
<1>3. ASSUME NEW t \in Threads PROVE Page(blk[t]) \in Nat /\ Page(blk[t]) <= Top
  <2>1. blk[t] \in Nat /\ blk[t] <= blockAllocated - 1
    BY DEF TypeOK, LoadInv
  <2>2. Page(blk[t]) \in Nat /\ Page(blk[t]) <= Page(blockAllocated - 1)
    BY <1>1, <2>1, PageType, PageMonotone
  <2>3. QED
    BY <1>1, <2>2 DEF Top, Larger
<1>4. QED
  BY <1>1, <1>2, <1>3 DEF TypeOK, Top, Larger, Waiting

(* No step but a miss and a mapping touches the budget of a process.       *)
LEMMA BudgetCalm ==
  ASSUME TypeOK, TypeOK', LoadInv, LoadInv', NEW p \in Procs, Budget(p),
         mapedEnd'[p] = mapedEnd[p], Top <= Top', Waiting(p)' \subseteq Waiting(p)
  PROVE  Budget(p)'
<1>1. /\ mapedEnd[p] \in Nat /\ Top \in Nat /\ IsFiniteSet(ThreadsOf(p))
      /\ Waiting(p) \in SUBSET ThreadsOf(p)
  BY BudgetParts
<1>2. Top' \in Nat
  <2>1. blockAllocated' - 1 \in Nat
    <3>1. blockAllocated' \in Nat
      BY DEF TypeOK
    <3>2. blockAllocated' >= 2
      BY DEF LoadInv
    <3>3. blockAllocated' <= blockAllocated'
      BY <3>1
    <3>4. QED
      BY <3>1, <3>2, <3>3, LastBlock
  <2>2. Page(blockAllocated' - 1) \in Nat
    BY <2>1, PageType
  <2>3. QED
    BY <2>2 DEF Top, Larger, Page
<1>3. mapedEnd[p] * Doublings(Waiting(p)') <= Doublings(ThreadsOf(p)) * Top'
  <2> DEFINE V == Waiting(p)'
             l == Top'
  <2>1. V \in SUBSET Waiting(p) /\ l \in Nat /\ Top <= l
    BY <1>2
  <2>2. mapedEnd[p] * Doublings(Waiting(p)) <= Doublings(ThreadsOf(p)) * Top
    BY DEF Budget
  <2> HIDE DEF V, l
  <2>3. mapedEnd[p] * Doublings(V) <= Doublings(ThreadsOf(p)) * l
    BY <1>1, <2>1, <2>2, BudgetKept
  <2>4. QED
    BY <2>3 DEF V, l
<1>4. QED
  BY <1>3 DEF Budget, Doublings, ThreadsOf, P

(* Each of the other steps leaves the mapping alone and lets nobody wait.  *)
LEMMA CalmSteps ==
  ASSUME TypeOK, TypeOK', LoadInv, LoadInv', NEW p \in Procs,
         \/ \E t \in Threads :
              \/ Attach(t) \/ TryLoadHit(t) \/ Lock(t) \/ ReadSize(t)
              \/ Grow(t) \/ Unlock(t) \/ Use(t)
              \/ \E n \in 1 .. MaxRun : AllocateBlock(t, n)
              \/ \E b \in 0 .. blockAllocated - 1 : LoadBlock(t, b)
         \/ \E q \in Killable : Kill(q)
         \/ UNCHANGED vars
  PROVE  mapedEnd'[p] = mapedEnd[p] /\ Top <= Top' /\ Waiting(p)' \subseteq Waiting(p)
<1> USE SectionFileAssumption DEF Goto, TypeOK, Waiting, ThreadsOf, P
<1>1. blockAllocated <= blockAllocated' => Top <= Top'
  <2>1. ASSUME blockAllocated <= blockAllocated' PROVE Top <= Top'
    <3>1. /\ blockAllocated - 1 \in Nat /\ blockAllocated' - 1 \in Nat
          /\ blockAllocated - 1 <= blockAllocated' - 1
      <4>1. blockAllocated \in Nat /\ blockAllocated' \in Nat
        OBVIOUS
      <4>2. blockAllocated >= 2
        BY DEF LoadInv
      <4>3. QED
        BY <2>1, <4>1, <4>2, LastBlock
    <3>2. /\ Page(blockAllocated - 1) \in Nat /\ Page(blockAllocated' - 1) \in Nat
          /\ Page(blockAllocated - 1) <= Page(blockAllocated' - 1)
      BY <3>1, PageType, PageMonotone
    <3>3. Top' = Larger(1, Page(blockAllocated' - 1))
      BY DEF Top, Larger, Page
    <3>4. QED
      BY <3>2, <3>3 DEF Top, Larger
  <2>2. QED
    BY <2>1
<1>2. ASSUME NEW t \in Threads, Attach(t)
      PROVE  mapedEnd'[p] = mapedEnd[p] /\ Top <= Top' /\ Waiting(p)' \subseteq Waiting(p)
  BY <1>1, <1>2 DEF Attach
<1>3. ASSUME NEW t \in Threads, NEW n \in 1 .. MaxRun, AllocateBlock(t, n)
      PROVE  mapedEnd'[p] = mapedEnd[p] /\ Top <= Top' /\ Waiting(p)' \subseteq Waiting(p)
  BY <1>1, <1>3 DEF AllocateBlock
<1>4. ASSUME NEW t \in Threads, NEW b \in 0 .. blockAllocated - 1, LoadBlock(t, b)
      PROVE  mapedEnd'[p] = mapedEnd[p] /\ Top <= Top' /\ Waiting(p)' \subseteq Waiting(p)
  BY <1>1, <1>4 DEF LoadBlock
<1>5. ASSUME NEW t \in Threads, TryLoadHit(t)
      PROVE  mapedEnd'[p] = mapedEnd[p] /\ Top <= Top' /\ Waiting(p)' \subseteq Waiting(p)
  BY <1>1, <1>5 DEF TryLoadHit
<1>6. ASSUME NEW t \in Threads, Lock(t)
      PROVE  mapedEnd'[p] = mapedEnd[p] /\ Top <= Top' /\ Waiting(p)' \subseteq Waiting(p)
  BY <1>1, <1>6 DEF Lock
<1>7. ASSUME NEW t \in Threads, ReadSize(t)
      PROVE  mapedEnd'[p] = mapedEnd[p] /\ Top <= Top' /\ Waiting(p)' \subseteq Waiting(p)
  BY <1>1, <1>7 DEF ReadSize
<1>8. ASSUME NEW t \in Threads, Grow(t)
      PROVE  mapedEnd'[p] = mapedEnd[p] /\ Top <= Top' /\ Waiting(p)' \subseteq Waiting(p)
  BY <1>1, <1>8 DEF Grow
<1>9. ASSUME NEW t \in Threads, Unlock(t)
      PROVE  mapedEnd'[p] = mapedEnd[p] /\ Top <= Top' /\ Waiting(p)' \subseteq Waiting(p)
  BY <1>1, <1>9 DEF Unlock
<1>10. ASSUME NEW t \in Threads, Use(t)
      PROVE  mapedEnd'[p] = mapedEnd[p] /\ Top <= Top' /\ Waiting(p)' \subseteq Waiting(p)
  BY <1>1, <1>10 DEF Use
<1>11. ASSUME NEW q \in Killable, Kill(q)
      PROVE  mapedEnd'[p] = mapedEnd[p] /\ Top <= Top' /\ Waiting(p)' \subseteq Waiting(p)
  BY <1>1, <1>11 DEF Kill
<1>12. CASE UNCHANGED vars
  BY <1>1, <1>12 DEF vars
<1>13. QED
  BY <1>2, <1>3, <1>4, <1>5, <1>6, <1>7, <1>8, <1>9, <1>10, <1>11, <1>12

(* A miss adds a waiting thread to a mapping that is no longer than Top.   *)
LEMMA MissStep ==
  ASSUME TypeOK, TypeOK', LoadInv, LoadInv', NEW p \in Procs, Budget(p),
         NEW t \in Threads, TryLoadMiss(t)
  PROVE  Budget(p)'
<1> USE SectionFileAssumption DEF P, ThreadsOf
<1>1. mapedEnd' = mapedEnd /\ Top' = Top
  BY DEF TryLoadMiss, Top, Larger, Page
<1>2. CASE P(t) = p
  <2>1. mapedEnd[p] \in Nat /\ Top \in Nat /\ mapedEnd[p] <= Top /\ IsFiniteSet(ThreadsOf(p))
    <3>1. /\ mapedEnd[p] \in Nat /\ Top \in Nat /\ IsFiniteSet(ThreadsOf(p))
          /\ Page(blk[t]) \in Nat /\ Page(blk[t]) <= Top
      BY BudgetParts
    <3>2. mapedEnd[p] < Page(blk[t]) + 1
      BY <1>2, <3>1 DEF TryLoadMiss
    <3>3. QED
      BY <3>1, <3>2
  <2>2. Waiting(p)' \in SUBSET ThreadsOf(p)
    BY DEF Waiting
  <2>3. mapedEnd[p] * Doublings(Waiting(p)') <= Doublings(ThreadsOf(p)) * Top
    <3> DEFINE V == Waiting(p)'
    <3>1. V \in SUBSET ThreadsOf(p)
      BY <2>2
    <3> HIDE DEF V
    <3>2. mapedEnd[p] * Doublings(V) <= Doublings(ThreadsOf(p)) * Top
      BY <2>1, <3>1, BudgetOfMiss
    <3>3. QED
      BY <3>2 DEF V
  <2>4. QED
    BY <1>1, <2>3 DEF Budget, Doublings
<1>3. CASE P(t) # p
  <2>1. Waiting(p)' \subseteq Waiting(p)
    BY <1>3 DEF TryLoadMiss, Goto, Waiting, TypeOK
  <2>2. mapedEnd'[p] = mapedEnd[p] /\ Top <= Top'
    <3>1. Top \in Nat
      BY BudgetParts
    <3>2. QED
      BY <1>1, <3>1
  <2>3. QED
    BY <2>1, <2>2, BudgetCalm
<1>4. QED
  BY <1>2, <1>3

(* A mapping is one doubling, and one thread less that waits.              *)
LEMMA MapStep ==
  ASSUME TypeOK, TypeOK', LoadInv, LoadInv', NEW p \in Procs, Budget(p),
         NEW t \in Threads, Map(t)
  PROVE  Budget(p)'
<1> USE SectionFileAssumption DEF P, ThreadsOf
<1>1. Top' = Top
  BY DEF Map, Top, Larger, Page
<1>2. CASE P(t) = p
  <2> DEFINE V == Waiting(p)'
  <2>1. /\ mapedEnd[p] \in Nat /\ Top \in Nat /\ 1 <= Top /\ IsFiniteSet(ThreadsOf(p))
        /\ Page(blk[t]) \in Nat /\ Page(blk[t]) <= Top
    BY BudgetParts
  <2>2. V \in SUBSET ThreadsOf(p) /\ t \in ThreadsOf(p) /\ t \notin V
    BY <1>2 DEF Map, Goto, Waiting, TypeOK
  <2>3. Waiting(p) = V \cup {t}
    BY <1>2 DEF Map, Goto, Waiting, TypeOK
  <2>4. next[t] \in Nat /\ next[t] <= Larger(Page(blk[t]) + 1, 2 * mapedEnd[p])
    BY <1>2 DEF Map, Goto, LoadInv, NextLength, TypeOK
  <2>5. mapedEnd'[p] = Larger(mapedEnd[p], next[t])
    BY <1>2 DEF Map, TypeOK
  <2>6. mapedEnd[p] * Doublings(V \cup {t}) <= Doublings(ThreadsOf(p)) * Top
    BY <2>3 DEF Budget
  <2>7. Larger(mapedEnd[p], next[t]) * Doublings(V) <= Doublings(ThreadsOf(p)) * Top
    <3> HIDE DEF V
    <3>1. QED
      BY <2>1, <2>2, <2>4, <2>6, BudgetSpent
  <2>8. QED
    BY <1>1, <2>5, <2>7 DEF Budget, Doublings
<1>3. CASE P(t) # p
  <2>1. Waiting(p)' \subseteq Waiting(p)
    BY <1>3 DEF Map, Goto, Waiting, TypeOK
  <2>2. mapedEnd'[p] = mapedEnd[p] /\ Top <= Top'
    <3>1. Top \in Nat
      BY BudgetParts
    <3>2. mapedEnd'[p] = mapedEnd[p]
      BY <1>3 DEF Map, TypeOK
    <3>3. QED
      BY <1>1, <3>1, <3>2
  <2>3. QED
    BY <2>1, <2>2, BudgetCalm
<1>4. QED
  BY <1>2, <1>3

(* The budget of every process survives every step.                        *)
LEMMA BudgetStep ==
  TypeOK /\ TypeOK' /\ LoadInv /\ LoadInv' /\ BudgetInv /\ [Next]_vars => BudgetInv'
<1> SUFFICES ASSUME TypeOK, TypeOK', LoadInv, LoadInv', BudgetInv, [Next]_vars,
                    NEW p \in Procs
             PROVE  Budget(p)'
  BY DEF BudgetInv
<1>1. Budget(p)
  BY DEF BudgetInv
<1>2. ASSUME NEW t \in Threads, TryLoadMiss(t) PROVE Budget(p)'
  BY <1>1, <1>2, MissStep
<1>3. ASSUME NEW t \in Threads, Map(t) PROVE Budget(p)'
  BY <1>1, <1>3, MapStep
<1>4. CASE \/ \E t \in Threads :
                \/ Attach(t) \/ TryLoadHit(t) \/ Lock(t) \/ ReadSize(t)
                \/ Grow(t) \/ Unlock(t) \/ Use(t)
                \/ \E n \in 1 .. MaxRun : AllocateBlock(t, n)
                \/ \E b \in 0 .. blockAllocated - 1 : LoadBlock(t, b)
           \/ \E q \in Killable : Kill(q)
           \/ UNCHANGED vars
  <2>1. mapedEnd'[p] = mapedEnd[p] /\ Top <= Top' /\ Waiting(p)' \subseteq Waiting(p)
    BY <1>4, CalmSteps
  <2>2. QED
    BY <1>1, <2>1, BudgetCalm
<1>5. QED
  BY <1>2, <1>3, <1>4 DEF Next, Step

(* However many threads of a process miss one page and queue for the lock: *)
(* a process with T threads maps at most 2^T times the last allocated page *)
(* (MappingBound; load, fsl_lib.cpp:154-183).                              *)
THEOREM MappingStaysBounded == Spec => []MappingBound
<1>1. Init => LoadInv
  BY DEF Init, LoadInv
<1>2. Init => BudgetInv
  <2> SUFFICES ASSUME Init, NEW p \in Procs PROVE Budget(p)
    BY DEF BudgetInv
  <2>1. TypeOK /\ LoadInv
    BY <1>1, SectionFileAssumption DEF Init, TypeOK, Locations
  <2>2. mapedEnd[p] <= Top
    BY <2>1, BudgetParts DEF Init
  <2>3. QED
    BY <2>1, <2>2, BudgetParts, BudgetOfMiss DEF Budget
<1>3. BudgetInv /\ TypeOK /\ LoadInv => MappingBound
  <2> SUFFICES ASSUME BudgetInv, TypeOK, LoadInv, NEW p \in Procs
               PROVE  mapedEnd[p] <= Doublings(ThreadsOf(p)) * Top
    BY DEF MappingBound, Doublings, Top
  <2>1. /\ mapedEnd[p] \in Nat /\ Top \in Nat /\ IsFiniteSet(ThreadsOf(p))
        /\ {} \in SUBSET Waiting(p) /\ Waiting(p) \in SUBSET ThreadsOf(p)
    BY BudgetParts
  <2>2. IsFiniteSet(Waiting(p))
    BY <2>1, FS_Subset
  <2>3. /\ Doublings(Waiting(p)) \in Nat /\ 1 <= Doublings(Waiting(p))
        /\ Doublings(ThreadsOf(p)) \in Nat
    BY <2>1, <2>2, DoublingsType
  <2>4. mapedEnd[p] * 1 <= mapedEnd[p] * Doublings(Waiting(p))
    BY <2>1, <2>3, ProductMonotone
  <2>5. mapedEnd[p] * Doublings(Waiting(p)) <= Doublings(ThreadsOf(p)) * Top
    BY DEF BudgetInv, Budget
  <2>6. QED
    BY <2>1, <2>3, <2>4, <2>5
<1>4. QED
  BY <1>1, <1>2, <1>3, LoadStep, BudgetStep, TypeCorrect, PTL DEF Spec
=============================================================================
