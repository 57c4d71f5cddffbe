-------------------------- MODULE MemoryPoolProofs --------------------------
(***************************************************************************)
(* Proofs about the two buffers of the memory pool, for any producers,     *)
(* record, buffer and data sizes.                                          *)
(***************************************************************************)
EXTENDS MemoryPool, SequenceTheorems, TLAPS

(* Who is between lock and unlock has producer_mutex_.                     *)
MutexInv == \A t \in Threads : pc[t] \in Holding => producer_mutex = t

(* Records grow from below, data from above, and they do not meet.         *)
PointerInv ==
  /\ buffer_begin <= record_ptr /\ record_ptr <= data_ptr /\ data_ptr <= buffer_end

(* A record about to be stored has room.                                   *)
RoomInv ==
  \A t \in Threads : pc[t] = "store" => record_ptr + RecordSize <= data_ptr - Reserve(data[t])

(* Between the hand-over and SwitchBuffers the consumer has the current    *)
(* buffer, at any other time the other one.                                *)
Turned == \A t \in Threads : pc[t] \notin Switching

HandInv ==
  consumer_arg.valid /\ consumer_arg.begin # Null =>
    /\ consumer_arg.end <= consumer_arg.begin + BufferSize
    /\ (consumer_arg.begin # buffer_begin) <=> Turned

IInv == TypeOK /\ MutexInv /\ PointerInv /\ RoomInv /\ HandInv

-----------------------------------------------------------------------------
(* No more is reserved than a buffer has room for next to a record.        *)
LEMMA ReserveBound ==
  ASSUME NEW d \in DataSizes \cup {NoData}
  PROVE  Reserve(d) \in 0 .. BufferSize - RecordSize
  BY MemoryPoolAssumption DEF Reserve, Size

(* The other buffer follows or precedes the current one.                   *)
LEMMA NextIsOther ==
  ASSUME buffer_begin \in {0, BufferSize}
  PROVE  /\ NextBuffer \in {0, BufferSize}
         /\ NextBuffer # buffer_begin
  BY MemoryPoolAssumption DEF NextBuffer, buffer_end, PoolSize

LEMMA InitIInv == Init => IInv
<1> SUFFICES ASSUME Init PROVE IInv
  OBVIOUS
<1> USE MemoryPoolAssumption DEF Init, PoolSize
<1>1. TypeOK
  <2>1. pc \in [Threads \cup {Consumer} -> Locations \cup ConsumerLocations]
    BY DEF Locations, ConsumerLocations
  <2>2. consumer_arg \in [begin : {0, BufferSize, Null}, end : 0 .. Null, valid : BOOLEAN]
    BY DEF Null
  <2>3. record_ptr \in 0 .. PoolSize /\ data_ptr \in 0 .. PoolSize /\ at \in Nat
    BY DEF Null
  <2>4. data \in [Threads -> DataSizes \cup {NoData}] /\ before \in [Threads -> Nat]
    OBVIOUS
  <2>5. QED
    BY <2>1, <2>2, <2>3, <2>4 DEF TypeOK, Addresses
<1>2. \A t \in Threads : pc[t] = "idle"
  BY DEF Threads
<1>3. MutexInv /\ RoomInv
  BY <1>2 DEF MutexInv, RoomInv, Holding, Switching, Notifying
<1>4. PointerInv /\ HandInv
  BY DEF PointerInv, HandInv, buffer_end
<1>5. QED
  BY <1>1, <1>3, <1>4 DEF IInv

-----------------------------------------------------------------------------
(* A step that leaves the buffers and consumer_arg alone and takes nobody  *)
(* into or out of the places the invariants speak of keeps them.           *)
LEMMA Elsewhere ==
  ASSUME IInv, TypeOK', MutexInv', UNCHANGED <<buffers, consumer_arg>>,
         \A t \in Threads : pc'[t] \in Switching <=> pc[t] \in Switching,
         \A t \in Threads : pc'[t] = "store" => pc[t] = "store" /\ data'[t] = data[t]
  PROVE  IInv'
<1>1. PointerInv'
  BY DEF IInv, PointerInv, buffers, buffer_end
<1>2. RoomInv'
  BY DEF IInv, RoomInv, buffers
<1>3. HandInv'
  BY DEF IInv, HandInv, Turned, buffers
<1>4. QED
  BY <1>1, <1>2, <1>3 DEF IInv

(* The places of a thread do not overlap.                                  *)
USE DEF Holding, Switching, Notifying, Locations, ConsumerLocations

LEMMA CallsKeep ==
  ASSUME IInv, NEW t \in Threads, NEW d \in DataSizes \cup {NoData},
         CallWrite(t, d) \/ CallFlush(t) \/ FlushNothing(t) \/ FlushReturns(t) \/ Join(t)
  PROVE  IInv'
<1> USE MemoryPoolAssumption
<1>1. /\ pc[t] \in {"idle", "flush", "flush_wait", "join"}
      /\ pc' = [pc EXCEPT ![t] = pc'[t]]
      /\ pc'[t] \in {"write", "flush", "idle", "exit_notify", "destroyed"}
  BY DEF CallWrite, CallFlush, FlushNothing, FlushReturns, Join, Goto, AfterFlush, IInv, TypeOK
<1>2. UNCHANGED <<buffers, consumer_arg, producer_mutex>>
  BY DEF CallWrite, CallFlush, FlushNothing, FlushReturns, Join
<1>3. data' = data \/ data' = [data EXCEPT ![t] = d]
  BY DEF CallWrite, CallFlush, FlushNothing, FlushReturns, Join
<1>4. before' \in [Threads -> Nat]
  BY DEF CallWrite, CallFlush, FlushNothing, FlushReturns, Join, IInv, TypeOK
<1>5. UNCHANGED <<asleep, at, mem, history>>
  BY DEF CallWrite, CallFlush, FlushNothing, FlushReturns, Join
<1>6. TypeOK'
  BY <1>1, <1>2, <1>3, <1>4, <1>5 DEF IInv, TypeOK, buffers, history
<1>7. MutexInv'
  BY <1>1, <1>2 DEF IInv, MutexInv, TypeOK
<1>8. QED
  BY <1>1, <1>2, <1>3, <1>6, <1>7, Elsewhere DEF IInv, TypeOK

LEMMA LockWriteKeeps ==
  ASSUME IInv, NEW t \in Threads, LockWrite(t)
  PROVE  IInv'
<1> USE MemoryPoolAssumption
<1>1. /\ pc[t] = "write" /\ producer_mutex = NoOne /\ producer_mutex' = t
      /\ pc' = [pc EXCEPT ![t] = pc'[t]] /\ pc'[t] \in {"full_notify", "store"}
      /\ UNCHANGED <<data, buffers, consumer_arg, asleep, at, mem, history, before>>
  BY DEF LockWrite, Goto, IInv, TypeOK
<1>2. pc'[t] = "store" => record_ptr + RecordSize <= data_ptr - Reserve(data[t])
  <2>1. Reserve(data[t]) \in Int /\ data_ptr \in Int /\ record_ptr \in Int
    <3>1. data[t] \in DataSizes \cup {NoData}
      BY DEF IInv, TypeOK
    <3>2. Reserve(data[t]) \in 0 .. BufferSize - RecordSize
      BY <3>1, ReserveBound
    <3>3. QED
      BY <3>2 DEF IInv, TypeOK
  <2>2. CASE record_ptr + RecordSize > data_ptr - Reserve(data[t])
    <3>1. pc' = [pc EXCEPT ![t] = "full_notify"]
      BY <2>2, Zenon DEF LockWrite, Goto
    <3>2. pc'[t] = "full_notify"
      BY <3>1 DEF IInv, TypeOK
    <3>3. QED
      BY <3>2
  <2>3. CASE ~(record_ptr + RecordSize > data_ptr - Reserve(data[t]))
    BY <2>1, <2>3
  <2>4. QED
    BY <2>2, <2>3
<1>3. TypeOK'
  BY <1>1 DEF IInv, TypeOK, buffers, history
<1>4. \A u \in Threads : pc[u] \notin Holding
  BY <1>1 DEF IInv, MutexInv
<1>5. MutexInv'
  BY <1>1, <1>4 DEF MutexInv, IInv, TypeOK
<1>6. RoomInv'
  BY <1>1, <1>2, <1>4 DEF RoomInv, IInv, TypeOK, buffers
<1>7. PointerInv'
  BY <1>1 DEF PointerInv, IInv, buffers, buffer_end
<1>8. Turned /\ Turned'
  BY <1>1, <1>4 DEF Turned, IInv, TypeOK
<1>9. HandInv'
  BY <1>1, <1>8 DEF HandInv, IInv, buffers
<1>10. QED
  BY <1>3, <1>5, <1>6, <1>7, <1>9 DEF IInv

LEMMA LockFlushKeeps ==
  ASSUME IInv, NEW t \in Threads, LockFlush(t)
  PROVE  IInv'
<1> USE MemoryPoolAssumption
<1>1. /\ pc[t] = "flush" /\ producer_mutex = NoOne /\ producer_mutex' = t
      /\ pc' = [pc EXCEPT ![t] = "flush_notify"]
      /\ UNCHANGED <<data, buffers, consumer_arg, asleep, at, mem, history, before>>
  BY DEF LockFlush, Goto
<1>2. TypeOK'
  BY <1>1 DEF IInv, TypeOK, buffers, history
<1>3. MutexInv'
  BY <1>1 DEF MutexInv, IInv, TypeOK
<1>4. QED
  BY <1>1, <1>2, <1>3, Elsewhere DEF IInv, TypeOK

LEMMA WriteReturnsKeeps ==
  ASSUME IInv, NEW t \in Threads, WriteReturns(t)
  PROVE  IInv'
<1> USE MemoryPoolAssumption
<1>1. /\ pc[t] = "big_wait" /\ producer_mutex' = NoOne
      /\ pc' = [pc EXCEPT ![t] = "idle"]
      /\ UNCHANGED <<data, buffers, consumer_arg, asleep, at, mem, history, before>>
  BY DEF WriteReturns, Goto
<1>2. TypeOK'
  BY <1>1 DEF IInv, TypeOK, buffers, history
<1>3. MutexInv'
  BY <1>1 DEF MutexInv, IInv, TypeOK
<1>4. QED
  BY <1>1, <1>2, <1>3, Elsewhere DEF IInv, TypeOK

(* Sleeping and waking up touch nothing the invariants speak of.           *)
LEMMA SleepKeeps ==
  ASSUME IInv, NEW t \in Threads \cup {Consumer}, Sleep(t) \/ Wake(t)
  PROVE  IInv'
<1>1. /\ asleep' \subseteq Threads \cup {Consumer}
      /\ UNCHANGED <<pc, data, producer_mutex, buffers, consumer_arg, at, mem, history, before>>
  BY DEF Sleep, Wake, IInv, TypeOK
<1>2. TypeOK' /\ MutexInv'
  BY <1>1 DEF IInv, TypeOK, MutexInv, buffers, history
<1>3. QED
  BY <1>1, <1>2, Elsewhere

(* The current buffer is handed over.                                      *)
LEMMA NotifyKeeps ==
  ASSUME IInv, NEW t \in Threads, Notify(t)
  PROVE  IInv'
<1> USE MemoryPoolAssumption
<1>1. /\ asleep' = {} /\ ~consumer_arg.valid
      /\ UNCHANGED <<data, producer_mutex, buffers, at, mem, history, before>>
  BY DEF Notify, NotifyAll, Predicate, Threads
<1>2. CASE pc[t] = "exit_notify"
  <2>1. /\ consumer_arg' = [begin |-> Null, end |-> Null, valid |-> TRUE]
        /\ pc' = [pc EXCEPT ![t] = "join"]
    BY <1>2 DEF Notify, AfterNotify, IInv, TypeOK
  <2>2. TypeOK'
    BY <1>1, <2>1 DEF IInv, TypeOK, buffers, history, Null, PoolSize
  <2>3. MutexInv' /\ RoomInv'
    BY <1>1, <2>1 DEF IInv, MutexInv, RoomInv, TypeOK, buffers
  <2>4. PointerInv' /\ HandInv'
    BY <1>1, <2>1 DEF IInv, PointerInv, HandInv, buffers, buffer_end
  <2>5. QED
    BY <2>2, <2>3, <2>4 DEF IInv
<1>3. CASE pc[t] \in Notifying
  <2>1. /\ consumer_arg' = [begin |-> buffer_begin, end |-> record_ptr, valid |-> TRUE]
        /\ pc' = [pc EXCEPT ![t] = pc'[t]] /\ pc'[t] \in Switching
    BY <1>3 DEF Notify, AfterNotify, IInv, TypeOK
  <2>2. TypeOK'
    BY <1>1, <2>1 DEF IInv, TypeOK, buffers, history, Null, PoolSize
  <2>3. MutexInv' /\ RoomInv'
    BY <1>1, <1>3, <2>1 DEF IInv, MutexInv, RoomInv, TypeOK, buffers
  <2>4. PointerInv'
    BY <1>1 DEF IInv, PointerInv, buffers, buffer_end
  <2>5. ~Turned'
    BY <2>1 DEF Turned
  <2>6. record_ptr <= buffer_begin + BufferSize
    BY DEF IInv, PointerInv, TypeOK, buffer_end, PoolSize
  <2>7. HandInv'
    BY <1>1, <2>1, <2>5, <2>6 DEF HandInv, buffers
  <2>8. QED
    BY <2>2, <2>3, <2>4, <2>7 DEF IInv
<1>4. QED
  BY <1>2, <1>3 DEF Notify

(* The other buffer becomes the current one: the consumer still has the    *)
(* one it was handed.                                                      *)
LEMMA SwitchKeeps ==
  ASSUME IInv, NEW t \in Threads, Switch(t)
  PROVE  IInv'
<1> USE MemoryPoolAssumption
<1>1. /\ pc[t] \in Switching
      /\ buffer_begin' = NextBuffer /\ record_ptr' = NextBuffer
      /\ data_ptr' = NextBuffer + BufferSize
      /\ producer_mutex' \in {t, NoOne}
      /\ pc'[t] \in {"store", "big_wait"} => producer_mutex' = t
      /\ UNCHANGED <<data, consumer_arg, asleep, at, mem, history, before>>
      /\ pc' = [pc EXCEPT ![t] = pc'[t]] /\ pc'[t] \in {"store", "big_wait", "flush_wait"}
  BY DEF Switch, AfterSwitch, IInv, TypeOK
<1>2. NextBuffer \in {0, BufferSize} /\ NextBuffer # buffer_begin
  BY NextIsOther DEF IInv, TypeOK
<1>3. \A u \in Threads : u # t => pc[u] \notin Holding
  BY <1>1 DEF IInv, MutexInv
<1>4. TypeOK'
  BY <1>1, <1>2 DEF IInv, TypeOK, history, PoolSize
<1>5. MutexInv'
  BY <1>1, <1>3 DEF IInv, TypeOK, MutexInv
<1>6. PointerInv'
  BY <1>1, <1>2 DEF PointerInv, buffer_end
<1>7. RoomInv'
  <2>1. Reserve(data[t]) \in 0 .. BufferSize - RecordSize
    BY ReserveBound DEF IInv, TypeOK
  <2>2. record_ptr' + RecordSize <= data_ptr' - Reserve(data[t])
    BY <1>1, <1>2, <2>1
  <2>3. QED
    BY <1>1, <1>3, <2>2 DEF RoomInv, IInv, TypeOK
<1>8. ~Turned /\ Turned'
  BY <1>1, <1>3 DEF Turned, IInv, TypeOK
<1>9. HandInv'
  BY <1>1, <1>2, <1>8 DEF HandInv, IInv
<1>10. QED
  BY <1>4, <1>5, <1>6, <1>7, <1>9 DEF IInv

(* A record and its data are stored.                                       *)
LEMMA StoreKeeps ==
  ASSUME IInv, NEW t \in Threads, Store(t)
  PROVE  IInv'
<1> USE MemoryPoolAssumption
<1> DEFINE r == Reserve(data[t])
<1>1. /\ pc[t] = "store"
      /\ pc' = [pc EXCEPT ![t] = pc'[t]] /\ pc'[t] \in {"big_notify", "idle"}
      /\ producer_mutex' \in {t, NoOne}
      /\ pc'[t] = "big_notify" => producer_mutex' = t
      /\ data' = [data EXCEPT ![t] = NoData]
      /\ UNCHANGED <<buffer_begin, consumer_arg, asleep, at, delivered, damaged, before>>
  BY DEF Store, StoreNext, Goto, IInv, TypeOK
<1>2. /\ record_ptr' = record_ptr + RecordSize /\ data_ptr' = data_ptr - r
      /\ written' = written + 1 /\ DOMAIN mem' = Addresses
  BY DEF Store
<1>3. r \in 0 .. BufferSize - RecordSize
  BY ReserveBound DEF IInv, TypeOK
<1>4. record_ptr + RecordSize <= data_ptr - r
  BY <1>1 DEF IInv, RoomInv
<1>5. \A u \in Threads : u # t => pc[u] \notin Holding
  BY <1>1 DEF IInv, MutexInv
<1> HIDE DEF r
<1>6. record_ptr' \in 0 .. PoolSize /\ data_ptr' \in 0 .. PoolSize /\ written' \in Nat
  BY <1>2, <1>3, <1>4 DEF IInv, TypeOK, PoolSize
<1>7. TypeOK'
  BY <1>1, <1>2, <1>6 DEF IInv, TypeOK
<1>8. MutexInv'
  BY <1>1, <1>5 DEF IInv, TypeOK, MutexInv
<1>9. RoomInv'
  BY <1>1, <1>5 DEF IInv, TypeOK, RoomInv
<1>10. PointerInv'
  BY <1>1, <1>2, <1>3, <1>4 DEF IInv, TypeOK, PointerInv, buffer_end, PoolSize
<1>11. Turned /\ Turned'
  BY <1>1, <1>5 DEF Turned, IInv, TypeOK
<1>12. HandInv'
  BY <1>1, <1>11 DEF HandInv, IInv
<1>13. QED
  BY <1>7, <1>8, <1>9, <1>10, <1>12 DEF IInv

(* The consumer takes a hand-over, reads, ends it, or exits.               *)
LEMMA ConsumerKeeps ==
  ASSUME IInv, Take \/ Exit \/ Read \/ Finish
  PROVE  IInv'
<1> USE MemoryPoolAssumption
<1>1. UNCHANGED <<data, producer_mutex, buffers, written, before>>
  BY DEF Take, Exit, Read, Finish, history
<1>2. \/ pc' = pc
      \/ \E l \in ConsumerLocations : pc' = [pc EXCEPT ![Consumer] = l]
  BY DEF Take, Exit, Read, Finish, Goto
<1>3. \A t \in Threads : pc'[t] = pc[t]
  <2>1. pc \in [Threads \cup {Consumer} -> Locations \cup ConsumerLocations]
    BY DEF IInv, TypeOK
  <2>2. Consumer \notin Threads
    OBVIOUS
  <2>3. QED
    BY <1>2, <2>1, <2>2
<1>4. /\ asleep' \subseteq Threads \cup {Consumer} /\ mem' = mem
      /\ at' \in Nat /\ delivered' \in Nat /\ damaged' \in BOOLEAN
  <2>1. asleep' \in {asleep, {}} /\ mem' = mem /\ delivered' \in {delivered, delivered + 1}
    BY DEF Take, Exit, Read, Finish, NotifyAll, history
  <2>2. at' \in {consumer_arg.begin, at, at + RecordSize, Null}
    BY DEF Take, Exit, Read, Finish
  <2>3. damaged' \in BOOLEAN
    BY DEF Take, Exit, Read, Finish, IInv, TypeOK, history
  <2>4. Null \in Nat /\ consumer_arg.begin \in Nat
    BY DEF IInv, TypeOK, Null, PoolSize
  <2>5. QED
    BY <2>1, <2>2, <2>3, <2>4 DEF IInv, TypeOK
<1>5. \/ consumer_arg' = consumer_arg
      \/ consumer_arg' = [consumer_arg EXCEPT !.valid = FALSE]
  BY DEF Take, Exit, Read, Finish
<1>6. TypeOK'
  <2>1. pc \in [Threads \cup {Consumer} -> Locations \cup ConsumerLocations]
    BY DEF IInv, TypeOK
  <2>2. pc' \in [Threads \cup {Consumer} -> Locations \cup ConsumerLocations]
    BY <1>2, <2>1
  <2>3. consumer_arg' \in [begin : {0, BufferSize, Null}, end : 0 .. Null, valid : BOOLEAN]
    <3>1. consumer_arg \in [begin : {0, BufferSize, Null}, end : 0 .. Null, valid : BOOLEAN]
      BY DEF IInv, TypeOK
    <3>2. QED
      BY <1>5, <3>1
  <2>4. UNCHANGED <<data, producer_mutex, buffer_begin, record_ptr, data_ptr, mem, written, before>>
    BY <1>1, <1>4 DEF buffers
  <2>5. QED
    BY <1>4, <2>2, <2>3, <2>4 DEF IInv, TypeOK
<1>7. MutexInv' /\ RoomInv' /\ PointerInv'
  BY <1>1, <1>3 DEF IInv, MutexInv, RoomInv, PointerInv, buffers, buffer_end
<1>8. HandInv'
  <2>1. Turned' <=> Turned
    BY <1>3 DEF Turned
  <2>2. consumer_arg'.valid =>
          /\ consumer_arg.valid
          /\ consumer_arg'.begin = consumer_arg.begin /\ consumer_arg'.end = consumer_arg.end
    BY <1>5 DEF IInv, TypeOK
  <2>3. QED
    BY <1>1, <2>1, <2>2 DEF IInv, HandInv, buffers
<1>9. QED
  BY <1>6, <1>7, <1>8 DEF IInv

LEMMA StepIInv ==
  ASSUME IInv, [Next]_vars
  PROVE  IInv'
<1>1. CASE UNCHANGED vars
  <2>1. TypeOK' /\ MutexInv' /\ RoomInv' /\ PointerInv' /\ HandInv'
    BY <1>1 DEF IInv, TypeOK, MutexInv, RoomInv, PointerInv, HandInv, Turned, buffer_end,
         vars, buffers, history
  <2>2. QED
    BY <2>1 DEF IInv
<1>2. CASE \E p \in Producers, d \in DataSizes \cup {NoData} : CallWrite(p, d)
  BY <1>2, CallsKeep DEF Threads
<1>3. ASSUME NEW t \in Threads, CallFlush(t) \/ Step(t) PROVE IInv'
  <2>1. NoData \in DataSizes \cup {NoData} /\ t \in Threads \cup {Consumer}
    OBVIOUS
  <2>2. QED
    BY <1>3, <2>1, CallsKeep, LockWriteKeeps, LockFlushKeeps, SleepKeeps, NotifyKeeps,
       SwitchKeeps, StoreKeeps, WriteReturnsKeeps DEF Step
<1>4. CASE ConsumerStep
  BY <1>4, ConsumerKeeps, SleepKeeps DEF ConsumerStep
<1>5. CASE \E t \in Threads \cup {Consumer} : Wake(t)
  BY <1>5, SleepKeeps
<1>6. QED
  BY <1>1, <1>2, <1>3, <1>4, <1>5 DEF Next, Destroyed

LEMMA Invariance == Spec => []IInv
  BY InitIInv, StepIInv, PTL DEF Spec

-----------------------------------------------------------------------------
(* The threads, the mutex and the pointers of the pool keep their types,   *)
(* the pointers never leave the pool and the hand-over names one of the    *)
(* two buffers, for any sizes and any number of producers.                 *)
THEOREM PoolTypeCorrect == Spec => []TypeOK
<1>1. IInv => TypeOK
  BY DEF IInv
<1>2. QED
  BY <1>1, Invariance, PTL

(* No interleaving of writes, flushes, wake-ups and hand-overs makes a     *)
(* Write store outside its buffer, over records of its own or into the     *)
(* buffer the consumer has (mt_memory_pool.cpp:49-72, 105-110, 140-155).   *)
THEOREM StoresAlwaysApart == Spec => []StoresApart
<1>1. ASSUME IInv PROVE StoresApart
  <2> SUFFICES ASSUME NEW t \in Threads, pc[t] = "store"
               PROVE  /\ buffer_begin <= record_ptr /\ data_ptr <= buffer_end
                      /\ record_ptr + RecordSize <= data_ptr - Reserve(data[t])
                      /\ consumer_arg.valid =>
                           \/ consumer_arg.end <= buffer_begin
                           \/ buffer_end <= consumer_arg.begin
    BY DEF StoresApart
  <2>1. Turned
    BY <1>1, MemoryPoolAssumption DEF IInv, MutexInv, Turned
  <2>2. buffer_begin <= record_ptr /\ data_ptr <= buffer_end
    BY <1>1, MemoryPoolAssumption DEF IInv, PointerInv, TypeOK, buffer_end, PoolSize
  <2>3. ASSUME consumer_arg.valid
        PROVE  consumer_arg.end <= buffer_begin \/ buffer_end <= consumer_arg.begin
    <3>1. CASE consumer_arg.begin = Null
      BY <1>1, <3>1, MemoryPoolAssumption DEF IInv, TypeOK, buffer_end, Null, PoolSize
    <3>2. CASE consumer_arg.begin # Null
      <4>1. /\ consumer_arg.begin \in {0, BufferSize} /\ consumer_arg.end \in Nat
            /\ consumer_arg.begin # buffer_begin
            /\ consumer_arg.end <= consumer_arg.begin + BufferSize
        BY <1>1, <2>1, <2>3, <3>2, MemoryPoolAssumption DEF IInv, TypeOK, HandInv, Null, PoolSize
      <4>2. QED
        BY <1>1, <4>1, MemoryPoolAssumption DEF IInv, TypeOK, buffer_end
    <3>3. QED
      BY <3>1, <3>2
  <2>4. QED
    BY <1>1, <2>2, <2>3 DEF IInv, RoomInv
<1>2. QED
  BY <1>1, Invariance, PTL

-----------------------------------------------------------------------------
(***************************************************************************)
(* The memory pool is a queue, for any producers, record, buffer and data  *)
(* sizes: the consumer gets every record once, whole and in order, a Flush *)
(* waits for what it handed over, and the destructor for everything.       *)
(*                                                                         *)
(* The records not yet consumed lie in two rows without gaps, one in the   *)
(* buffer that was handed over and one in the buffer that is filled, and   *)
(* are numbered through from the one to the other. Between the hand-over   *)
(* and SwitchBuffers the second row is empty, whatever record_ptr_ says.   *)
(***************************************************************************)

USE MemoryPoolAssumption

Held     == consumer_arg.valid /\ consumer_arg.begin # Null
Start    == IF pc[Consumer] = "read" THEN at ELSE consumer_arg.begin
InHand   == IF Held THEN consumer_arg.end - Start ELSE 0
InBuffer == IF Turned THEN record_ptr - buffer_begin ELSE 0

(* The record whose data is left with its writer, if one is.               *)
Big(t)   == pc[t] \in {"big_notify", "big_switch", "big_wait"}
Borrowed == IF \E t \in Threads : Big(t) THEN written ELSE 0

(* Record n is at a, and its data between lo and hi, or with its writer.   *)
Whole(m, a, n, lo, hi, borrowed) ==
  \E d \in 0 .. Outside, r \in 0 .. BufferSize :
    /\ \A i \in 0 .. RecordSize - 1 : m[a + i] = <<n, d, r>>
    /\ \/ d = Nowhere
       \/ d = Outside /\ n = borrowed
       \/ lo <= d /\ d < hi /\ d + r <= hi /\ \A i \in 0 .. r - 1 : m[d + i] = <<n>>

Rows(h, f) ==
  /\ InHand = h * RecordSize /\ InBuffer = f * RecordSize
  /\ written = delivered + h + f
  /\ \A k \in 0 .. h - 1 :
       Whole(mem, Start + k * RecordSize, delivered + 1 + k,
             consumer_arg.begin, consumer_arg.begin + BufferSize, Borrowed)
  /\ \A k \in 0 .. f - 1 :
       Whole(mem, buffer_begin + k * RecordSize, delivered + h + 1 + k,
             data_ptr, buffer_end, Borrowed)

RowsInv == \E h, f \in Nat : Rows(h, f)

ReadInv ==
  /\ pc[Consumer] \in ConsumerLocations
  /\ pc[Consumer] = "read" => Held /\ consumer_arg.begin <= at

(* Who waits for the data it has kept has emptied the buffer.              *)
EmptyInv == \A t \in Threads : pc[t] = "big_wait" => record_ptr = buffer_begin

(* What a Flush found when it was called is no longer in the buffer.       *)
FlushInv ==
  \A t \in Threads :
    /\ before[t] <= written
    /\ pc[t] = "flush_wait" => InBuffer <= (written - before[t]) * RecordSize

(* The destructor runs alone.                                              *)
OwnerInv ==
  /\ pc[Owner] \in {"idle", "flush", "flush_notify", "flush_switch", "flush_wait",
                    "exit_notify", "join", "destroyed"}
  /\ pc[Owner] # "idle" => \A p \in Producers : pc[p] = "idle"
  /\ pc[Owner] \in {"flush_wait", "exit_notify", "join", "destroyed"} =>
       record_ptr = buffer_begin
  /\ pc[Owner] \in {"join", "destroyed"} => delivered = written

QInv == IInv /\ RowsInv /\ ReadInv /\ EmptyInv /\ FlushInv /\ OwnerInv /\ ~damaged

-----------------------------------------------------------------------------
(* Records in a row.                                                       *)
LEMMA Times ==
  ASSUME NEW k \in Nat, NEW m \in Nat
  PROVE  /\ k * RecordSize \in Nat
         /\ (k + 1) * RecordSize = k * RecordSize + RecordSize
         /\ k < m => k * RecordSize + RecordSize <= m * RecordSize
<1>1. k * RecordSize \in Nat /\ (k + 1) * RecordSize = k * RecordSize + RecordSize
  OBVIOUS
<1>2. ASSUME k < m PROVE k * RecordSize + RecordSize <= m * RecordSize
  <2>1. PICK j \in Nat : m = k + 1 + j
    <3>1. m - k - 1 \in Nat /\ m = k + 1 + (m - k - 1)
      BY <1>2
    <3>2. QED
      BY <3>1
  <2>2. m * RecordSize = (k + 1) * RecordSize + j * RecordSize /\ j * RecordSize \in Nat
    BY <2>1
  <2>3. QED
    BY <1>1, <2>2
<1>3. QED
  BY <1>1, <1>2

LEMMA TimesCancel ==
  ASSUME NEW k \in Nat, NEW m \in Nat, k * RecordSize <= m * RecordSize
  PROVE  k <= m
<1>1. SUFFICES ASSUME m < k PROVE FALSE
  OBVIOUS
<1>2. m * RecordSize + RecordSize <= k * RecordSize /\ m * RecordSize \in Nat
      /\ k * RecordSize \in Nat
  BY <1>1, Times
<1>3. QED
  BY <1>2

(* A record stays whole as long as its cells and those of its data do.     *)
LEMMA WholeKept ==
  ASSUME NEW m, NEW m2, NEW a \in Int, NEW n, NEW lo \in Int, NEW lo2 \in Int, NEW hi \in Int,
         NEW b, NEW b2, Whole(m, a, n, lo, hi, b), lo2 <= lo, n = b => n = b2,
         \A i \in 0 .. RecordSize - 1 : m2[a + i] = m[a + i],
         \A c \in Int : lo <= c /\ c < hi => m2[c] = m[c]
  PROVE  Whole(m2, a, n, lo2, hi, b2)
<1>1. PICK d \in 0 .. Outside, r \in 0 .. BufferSize :
        /\ \A i \in 0 .. RecordSize - 1 : m[a + i] = <<n, d, r>>
        /\ \/ d = Nowhere
           \/ d = Outside /\ n = b
           \/ lo <= d /\ d < hi /\ d + r <= hi /\ \A i \in 0 .. r - 1 : m[d + i] = <<n>>
  BY DEF Whole
<1>2. \A i \in 0 .. RecordSize - 1 : m2[a + i] = <<n, d, r>>
  BY <1>1
<1>3. CASE d = Nowhere
  BY <1>2, <1>3 DEF Whole
<1>4. CASE d = Outside /\ n = b
  BY <1>2, <1>4 DEF Whole
<1>5. CASE lo <= d /\ d < hi /\ d + r <= hi /\ \A i \in 0 .. r - 1 : m[d + i] = <<n>>
  <2>1. d \in Int /\ lo2 <= d
    BY <1>5 DEF Outside, PoolSize
  <2>2. \A i \in 0 .. r - 1 : m2[d + i] = <<n>>
    BY <1>5, <2>1
  <2>3. QED
    BY <1>2, <1>5, <2>1, <2>2 DEF Whole
<1>6. QED
  BY <1>1, <1>3, <1>4, <1>5

(* The numbers the rows are made of.                                       *)
LEMMA Numbering ==
  ASSUME IInv
  PROVE  /\ buffer_begin \in Nat /\ record_ptr \in Nat /\ data_ptr \in Nat
         /\ buffer_end = buffer_begin + BufferSize /\ buffer_end <= PoolSize
         /\ consumer_arg.begin \in Nat /\ consumer_arg.end \in Nat /\ at \in Nat
         /\ consumer_arg.begin # Null => consumer_arg.begin \in {0, BufferSize}
         /\ written \in Nat /\ delivered \in Nat
         /\ Start \in Nat /\ InHand \in Int /\ InBuffer \in Int /\ Borrowed \in Nat
<1>1. /\ buffer_begin \in {0, BufferSize} /\ record_ptr \in 0 .. PoolSize
      /\ data_ptr \in 0 .. PoolSize /\ at \in Nat /\ written \in Nat /\ delivered \in Nat
      /\ consumer_arg.begin \in {0, BufferSize, Null} /\ consumer_arg.end \in 0 .. Null
  BY DEF IInv, TypeOK
<1>2. QED
  BY <1>1 DEF Null, PoolSize, buffer_end, Start, InHand, InBuffer, Borrowed

-----------------------------------------------------------------------------
(* Steps that change neither buffers nor the hand-over nor the consumer.   *)
LEMMA RowsStill ==
  ASSUME QInv,
         UNCHANGED <<buffer_begin, record_ptr, data_ptr, consumer_arg, at, mem, written,
                     delivered, damaged>>,
         pc'[Consumer] = pc[Consumer] \/ (pc[Consumer] = "wait" /\ pc'[Consumer] = "exited"),
         \A t \in Threads : pc'[t] \in Switching <=> pc[t] \in Switching,
         \A t \in Threads : Big(t)' <=> Big(t)
  PROVE  RowsInv' /\ ReadInv' /\ ~damaged'
<1>1. /\ InHand' = InHand /\ InBuffer' = InBuffer /\ Start' = Start /\ Borrowed' = Borrowed
      /\ buffer_end' = buffer_end
  BY DEF InHand, InBuffer, Start, Borrowed, Held, Turned, buffer_end
<1>2. PICK h \in Nat, f \in Nat : Rows(h, f)
  BY DEF QInv, RowsInv
<1>3. Rows(h, f)'
  BY <1>1, <1>2 DEF Rows
<1>4. QED
  BY <1>3 DEF QInv, RowsInv, ReadInv, Held

(* Threads apart from the one that moves stay where they are.              *)
LEMMA OthersStay ==
  ASSUME IInv, NEW t \in Threads \cup {Consumer}, NEW l, pc' = [pc EXCEPT ![t] = l]
  PROVE  /\ pc'[t] = l
         /\ \A u \in Threads \cup {Consumer} : u # t => pc'[u] = pc[u]
  BY DEF IInv, TypeOK

LEMMA OneHolds ==
  ASSUME IInv, NEW t \in Threads, pc[t] \in Holding
  PROVE  \A u \in Threads : u # t => pc[u] \notin Holding
  BY DEF IInv, MutexInv

LEMMA NoRecords ==
  ASSUME NEW k \in Nat, k * RecordSize = 0
  PROVE  k = 0
<1>1. k <= 0
  BY TimesCancel, 0 * RecordSize = 0, 0 \in Nat
<1>2. QED
  BY <1>1

(* Nothing is in hand when the hand-over before has ended.                 *)
LEMMA NothingHeld ==
  ASSUME QInv, ~consumer_arg.valid
  PROVE  ~Held /\ \E f \in Nat : Rows(0, f)
<1>1. ~Held /\ InHand = 0
  BY DEF Held, InHand
<1>2. PICK h \in Nat, f \in Nat : Rows(h, f)
  BY DEF QInv, RowsInv
<1>3. h = 0
  BY <1>1, <1>2, NoRecords DEF Rows
<1>4. QED
  BY <1>1, <1>2, <1>3

(* The row of the buffer becomes the row in hand.                          *)
LEMMA NotifyRows ==
  ASSUME QInv, NEW t \in Threads, Notify(t)
  PROVE  RowsInv' /\ ReadInv' /\ ~damaged' /\ InBuffer' \in {InBuffer, 0}
<1>1. /\ ~consumer_arg.valid /\ pc[Consumer] # "read"
      /\ pc' = [pc EXCEPT ![t] = AfterNotify(pc[t])]
      /\ UNCHANGED <<data, producer_mutex, buffer_begin, record_ptr, data_ptr, at, mem,
                     written, delivered, damaged, before>>
  BY DEF Notify, Predicate, Looks, Threads, buffers, history
<1>2. IInv
  BY DEF QInv
<1>3. /\ pc'[t] = AfterNotify(pc[t])
      /\ \A u \in Threads \cup {Consumer} : u # t => pc'[u] = pc[u]
  BY <1>1, <1>2, OthersStay
<1>4. pc'[Consumer] = pc[Consumer]
  BY <1>3
<1>5. PICK f \in Nat : Rows(0, f)
  BY <1>1, NothingHeld
<1>6. ReadInv' /\ ~damaged'
  BY <1>1, <1>4 DEF QInv, ReadInv
<1>7. \A u \in Threads : Big(u)' <=> Big(u)
  <2>1. Big(t)' <=> Big(t)
    BY <1>3 DEF Big, AfterNotify, Notify
  <2>2. QED
    BY <2>1, <1>3 DEF Big
<1>8. Borrowed' = Borrowed /\ buffer_end' = buffer_end
  BY <1>1, <1>7 DEF Borrowed, buffer_end
<1>9. CASE pc[t] = "exit_notify"
  <2>1. consumer_arg' = [begin |-> Null, end |-> Null, valid |-> TRUE]
    BY <1>9 DEF Notify
  <2>2. ~Held' /\ ~Held
    BY <1>1, <2>1 DEF Held
  <2>3. pc'[t] = "join"
    BY <1>3, <1>9 DEF AfterNotify
  <2>4. Turned' <=> Turned
    BY <1>3, <1>9, <2>3 DEF Turned
  <2>5. InHand' = 0 /\ InHand = 0 /\ InBuffer' = InBuffer
    BY <1>1, <2>2, <2>4 DEF InHand, InBuffer
  <2>6. Rows(0, f)'
    BY <1>1, <1>5, <1>8, <2>5 DEF Rows
  <2>7. QED
    BY <1>6, <2>5, <2>6 DEF RowsInv
<1>10. CASE pc[t] \in Notifying
  <2>1. consumer_arg' = [begin |-> buffer_begin, end |-> record_ptr, valid |-> TRUE]
    BY <1>10 DEF Notify
  <2>2. pc'[t] \in Switching
    BY <1>3, <1>10 DEF AfterNotify
  <2>3. Turned /\ ~Turned'
    BY <1>2, <1>10, <2>2, OneHolds DEF Turned
  <2>4. buffer_begin # Null /\ buffer_begin \in Nat /\ record_ptr \in Nat /\ data_ptr \in Nat
        /\ buffer_end = buffer_begin + BufferSize /\ buffer_begin <= data_ptr
    BY <1>2, Numbering DEF Null, PoolSize, IInv, PointerInv
  <2>5. Held' /\ Start' = buffer_begin /\ InHand' = record_ptr - buffer_begin /\ InBuffer' = 0
    BY <1>1, <1>4, <2>1, <2>3, <2>4 DEF Held, Start, InHand, InBuffer
  <2>6. InBuffer = record_ptr - buffer_begin
    BY <2>3 DEF InBuffer
  <2>7. written \in Nat /\ delivered \in Nat
    BY <1>2, Numbering
  <2>8. \A k \in 0 .. f - 1 :
          Whole(mem, buffer_begin + k * RecordSize, delivered + 1 + k,
                buffer_begin, buffer_begin + BufferSize, Borrowed)
    <3> SUFFICES ASSUME NEW k \in 0 .. f - 1
                 PROVE  Whole(mem, buffer_begin + k * RecordSize, delivered + 1 + k,
                              buffer_begin, buffer_begin + BufferSize, Borrowed)
      OBVIOUS
    <3>1. Whole(mem, buffer_begin + k * RecordSize, delivered + 0 + 1 + k,
                data_ptr, buffer_begin + BufferSize, Borrowed)
      BY <1>5, <2>4 DEF Rows
    <3>2. delivered + 0 + 1 + k = delivered + 1 + k
      BY <2>7
    <3>3. k * RecordSize \in Nat
      BY Times
    <3>4. QED
      BY <2>4, <3>1, <3>2, <3>3, WholeKept
  <2>9. Rows(f, 0)'
    <3>1. InHand' = f * RecordSize /\ InBuffer' = 0 * RecordSize /\ written' = delivered' + f + 0
      BY <1>1, <1>5, <2>5, <2>6, <2>7 DEF Rows
    <3>2. \A k \in 0 .. f - 1 :
            Whole(mem, Start + k * RecordSize, delivered + 1 + k,
                  consumer_arg.begin, consumer_arg.begin + BufferSize, Borrowed)'
      BY <1>1, <1>8, <2>1, <2>5, <2>8
    <3>3. \A k \in 0 .. 0 - 1 : FALSE
      OBVIOUS
    <3>4. QED
      BY <3>1, <3>2, <3>3 DEF Rows
  <2>10. QED
    BY <1>6, <2>5, <2>9 DEF RowsInv
<1>11. QED
  BY <1>9, <1>10 DEF Notify

(* The buffer that is filled from now on is empty.                         *)
LEMMA SwitchRows ==
  ASSUME QInv, NEW t \in Threads, Switch(t)
  PROVE  RowsInv' /\ ReadInv' /\ ~damaged' /\ InBuffer' = 0
<1>1. /\ pc[t] \in Switching
      /\ buffer_begin' = NextBuffer /\ record_ptr' = NextBuffer
      /\ pc' = [pc EXCEPT ![t] = AfterSwitch(pc[t])]
      /\ UNCHANGED <<data, consumer_arg, asleep, at, mem, written, delivered, damaged, before>>
  BY DEF Switch, history
<1>2. IInv
  BY DEF QInv
<1>3. /\ pc'[t] = AfterSwitch(pc[t])
      /\ \A u \in Threads \cup {Consumer} : u # t => pc'[u] = pc[u]
  BY <1>1, <1>2, OthersStay
<1>4. pc'[Consumer] = pc[Consumer]
  BY <1>3
<1>5. ~Turned /\ Turned'
  BY <1>1, <1>2, <1>3, OneHolds DEF Turned, AfterSwitch
<1>6. \A u \in Threads : Big(u)' <=> Big(u)
  <2>1. Big(t)' <=> Big(t)
    BY <1>1, <1>3 DEF Big, AfterSwitch
  <2>2. QED
    BY <2>1, <1>3 DEF Big
<1>7. NextBuffer \in Int
  BY <1>2, NextIsOther DEF IInv, TypeOK
<1>8. /\ InBuffer = 0 /\ InBuffer' = 0 /\ Borrowed' = Borrowed /\ InHand' = InHand
      /\ Start' = Start
  BY <1>1, <1>4, <1>5, <1>6, <1>7 DEF InBuffer, Borrowed, InHand, Start, Held
<1>9. PICK h \in Nat, f \in Nat : Rows(h, f)
  BY DEF QInv, RowsInv
<1>10. f = 0
  BY <1>8, <1>9, NoRecords DEF Rows
<1>11. Rows(h, 0)'
  <2>1. InHand' = h * RecordSize /\ InBuffer' = 0 * RecordSize /\ written' = delivered' + h + 0
    BY <1>1, <1>8, <1>9, <1>10 DEF Rows
  <2>2. \A k \in 0 .. h - 1 :
          Whole(mem, Start + k * RecordSize, delivered + 1 + k,
                consumer_arg.begin, consumer_arg.begin + BufferSize, Borrowed)'
    BY <1>1, <1>8, <1>9 DEF Rows
  <2>3. \A k \in 0 .. 0 - 1 : FALSE
    OBVIOUS
  <2>4. QED
    BY <2>1, <2>2, <2>3 DEF Rows
<1>12. QED
  BY <1>1, <1>4, <1>8, <1>11 DEF QInv, RowsInv, ReadInv, Held

(* The record stored is the next one of the row in the buffer.             *)
LEMMA StoreRows ==
  ASSUME QInv, NEW t \in Threads, Store(t)
  PROVE  /\ RowsInv' /\ ReadInv' /\ ~damaged'
         /\ InBuffer' = InBuffer + RecordSize
<1> DEFINE r == Reserve(data[t])
           n == written + 1
           d == DataAt(t)
<1>1. /\ pc[t] = "store" /\ pc' = [pc EXCEPT ![t] = StoreNext(t)]
      /\ UNCHANGED <<buffer_begin, consumer_arg, asleep, at, delivered, damaged, before>>
      /\ record_ptr' = record_ptr + RecordSize /\ data_ptr' = data_ptr - r /\ written' = n
      /\ mem' = [a \in Addresses |->
           IF a \in record_ptr .. record_ptr + RecordSize - 1 THEN <<n, d, r>>
           ELSE IF a \in data_ptr - r .. data_ptr - 1 THEN <<n>> ELSE mem[a]]
  BY DEF Store, Goto
<1>2. IInv
  BY DEF QInv
<1>3. /\ pc'[t] = StoreNext(t)
      /\ \A u \in Threads \cup {Consumer} : u # t => pc'[u] = pc[u]
  BY <1>1, <1>2, OthersStay
<1>4. pc'[Consumer] = pc[Consumer]
  BY <1>3
<1>5. \A u \in Threads : u # t => pc[u] \notin Holding
  BY <1>1, <1>2, OneHolds
<1>6. Turned /\ Turned'
  BY <1>1, <1>3, <1>5 DEF Turned, StoreNext
<1>7. Borrowed = 0
  BY <1>1, <1>5 DEF Borrowed, Big
<1>8. Borrowed' = IF d = Outside THEN n ELSE 0
  <2>1. \A u \in Threads : u # t => ~Big(u)'
    BY <1>3, <1>5 DEF Big
  <2>2. Big(t)' <=> d = Outside
    BY <1>3 DEF Big, StoreNext
  <2>3. QED
    BY <1>1, <2>1, <2>2 DEF Borrowed
<1>9. /\ buffer_begin \in Nat /\ record_ptr \in Nat /\ data_ptr \in Nat
      /\ buffer_end = buffer_begin + BufferSize /\ buffer_end <= PoolSize
      /\ written \in Nat /\ delivered \in Nat /\ Start \in Nat /\ consumer_arg.end \in Nat
      /\ consumer_arg.begin \in Nat
      /\ consumer_arg.begin # Null => consumer_arg.begin \in {0, BufferSize}
  BY <1>2, Numbering
<1>10. r \in 0 .. BufferSize - RecordSize
  BY <1>2, ReserveBound DEF IInv, TypeOK
<1>11. record_ptr + RecordSize <= data_ptr - r /\ data_ptr <= buffer_end
       /\ buffer_begin <= record_ptr
  BY <1>1, <1>2 DEF IInv, RoomInv, PointerInv
<1>12. d = IF r # 0 THEN data_ptr - r ELSE IF data[t] = NoData THEN Nowhere ELSE Outside
  BY DEF DataAt
<1> HIDE DEF r, d
<1>13. Addresses = 0 .. PoolSize - 1 /\ PoolSize = 2 * BufferSize /\ Nowhere = PoolSize
       /\ Outside = PoolSize + 1
  BY DEF Addresses, PoolSize, Nowhere, Outside
<1>14. PICK h \in Nat, f \in Nat : Rows(h, f)
  BY DEF QInv, RowsInv
<1>15. /\ InHand = h * RecordSize /\ InBuffer = f * RecordSize /\ written = delivered + h + f
       /\ InBuffer = record_ptr - buffer_begin
  BY <1>6, <1>14 DEF Rows, InBuffer
<1>16. /\ InHand' = InHand /\ Start' = Start /\ buffer_end' = buffer_end
       /\ InBuffer' = InBuffer + RecordSize
  BY <1>1, <1>4, <1>6, <1>9 DEF InHand, Start, InBuffer, Held, buffer_end
<1>17. /\ \A i \in 0 .. RecordSize - 1 : mem'[record_ptr + i] = <<n, d, r>>
       /\ \A i \in 0 .. r - 1 : mem'[data_ptr - r + i] = <<n>>
       /\ \A c \in Int : 0 <= c /\ c < record_ptr => mem'[c] = mem[c]
       /\ \A c \in Int : data_ptr <= c /\ c < PoolSize => mem'[c] = mem[c]
  BY <1>1, <1>9, <1>10, <1>11, <1>13
<1>18. \A k \in 0 .. h - 1 :
         Whole(mem', Start + k * RecordSize, delivered + 1 + k,
               consumer_arg.begin, consumer_arg.begin + BufferSize, Borrowed')
  <2> SUFFICES ASSUME NEW k \in 0 .. h - 1
               PROVE  Whole(mem', Start + k * RecordSize, delivered + 1 + k,
                            consumer_arg.begin, consumer_arg.begin + BufferSize, Borrowed')
    OBVIOUS
  <2>1. Whole(mem, Start + k * RecordSize, delivered + 1 + k,
              consumer_arg.begin, consumer_arg.begin + BufferSize, Borrowed)
    BY <1>14 DEF Rows
  <2>2. k \in Nat /\ k < h /\ k * RecordSize \in Nat
        /\ k * RecordSize + RecordSize <= h * RecordSize
    BY Times
  <2>3. Held /\ consumer_arg.end - Start = h * RecordSize
    BY <1>15, <2>2 DEF InHand
  <2>4. /\ consumer_arg.begin <= Start /\ consumer_arg.begin \in {0, BufferSize}
        /\ consumer_arg.end <= consumer_arg.begin + BufferSize
        /\ consumer_arg.begin # buffer_begin
    BY <1>2, <1>6, <1>9, <2>3 DEF IInv, HandInv, Held, Start, QInv, ReadInv
  <2>5. buffer_begin \in {0, BufferSize}
    BY <1>2 DEF IInv, TypeOK
  <2>6. \A c \in Int : consumer_arg.begin <= c /\ c < consumer_arg.begin + BufferSize =>
          mem'[c] = mem[c]
    BY <1>9, <1>11, <1>13, <1>17, <2>4, <2>5
  <2>7. \A i \in 0 .. RecordSize - 1 :
          mem'[Start + k * RecordSize + i] = mem[Start + k * RecordSize + i]
    <3> SUFFICES ASSUME NEW i \in 0 .. RecordSize - 1
                 PROVE  mem'[Start + k * RecordSize + i] = mem[Start + k * RecordSize + i]
      OBVIOUS
    <3> DEFINE c == Start + k * RecordSize + i
    <3>1. c \in Int /\ consumer_arg.begin <= c /\ c < consumer_arg.begin + BufferSize
      BY <1>9, <2>2, <2>3, <2>4
    <3>2. QED
      BY <2>6, <3>1
  <2>8. Start + k * RecordSize \in Int /\ delivered + 1 + k # 0
    BY <1>9, <2>2
  <2>9. QED
    BY <1>7, <1>9, <2>1, <2>6, <2>7, <2>8, WholeKept
<1>19. \A k \in 0 .. f - 1 :
         Whole(mem', buffer_begin + k * RecordSize, delivered + h + 1 + k,
               data_ptr - r, buffer_end, Borrowed')
  <2> SUFFICES ASSUME NEW k \in 0 .. f - 1
               PROVE  Whole(mem', buffer_begin + k * RecordSize, delivered + h + 1 + k,
                            data_ptr - r, buffer_end, Borrowed')
    OBVIOUS
  <2>1. Whole(mem, buffer_begin + k * RecordSize, delivered + h + 1 + k,
              data_ptr, buffer_end, Borrowed)
    BY <1>14 DEF Rows
  <2>2. k \in Nat /\ k < f /\ k * RecordSize \in Nat
        /\ k * RecordSize + RecordSize <= f * RecordSize
    BY Times
  <2>3. \A c \in Int : data_ptr <= c /\ c < buffer_end => mem'[c] = mem[c]
    BY <1>9, <1>13, <1>17
  <2>4. \A i \in 0 .. RecordSize - 1 :
          mem'[buffer_begin + k * RecordSize + i] = mem[buffer_begin + k * RecordSize + i]
    <3> SUFFICES ASSUME NEW i \in 0 .. RecordSize - 1
                 PROVE  mem'[buffer_begin + k * RecordSize + i]
                          = mem[buffer_begin + k * RecordSize + i]
      OBVIOUS
    <3> DEFINE c == buffer_begin + k * RecordSize + i
    <3>1. c \in Int /\ 0 <= c /\ c < record_ptr
      BY <1>9, <1>15, <2>2
    <3>2. QED
      BY <1>17, <3>1
  <2>5. buffer_begin + k * RecordSize \in Int /\ delivered + h + 1 + k # 0
        /\ data_ptr - r \in Int /\ data_ptr - r <= data_ptr /\ buffer_end \in Int
    BY <1>9, <1>10, <2>2
  <2> DEFINE a == buffer_begin + k * RecordSize
             m == delivered + h + 1 + k
             lo == data_ptr - r
  <2>6. /\ Whole(mem, a, m, data_ptr, buffer_end, Borrowed) /\ a \in Int /\ lo \in Int
        /\ data_ptr \in Int /\ buffer_end \in Int /\ lo <= data_ptr
        /\ m = Borrowed => m = Borrowed'
        /\ \A i \in 0 .. RecordSize - 1 : mem'[a + i] = mem[a + i]
    BY <1>7, <1>9, <2>1, <2>4, <2>5
  <2> HIDE DEF a, m, lo
  <2>7. Whole(mem', a, m, lo, buffer_end, Borrowed')
    BY <2>3, <2>6, WholeKept
  <2>8. QED
    BY <2>7 DEF a, m, lo
<1>20. Whole(mem', record_ptr, n, data_ptr - r, buffer_end, Borrowed')
  <2>1. d \in 0 .. Outside /\ r \in 0 .. BufferSize
    BY <1>9, <1>10, <1>11, <1>12, <1>13
  <2>2. CASE r # 0
    <3>1. /\ data_ptr - r <= d /\ d < buffer_end /\ d + r <= buffer_end
          /\ \A i \in 0 .. r - 1 : mem'[d + i] = <<n>>
      BY <1>9, <1>10, <1>11, <1>12, <1>17, <2>2
    <3>2. QED
      BY <1>17, <2>1, <3>1 DEF Whole
  <2>3. CASE r = 0
    <3>1. d = Nowhere \/ d = Outside
      BY <1>12, <2>3
    <3>2. CASE d = Nowhere
      BY <1>17, <2>1, <3>2 DEF Whole
    <3>3. CASE d = Outside
      <4>1. n = Borrowed'
        BY <1>8, <3>3
      <4>2. QED
        BY <1>17, <2>1, <3>3, <4>1 DEF Whole
    <3>4. QED
      BY <3>1, <3>2, <3>3
  <2>4. QED
    BY <2>2, <2>3
<1>21. \A k \in 0 .. (f + 1) - 1 :
         Whole(mem', buffer_begin + k * RecordSize, delivered + h + 1 + k,
               data_ptr - r, buffer_end, Borrowed')
  <2> SUFFICES ASSUME NEW k \in 0 .. f
               PROVE  Whole(mem', buffer_begin + k * RecordSize, delivered + h + 1 + k,
                            data_ptr - r, buffer_end, Borrowed')
    OBVIOUS
  <2>1. CASE k = f
    <3>1. buffer_begin + k * RecordSize = record_ptr /\ delivered + h + 1 + k = n
      BY <1>9, <1>15, <2>1
    <3>2. QED
      BY <1>20, <3>1
  <2>2. CASE k # f
    BY <1>19, <2>2
  <2>3. QED
    BY <2>1, <2>2
<1>22. Rows(h, f + 1)'
  <2>1. /\ InHand' = h * RecordSize /\ InBuffer' = (f + 1) * RecordSize
        /\ written' = delivered' + h + (f + 1)
    BY <1>1, <1>9, <1>15, <1>16, Times
  <2>2. \A k \in 0 .. h - 1 :
          Whole(mem, Start + k * RecordSize, delivered + 1 + k,
                consumer_arg.begin, consumer_arg.begin + BufferSize, Borrowed)'
    BY <1>1, <1>16, <1>18
  <2>3. \A k \in 0 .. (f + 1) - 1 :
          Whole(mem, buffer_begin + k * RecordSize, delivered + h + 1 + k,
                data_ptr, buffer_end, Borrowed)'
    BY <1>1, <1>16, <1>21
  <2>4. QED
    BY <2>1, <2>2, <2>3 DEF Rows
<1>23. QED
  BY <1>1, <1>4, <1>16, <1>22 DEF QInv, RowsInv, ReadInv, Held

(* Nothing is in hand and nothing in the buffer: all has been consumed.    *)
LEMMA NothingLeft ==
  ASSUME QInv, ~consumer_arg.valid, record_ptr = buffer_begin
  PROVE  written = delivered /\ InBuffer = 0
<1>1. PICK f \in Nat : Rows(0, f)
  BY NothingHeld
<1>2. buffer_begin \in Nat /\ written \in Nat /\ delivered \in Nat
  BY Numbering DEF QInv
<1>3. InBuffer = 0
  BY <1>2 DEF InBuffer
<1>4. f = 0
  BY <1>1, <1>3, NoRecords DEF Rows
<1>5. QED
  BY <1>1, <1>2, <1>3, <1>4 DEF Rows

(* The data kept for the consumer is not needed any more.                  *)
LEMMA WriteReturnsRows ==
  ASSUME QInv, NEW t \in Threads, WriteReturns(t)
  PROVE  RowsInv' /\ ReadInv' /\ ~damaged' /\ InBuffer' = 0
<1>1. /\ pc[t] = "big_wait" /\ pc' = [pc EXCEPT ![t] = "idle"] /\ ~consumer_arg.valid
      /\ UNCHANGED <<buffer_begin, record_ptr, data_ptr, consumer_arg, at, mem,
                     written, delivered, damaged>>
  BY DEF WriteReturns, Goto, Predicate, Threads, buffers, history
<1>2. IInv
  BY DEF QInv
<1>3. pc'[Consumer] = pc[Consumer]
  BY <1>1, <1>2, OthersStay
<1>4. record_ptr = buffer_begin /\ buffer_begin \in Nat /\ delivered \in Nat
  BY <1>1, <1>2, Numbering DEF QInv, EmptyInv
<1>5. written = delivered
  BY <1>1, <1>4, NothingLeft
<1>6. InHand' = 0 /\ InBuffer' = 0
  BY <1>1, <1>4 DEF InHand, InBuffer, Held
<1>7. Rows(0, 0)'
  <2>1. \A k \in 0 .. 0 - 1 : FALSE
    OBVIOUS
  <2>2. /\ InHand' = 0 * RecordSize /\ InBuffer' = 0 * RecordSize
        /\ written' = delivered' + 0 + 0
    BY <1>1, <1>4, <1>5, <1>6
  <2>3. QED
    BY <2>1, <2>2 DEF Rows
<1>8. ReadInv' /\ ~damaged'
  BY <1>1, <1>3 DEF QInv, ReadInv, Held
<1>9. QED
  BY <1>6, <1>7, <1>8 DEF RowsInv

(* Where the threads are for the invariants does not change when only the  *)
(* consumer moves.                                                         *)
LEMMA ConsumerOnly ==
  ASSUME IInv, UNCHANGED <<buffer_begin, record_ptr, written>>,
         pc' = pc \/ \E l : pc' = [pc EXCEPT ![Consumer] = l]
  PROVE  /\ \A t \in Threads : pc'[t] = pc[t]
         /\ InBuffer' = InBuffer /\ Borrowed' = Borrowed /\ buffer_end' = buffer_end
<1>1. Consumer \notin Threads
  OBVIOUS
<1>2. \A t \in Threads : pc'[t] = pc[t]
  BY <1>1, OthersStay
<1>3. Turned' <=> Turned
  BY <1>2 DEF Turned
<1>4. \A t \in Threads : Big(t)' <=> Big(t)
  BY <1>2 DEF Big
<1>5. QED
  BY <1>2, <1>3, <1>4 DEF InBuffer, Borrowed, buffer_end

LEMMA TakeRows ==
  ASSUME QInv, Take
  PROVE  RowsInv' /\ ReadInv' /\ ~damaged'
<1>1. /\ pc[Consumer] = "wait" /\ pc' = [pc EXCEPT ![Consumer] = "read"]
      /\ consumer_arg.valid /\ consumer_arg.begin # Null /\ at' = consumer_arg.begin
      /\ UNCHANGED <<buffer_begin, record_ptr, data_ptr, consumer_arg, mem,
                     written, delivered, damaged>>
  BY DEF Take, Goto, Predicate, buffers, history
<1>2. IInv
  BY DEF QInv
<1>3. pc'[Consumer] = "read"
  BY <1>1, <1>2, OthersStay
<1>4. InBuffer' = InBuffer /\ Borrowed' = Borrowed /\ buffer_end' = buffer_end
  BY <1>1, <1>2, ConsumerOnly
<1>5. Start' = Start /\ InHand' = InHand /\ Held'
  BY <1>1, <1>3 DEF Start, InHand, Held
<1>6. PICK h \in Nat, f \in Nat : Rows(h, f)
  BY DEF QInv, RowsInv
<1>7. Rows(h, f)'
  BY <1>1, <1>4, <1>5, <1>6 DEF Rows
<1>8. consumer_arg.begin <= at'
  BY <1>1, <1>2, Numbering
<1>9. QED
  BY <1>1, <1>3, <1>5, <1>7, <1>8 DEF RowsInv, ReadInv, QInv

(* A whole record is what the callback expects.                            *)
LEMMA WholeIsIntact ==
  ASSUME QInv, NEW a \in Int, NEW lo \in Int, NEW hi \in Int, hi <= PoolSize,
         Whole(mem, a, delivered + 1, lo, hi, Borrowed)
  PROVE  Intact(a)
<1>1. PICK d \in 0 .. Outside, r \in 0 .. BufferSize :
        /\ \A i \in 0 .. RecordSize - 1 : mem[a + i] = <<delivered + 1, d, r>>
        /\ \/ d = Nowhere
           \/ d = Outside /\ delivered + 1 = Borrowed
           \/ lo <= d /\ d < hi /\ d + r <= hi
              /\ \A i \in 0 .. r - 1 : mem[d + i] = <<delivered + 1>>
  BY DEF Whole
<1>2. delivered \in Nat /\ delivered + 1 # 0
  BY Numbering DEF QInv
<1>3. mem[a] = <<delivered + 1, d, r>>
  BY <1>1, a + 0 = a
<1>4. /\ Len(mem[a]) = 3 /\ mem[a][1] = delivered + 1 /\ mem[a][2] = d /\ mem[a][3] = r
      /\ \A i \in 1 .. RecordSize - 1 : mem[a + i] = mem[a]
  BY <1>1, <1>3
<1>5. CASE d = Nowhere
  BY <1>4, <1>5 DEF Intact
<1>6. CASE d = Outside /\ delivered + 1 = Borrowed
  <2>1. LeftOutside(delivered + 1)
    BY <1>2, <1>6 DEF LeftOutside, Borrowed, Big
  <2>2. QED
    BY <1>4, <1>6, <2>1 DEF Intact
<1>7. CASE lo <= d /\ d < hi /\ d + r <= hi
           /\ \A i \in 0 .. r - 1 : mem[d + i] = <<delivered + 1>>
  <2>1. d < PoolSize
    BY <1>7 DEF Outside, PoolSize
  <2>2. QED
    BY <1>4, <1>7, <2>1 DEF Intact
<1>8. QED
  BY <1>1, <1>5, <1>6, <1>7

LEMMA ReadRows ==
  ASSUME QInv, Read
  PROVE  /\ RowsInv' /\ ReadInv' /\ ~damaged'
         /\ delivered < written
<1>1. /\ pc[Consumer] = "read" /\ at # consumer_arg.end
      /\ damaged' = (damaged \/ ~Intact(at))
      /\ delivered' = delivered + 1 /\ at' = at + RecordSize
      /\ UNCHANGED <<pc, buffer_begin, record_ptr, data_ptr, consumer_arg, mem, written>>
  BY DEF Read, buffers
<1>2. IInv
  BY DEF QInv
<1>3. InBuffer' = InBuffer /\ Borrowed' = Borrowed /\ buffer_end' = buffer_end
  BY <1>1, <1>2, ConsumerOnly
<1>4. /\ Held /\ consumer_arg.begin <= at /\ at \in Nat /\ consumer_arg.end \in Nat
      /\ consumer_arg.begin \in {0, BufferSize} /\ written \in Nat /\ delivered \in Nat
  BY <1>1, <1>2, Numbering DEF QInv, ReadInv, Held
<1>5. Start = at /\ InHand = consumer_arg.end - at
  BY <1>1, <1>4 DEF Start, InHand
<1>6. Start' = at + RecordSize /\ InHand' = InHand - RecordSize
  BY <1>1, <1>4, <1>5 DEF Start, InHand, Held
<1>7. PICK h \in Nat, f \in Nat : Rows(h, f)
  BY DEF QInv, RowsInv
<1>8. h # 0
  <2>1. 0 * RecordSize = 0
    OBVIOUS
  <2>2. QED
    BY <1>1, <1>4, <1>5, <1>7, <2>1 DEF Rows
<1>9. delivered < written
  BY <1>4, <1>7, <1>8 DEF Rows
<1>10. Intact(at)
  <2>1. 0 \in 0 .. h - 1
    BY <1>8
  <2>2. Whole(mem, Start + 0 * RecordSize, delivered + 1 + 0,
              consumer_arg.begin, consumer_arg.begin + BufferSize, Borrowed)
    BY <1>7, <2>1 DEF Rows
  <2>3. Start + 0 * RecordSize = at /\ delivered + 1 + 0 = delivered + 1
    BY <1>4, <1>5
  <2>4. consumer_arg.begin \in Int /\ consumer_arg.begin + BufferSize \in Int
        /\ consumer_arg.begin + BufferSize <= PoolSize
    BY <1>4 DEF PoolSize
  <2>5. QED
    BY <1>4, <2>2, <2>3, <2>4, WholeIsIntact
<1>11. Rows(h - 1, f)'
  <2>1. h * RecordSize = (h - 1) * RecordSize + RecordSize /\ (h - 1) * RecordSize \in Nat
    BY <1>8, Times, h - 1 \in Nat, (h - 1) + 1 = h
  <2>2. /\ InHand' = (h - 1) * RecordSize /\ InBuffer' = f * RecordSize
        /\ written' = delivered' + (h - 1) + f
    BY <1>1, <1>3, <1>4, <1>6, <1>7, <2>1 DEF Rows
  <2>3. \A k \in 0 .. (h - 1) - 1 :
          Whole(mem, Start + k * RecordSize, delivered + 1 + k,
                consumer_arg.begin, consumer_arg.begin + BufferSize, Borrowed)'
    <3> SUFFICES ASSUME NEW k \in 0 .. (h - 1) - 1
                 PROVE  Whole(mem, at + RecordSize + k * RecordSize, delivered + 1 + 1 + k,
                              consumer_arg.begin, consumer_arg.begin + BufferSize, Borrowed)
      BY <1>1, <1>3, <1>6
    <3>1. k \in Nat /\ k + 1 \in 0 .. h - 1
      OBVIOUS
    <3>2. Whole(mem, Start + (k + 1) * RecordSize, delivered + 1 + (k + 1),
                consumer_arg.begin, consumer_arg.begin + BufferSize, Borrowed)
      BY <1>7, <3>1 DEF Rows
    <3>3. /\ Start + (k + 1) * RecordSize = at + RecordSize + k * RecordSize
          /\ delivered + 1 + (k + 1) = delivered + 1 + 1 + k
      BY <1>4, <1>5, <3>1, Times
    <3>4. QED
      BY <3>2, <3>3
  <2>4. \A k \in 0 .. f - 1 :
          Whole(mem, buffer_begin + k * RecordSize, delivered + (h - 1) + 1 + k,
                data_ptr, buffer_end, Borrowed)'
    <3>1. \A k \in 0 .. f - 1 : delivered + 1 + (h - 1) + 1 + k = delivered + h + 1 + k
      BY <1>4
    <3>2. QED
      BY <1>1, <1>3, <1>7, <3>1 DEF Rows
  <2>5. QED
    BY <2>2, <2>3, <2>4 DEF Rows
<1>12. ReadInv'
  BY <1>1, <1>4 DEF QInv, ReadInv, Held
<1>13. QED
  <2>1. ~damaged'
    BY <1>1, <1>10 DEF QInv
  <2>2. RowsInv'
    BY <1>8, <1>11, h - 1 \in Nat DEF RowsInv
  <2>3. QED
    BY <1>9, <1>12, <2>1, <2>2

LEMMA FinishRows ==
  ASSUME QInv, Finish
  PROVE  RowsInv' /\ ReadInv' /\ ~damaged'
<1>1. /\ pc[Consumer] = "read" /\ pc' = [pc EXCEPT ![Consumer] = "wait"]
      /\ at = consumer_arg.end /\ consumer_arg' = [consumer_arg EXCEPT !.valid = FALSE]
      /\ UNCHANGED <<buffer_begin, record_ptr, data_ptr, mem, written, delivered, damaged>>
  BY DEF Finish, Goto, buffers, history
<1>2. IInv
  BY DEF QInv
<1>3. pc'[Consumer] = "wait"
  BY <1>1, <1>2, OthersStay
<1>4. InBuffer' = InBuffer /\ Borrowed' = Borrowed /\ buffer_end' = buffer_end
  BY <1>1, <1>2, ConsumerOnly
<1>5. at \in Nat /\ delivered \in Nat
  BY <1>2, Numbering
<1>6. InHand = 0
  BY <1>1, <1>5 DEF InHand, Start
<1>7. ~Held' /\ InHand' = 0
  BY <1>1, <1>2 DEF Held, InHand, IInv, TypeOK
<1>8. PICK h \in Nat, f \in Nat : Rows(h, f)
  BY DEF QInv, RowsInv
<1>9. h = 0
  BY <1>6, <1>8, NoRecords DEF Rows
<1>10. Rows(0, f)'
  <2>1. InHand' = 0 * RecordSize /\ InBuffer' = f * RecordSize /\ written' = delivered' + 0 + f
    BY <1>1, <1>4, <1>7, <1>8, <1>9 DEF Rows
  <2>2. \A k \in 0 .. f - 1 :
          Whole(mem, buffer_begin + k * RecordSize, delivered + 0 + 1 + k,
                data_ptr, buffer_end, Borrowed)'
    BY <1>1, <1>4, <1>8, <1>9 DEF Rows
  <2>3. \A k \in 0 .. 0 - 1 : FALSE
    OBVIOUS
  <2>4. QED
    BY <2>1, <2>2, <2>3 DEF Rows
<1>11. QED
  BY <1>1, <1>3, <1>10 DEF QInv, RowsInv, ReadInv

(* Calls, locks and waits touch no row.                                    *)
LEMMA CallsRows ==
  ASSUME QInv, NEW t \in Threads, NEW d,
         \/ CallWrite(t, d) \/ CallFlush(t) \/ LockWrite(t) \/ FlushNothing(t) \/ LockFlush(t)
         \/ FlushReturns(t) \/ Join(t)
  PROVE  /\ RowsInv' /\ ReadInv' /\ ~damaged'
         /\ InBuffer' = InBuffer /\ pc'[t] # "big_wait" /\ pc'[t] # "flush_wait"
         /\ pc' = [pc EXCEPT ![t] = pc'[t]]
<1>1. IInv
  BY DEF QInv
<1>2. /\ pc[t] \in {"idle", "write", "flush", "flush_wait", "join"}
      /\ pc' = [pc EXCEPT ![t] = pc'[t]]
      /\ pc'[t] \in {"write", "flush", "full_notify", "store", "idle", "exit_notify",
                     "flush_notify", "destroyed"}
  <2>1. pc \in [Threads \cup {Consumer} -> Locations \cup ConsumerLocations]
    BY <1>1 DEF IInv, TypeOK
  <2>2. QED
    BY <2>1 DEF CallWrite, CallFlush, LockWrite, FlushNothing, LockFlush, FlushReturns, Join, Goto,
           AfterFlush
<1>3. UNCHANGED <<buffer_begin, record_ptr, data_ptr, consumer_arg, at, mem, written,
                  delivered, damaged>>
  BY DEF CallWrite, CallFlush, LockWrite, FlushNothing, LockFlush, FlushReturns, Join,
         buffers, history
<1>4. \A u \in Threads \cup {Consumer} : u # t => pc'[u] = pc[u]
  BY <1>1, <1>2, OthersStay
<1>5. pc'[Consumer] = pc[Consumer]
  BY <1>4
<1>6. \A u \in Threads : (pc'[u] \in Switching <=> pc[u] \in Switching) /\ (Big(u)' <=> Big(u))
  BY <1>2, <1>4 DEF Big
<1>7. RowsInv' /\ ReadInv' /\ ~damaged'
  <2>1. \A u \in Threads : pc'[u] \in Switching <=> pc[u] \in Switching
    BY <1>6
  <2>2. \A u \in Threads : Big(u)' <=> Big(u)
    BY <1>6
  <2>3. pc'[Consumer] = pc[Consumer] \/ (pc[Consumer] = "wait" /\ pc'[Consumer] = "exited")
    BY <1>5
  <2>4. QED
    BY <1>3, <2>1, <2>2, <2>3, RowsStill, Zenon
<1>8. InBuffer' = InBuffer
  BY <1>3, <1>6 DEF InBuffer, Turned
<1>9. QED
  BY <1>2, <1>7, <1>8

(* Others are in a call only while the destructor has not been called.     *)
LEMMA OwnerAlone ==
  ASSUME QInv, NEW t \in Threads, t # Owner, pc[t] # "idle"
  PROVE  pc[Owner] = "idle"
  BY DEF QInv, OwnerInv, Threads

LEMMA OwnerKept ==
  ASSUME QInv, NEW t \in Threads, NEW d,
         (t \in Producers /\ CallWrite(t, d)) \/ CallFlush(t) \/ Step(t)
  PROVE  OwnerInv'
<1>1. IInv
  BY DEF QInv
<1>2. pc \in [Threads \cup {Consumer} -> Locations \cup ConsumerLocations]
  BY <1>1 DEF IInv, TypeOK
<1>3. CASE t # Owner
  <2>1. pc[Owner] = "idle"
    <3>1. CASE CallWrite(t, d) \/ CallFlush(t)
      BY <3>1 DEF CallWrite, CallFlush
    <3>2. CASE Step(t)
      <4>1. pc[t] # "idle"
        BY <3>2 DEF Step, LockWrite, FlushNothing, LockFlush, Sleep, Notify, Switch, Store,
               WriteReturns, FlushReturns, Join, Goto, Looks, Waits
      <4>2. QED
        BY <1>3, <4>1, OwnerAlone
    <3>3. QED
      BY <3>1, <3>2
  <2>2. pc' = [pc EXCEPT ![t] = pc'[t]]
    BY <1>2 DEF CallWrite, CallFlush, Step, LockWrite, FlushNothing, LockFlush, Sleep, Notify,
           Switch, Store, WriteReturns, FlushReturns, Join, Goto
  <2>3. pc'[Owner] = "idle"
    BY <1>1, <1>3, <2>1, <2>2, OthersStay DEF Threads
  <2>4. QED
    BY <2>3 DEF OwnerInv
<1>4. CASE t = Owner
  <2>1. t \notin Producers
    BY <1>4
  <2>2. /\ pc[t] \in {"idle", "flush", "flush_notify", "flush_switch", "flush_wait",
                      "exit_notify", "join", "destroyed"}
        /\ pc[t] # "idle" => \A p \in Producers : pc[p] = "idle"
        /\ pc[t] \in {"flush_wait", "exit_notify", "join", "destroyed"} =>
             record_ptr = buffer_begin
        /\ pc[t] \in {"join", "destroyed"} => delivered = written
    BY <1>4 DEF QInv, OwnerInv
  <2>3. ASSUME NEW l, pc' = [pc EXCEPT ![t] = l], \A p \in Producers : pc[p] = "idle"
        PROVE  pc'[Owner] = l /\ \A p \in Producers : pc'[p] = "idle"
    BY <1>1, <1>4, <2>1, <2>3, OthersStay DEF Threads
  <2>4. CASE CallFlush(t)
    <3>1. pc' = [pc EXCEPT ![t] = "flush"] /\ \A p \in Producers : pc[p] = "idle"
      BY <1>4, <2>4 DEF CallFlush, Goto
    <3>2. QED
      BY <2>3, <3>1 DEF OwnerInv
  <2>5. CASE FlushNothing(t) \/ FlushReturns(t)
    <3>1. /\ pc' = [pc EXCEPT ![t] = "exit_notify"] /\ record_ptr = buffer_begin
          /\ pc[t] # "idle" /\ UNCHANGED <<buffer_begin, record_ptr>>
      BY <1>4, <2>2, <2>5 DEF FlushNothing, FlushReturns, Goto, AfterFlush, buffers
    <3>2. QED
      BY <2>2, <2>3, <3>1 DEF OwnerInv
  <2>6. CASE LockFlush(t)
    <3>1. pc' = [pc EXCEPT ![t] = "flush_notify"] /\ pc[t] # "idle"
      BY <2>6 DEF LockFlush, Goto
    <3>2. QED
      BY <2>2, <2>3, <3>1 DEF OwnerInv
  <2>7. CASE Sleep(t)
    <3>1. UNCHANGED <<pc, buffer_begin, record_ptr, delivered, written>>
      BY <2>7 DEF Sleep, buffers, history
    <3>2. QED
      BY <3>1 DEF QInv, OwnerInv
  <2>8. CASE Notify(t)
    <3>1. /\ pc' = [pc EXCEPT ![t] = AfterNotify(pc[t])]
          /\ pc[t] \in {"flush_notify", "exit_notify"}
          /\ ~consumer_arg.valid
          /\ UNCHANGED <<buffer_begin, record_ptr, delivered, written>>
      BY <2>2, <2>8 DEF Notify, Predicate, buffers, history
    <3>2. pc'[Owner] = AfterNotify(pc[t]) /\ \A p \in Producers : pc'[p] = "idle"
      BY <2>2, <2>3, <3>1
    <3>3. CASE pc[t] = "flush_notify"
      BY <3>2, <3>3 DEF OwnerInv, AfterNotify
    <3>4. CASE pc[t] = "exit_notify"
      <4>1. delivered = written /\ record_ptr = buffer_begin
        BY <2>2, <3>1, <3>4, NothingLeft
      <4>2. QED
        BY <3>1, <3>2, <3>4, <4>1 DEF OwnerInv, AfterNotify
    <3>5. QED
      BY <3>1, <3>3, <3>4
  <2>9. CASE Switch(t)
    <3>1. /\ pc[t] = "flush_switch" /\ pc' = [pc EXCEPT ![t] = "flush_wait"]
          /\ record_ptr' = buffer_begin'
      BY <2>2, <2>9 DEF Switch, AfterSwitch
    <3>2. QED
      BY <2>2, <2>3, <3>1 DEF OwnerInv
  <2>10. CASE Join(t)
    <3>1. /\ pc[t] = "join" /\ pc' = [pc EXCEPT ![t] = "destroyed"]
          /\ UNCHANGED <<buffer_begin, record_ptr, delivered, written>>
      BY <2>10 DEF Join, Goto, buffers, history
    <3>2. QED
      BY <2>2, <2>3, <3>1 DEF OwnerInv
  <2>11. ~LockWrite(t) /\ ~Store(t) /\ ~WriteReturns(t)
    BY <2>2 DEF LockWrite, Store, WriteReturns, Goto
  <2>12. QED
    BY <2>1, <2>4, <2>5, <2>6, <2>7, <2>8, <2>9, <2>10, <2>11 DEF Step
<1>5. QED
  BY <1>3, <1>4

(* Sleeping and waking up, and the end of the consumer.                    *)
LEMMA QuietKeeps ==
  ASSUME QInv, UNCHANGED vars \/ Exit \/ \E t \in Threads \cup {Consumer} : Sleep(t) \/ Wake(t)
  PROVE  RowsInv' /\ ReadInv' /\ ~damaged' /\ EmptyInv' /\ FlushInv' /\ OwnerInv'
<1>1. IInv
  BY DEF QInv
<1>2. UNCHANGED <<buffer_begin, record_ptr, data_ptr, consumer_arg, at, mem, written,
                  delivered, damaged, before>>
  BY DEF Sleep, Wake, Exit, vars, buffers, history
<1>3. pc' = pc \/ (pc[Consumer] = "wait" /\ pc' = [pc EXCEPT ![Consumer] = "exited"])
  <2>1. CASE UNCHANGED vars
    BY <2>1 DEF vars
  <2>2. CASE Exit
    BY <2>2 DEF Exit, Goto
  <2>3. CASE \E t \in Threads \cup {Consumer} : Sleep(t) \/ Wake(t)
    BY <2>3 DEF Sleep, Wake
  <2>4. QED
    BY <2>1, <2>2, <2>3
<1>4. /\ \A t \in Threads : pc'[t] = pc[t]
      /\ InBuffer' = InBuffer
  <2>1. pc' = pc \/ \E l : pc' = [pc EXCEPT ![Consumer] = l]
    BY <1>3
  <2>2. QED
    BY <1>1, <1>2, <2>1, ConsumerOnly
<1>5. pc'[Consumer] = pc[Consumer] \/ (pc[Consumer] = "wait" /\ pc'[Consumer] = "exited")
  BY <1>1, <1>3, OthersStay
<1>6. RowsInv' /\ ReadInv' /\ ~damaged'
  <2>1. \A u \in Threads : pc'[u] \in Switching <=> pc[u] \in Switching
    BY <1>4
  <2>2. \A u \in Threads : Big(u)' <=> Big(u)
    BY <1>4 DEF Big
  <2>3. QED
    BY <1>2, <1>5, <2>1, <2>2, RowsStill, Zenon
<1>7. EmptyInv' /\ FlushInv' /\ OwnerInv'
  BY <1>2, <1>4 DEF QInv, EmptyInv, FlushInv, OwnerInv, Threads
<1>8. QED
  BY <1>6, <1>7

(* The consumer moves.                                                     *)
LEMMA ConsumerKeepsRest ==
  ASSUME QInv, Take \/ Read \/ Finish
  PROVE  EmptyInv' /\ FlushInv' /\ OwnerInv'
<1>1. IInv
  BY DEF QInv
<1>2. /\ UNCHANGED <<buffer_begin, record_ptr, written, before>>
      /\ pc' = pc \/ \E l : pc' = [pc EXCEPT ![Consumer] = l]
  BY DEF Take, Read, Finish, Goto, buffers, history
<1>3. InBuffer' = InBuffer /\ \A t \in Threads : pc'[t] = pc[t]
  BY <1>1, <1>2, ConsumerOnly
<1>4. delivered' = delivered \/ delivered < written
  BY ReadRows DEF Take, Finish, history
<1>5. pc[Owner] \in {"join", "destroyed"} => delivered' = written'
  BY <1>1, <1>2, <1>4, Numbering DEF QInv, OwnerInv
<1>6. QED
  BY <1>2, <1>3, <1>5 DEF QInv, EmptyInv, FlushInv, OwnerInv, Threads

(* What a Flush found is handed over before it waits, and stays so.        *)
LEMMA FlushKept ==
  ASSUME QInv, NEW t \in Threads, pc' = [pc EXCEPT ![t] = pc'[t]],
         pc'[t] = "flush_wait" => pc[t] = "flush_wait" \/ InBuffer' = 0,
         \/ before' = before
         \/ before' = [before EXCEPT ![t] = 0]
         \/ before' = [before EXCEPT ![t] = written] /\ pc'[t] # "flush_wait",
         \/ InBuffer' = 0 /\ written' = written
         \/ InBuffer' = InBuffer /\ written' = written
         \/ InBuffer' = InBuffer + RecordSize /\ written' = written + 1
  PROVE  FlushInv'
<1>1. IInv /\ FlushInv
  BY DEF QInv
<1>2. before \in [Threads -> Nat] /\ written \in Nat
  BY <1>1 DEF IInv, TypeOK
<1>3. InBuffer \in Int
  BY <1>1, Numbering
<1> SUFFICES ASSUME NEW u \in Threads
             PROVE  /\ before'[u] <= written'
                    /\ pc'[u] = "flush_wait" => InBuffer' <= (written' - before'[u]) * RecordSize
  BY DEF FlushInv
<1>4. /\ before[u] \in Nat /\ before[u] <= written
      /\ pc[u] = "flush_wait" => InBuffer <= (written - before[u]) * RecordSize
  BY <1>1, <1>2 DEF FlushInv
<1>5. /\ before'[u] \in Nat /\ before'[u] <= written
      /\ pc'[u] = "flush_wait" => before'[u] <= before[u]
  BY <1>2, <1>4
<1>6. before'[u] <= written'
  BY <1>2, <1>5
<1>7. ASSUME pc'[u] = "flush_wait" PROVE InBuffer' <= (written' - before'[u]) * RecordSize
  <2>1. written' - before'[u] \in Nat /\ (written' - before'[u]) * RecordSize \in Nat
    BY <1>2, <1>5, Times
  <2>2. CASE InBuffer' = 0
    BY <2>1, <2>2
  <2>3. CASE InBuffer' # 0
    <3>1. pc[u] = "flush_wait"
      <4>1. u # t => pc'[u] = pc[u]
        BY <1>1, OthersStay
      <4>2. QED
        BY <1>7, <2>3, <4>1
    <3>2. before'[u] <= before[u]
      BY <1>5, <1>7
    <3>3. PICK j \in Nat : before[u] = before'[u] + j
      <4>1. before[u] - before'[u] \in Nat /\ before[u] = before'[u] + (before[u] - before'[u])
        BY <1>4, <1>5, <3>2
      <4>2. QED
        BY <4>1
    <3>4. PICK m \in Nat : m = written - before[u]
      BY <1>2, <1>4
    <3>5. InBuffer <= m * RecordSize /\ m * RecordSize \in Nat /\ j * RecordSize \in Nat
      BY <1>4, <3>1, <3>4, Times
    <3>6. CASE InBuffer' = InBuffer /\ written' = written
      <4>1. written' - before'[u] = m + j
        BY <1>2, <1>4, <1>5, <3>3, <3>4, <3>6
      <4>2. (m + j) * RecordSize = m * RecordSize + j * RecordSize
        OBVIOUS
      <4>3. QED
        BY <1>3, <3>5, <3>6, <4>1, <4>2
    <3>7. CASE InBuffer' = InBuffer + RecordSize /\ written' = written + 1
      <4>1. written' - before'[u] = m + j + 1
        BY <1>2, <1>4, <1>5, <3>3, <3>4, <3>7
      <4>2. (m + j + 1) * RecordSize = m * RecordSize + j * RecordSize + RecordSize
        OBVIOUS
      <4>3. QED
        BY <1>3, <3>5, <3>7, <4>1, <4>2
    <3>8. QED
      BY <2>3, <3>6, <3>7
  <2>4. QED
    BY <2>2, <2>3
<1>8. QED
  BY <1>6, <1>7

LEMMA EmptyKept ==
  ASSUME QInv, NEW t \in Threads, pc' = [pc EXCEPT ![t] = pc'[t]],
         \/ UNCHANGED <<buffer_begin, record_ptr>> /\ (pc'[t] = "big_wait" => pc' = pc)
         \/ pc[t] \in Holding /\ (pc'[t] = "big_wait" => record_ptr' = buffer_begin')
  PROVE  EmptyInv'
<1> SUFFICES ASSUME NEW u \in Threads, pc'[u] = "big_wait" PROVE record_ptr' = buffer_begin'
  BY DEF EmptyInv
<1>1. IInv /\ EmptyInv
  BY DEF QInv
<1>2. \A v \in Threads \cup {Consumer} : v # t => pc'[v] = pc[v]
  BY <1>1, OthersStay
<1>3. CASE u = t
  BY <1>1, <1>3 DEF EmptyInv
<1>4. CASE u # t
  <2>1. pc[u] = "big_wait"
    BY <1>2, <1>4
  <2>2. pc[t] \notin Holding
    BY <1>1, <1>4, <2>1, OneHolds
  <2>3. QED
    BY <1>1, <2>1, <2>2 DEF EmptyInv
<1>5. QED
  BY <1>3, <1>4

(* One step of a thread.                                                   *)
LEMMA ThreadKeeps ==
  ASSUME QInv, NEW t \in Threads, NEW d,
         (t \in Producers /\ CallWrite(t, d)) \/ CallFlush(t) \/ Step(t)
  PROVE  RowsInv' /\ ReadInv' /\ ~damaged' /\ EmptyInv' /\ FlushInv' /\ OwnerInv'
<1>1. IInv
  BY DEF QInv
<1>2. pc \in [Threads \cup {Consumer} -> Locations \cup ConsumerLocations]
  BY <1>1 DEF IInv, TypeOK
<1>3. OwnerInv'
  BY OwnerKept
<1>4. CASE \/ CallWrite(t, d) \/ CallFlush(t) \/ LockWrite(t) \/ FlushNothing(t) \/ LockFlush(t)
           \/ FlushReturns(t) \/ Join(t)
  <2>1. /\ RowsInv' /\ ReadInv' /\ ~damaged'
        /\ InBuffer' = InBuffer /\ pc'[t] # "big_wait" /\ pc'[t] # "flush_wait"
        /\ pc' = [pc EXCEPT ![t] = pc'[t]]
    BY <1>4, CallsRows
  <2>2. UNCHANGED <<buffer_begin, record_ptr, written>>
    BY <1>4 DEF CallWrite, CallFlush, LockWrite, FlushNothing, LockFlush, FlushReturns, Join,
         buffers, history
  <2>3. \/ before' = before
        \/ before' = [before EXCEPT ![t] = 0]
        \/ before' = [before EXCEPT ![t] = written] /\ pc'[t] # "flush_wait"
    BY <1>4, <2>1 DEF CallWrite, CallFlush, LockWrite, FlushNothing, LockFlush, FlushReturns, Join
  <2>4. EmptyInv'
    BY <2>1, <2>2, EmptyKept
  <2>5. FlushInv'
    BY <2>1, <2>2, <2>3, FlushKept
  <2>6. QED
    BY <1>3, <2>1, <2>4, <2>5
<1>5. CASE Sleep(t)
  <2>1. \E u \in Threads \cup {Consumer} : Sleep(u) \/ Wake(u)
    BY <1>5
  <2>2. QED
    BY <2>1, QuietKeeps
<1>6. CASE Notify(t)
  <2>1. RowsInv' /\ ReadInv' /\ ~damaged' /\ InBuffer' \in {InBuffer, 0}
    BY <1>6, NotifyRows
  <2>2. /\ UNCHANGED <<buffer_begin, record_ptr, written, before>>
        /\ pc' = [pc EXCEPT ![t] = pc'[t]] /\ pc'[t] \in Switching \cup {"join"}
    BY <1>2, <1>6 DEF Notify, AfterNotify, buffers, history
  <2>3. EmptyInv'
    BY <2>2, EmptyKept
  <2>4. FlushInv'
    BY <2>1, <2>2, FlushKept
  <2>5. QED
    BY <1>3, <2>1, <2>3, <2>4
<1>7. CASE Switch(t)
  <2>1. RowsInv' /\ ReadInv' /\ ~damaged' /\ InBuffer' = 0
    BY <1>7, SwitchRows
  <2>2. /\ record_ptr' = buffer_begin' /\ UNCHANGED <<written, before>> /\ pc[t] \in Holding
        /\ pc' = [pc EXCEPT ![t] = pc'[t]]
    BY <1>2, <1>7 DEF Switch, history
  <2>3. EmptyInv'
    BY <2>2, EmptyKept
  <2>4. FlushInv'
    BY <2>1, <2>2, FlushKept
  <2>5. QED
    BY <1>3, <2>1, <2>3, <2>4
<1>8. CASE Store(t)
  <2>1. RowsInv' /\ ReadInv' /\ ~damaged' /\ InBuffer' = InBuffer + RecordSize
    BY <1>8, StoreRows
  <2>2. /\ written' = written + 1 /\ before' = before /\ pc[t] \in Holding
        /\ pc' = [pc EXCEPT ![t] = pc'[t]] /\ pc'[t] \in {"idle", "big_notify"}
    BY <1>2, <1>8 DEF Store, StoreNext, Goto
  <2>3. EmptyInv'
    BY <2>2, EmptyKept
  <2>4. FlushInv'
    BY <2>1, <2>2, FlushKept
  <2>5. QED
    BY <1>3, <2>1, <2>3, <2>4
<1>9. CASE WriteReturns(t)
  <2>1. RowsInv' /\ ReadInv' /\ ~damaged' /\ InBuffer' = 0
    BY <1>9, WriteReturnsRows
  <2>2. /\ UNCHANGED <<written, before>> /\ pc[t] \in Holding
        /\ pc' = [pc EXCEPT ![t] = pc'[t]] /\ pc'[t] = "idle"
    BY <1>2, <1>9 DEF WriteReturns, Goto, history
  <2>3. EmptyInv'
    BY <2>2, EmptyKept
  <2>4. FlushInv'
    BY <2>1, <2>2, FlushKept
  <2>5. QED
    BY <1>3, <2>1, <2>3, <2>4
<1>10. QED
  BY <1>4, <1>5, <1>6, <1>7, <1>8, <1>9 DEF Step

LEMMA InitQInv == Init => QInv
<1> SUFFICES ASSUME Init PROVE QInv
  OBVIOUS
<1>1. IInv
  BY InitIInv
<1>2. \A t \in Threads : pc[t] = "idle" /\ before[t] = 0
  BY DEF Init, Threads
<1>3. pc[Consumer] = "wait"
  BY DEF Init
<1>4. buffer_begin = 0 /\ record_ptr = 0 /\ written = 0 /\ delivered = 0 /\ ~damaged /\ ~Held
  BY DEF Init, Held
<1>5. InHand = 0 /\ InBuffer = 0
  BY <1>4 DEF InHand, InBuffer
<1>6. Rows(0, 0)
  <2>1. \A k \in 0 .. 0 - 1 : FALSE
    OBVIOUS
  <2>2. InHand = 0 * RecordSize /\ InBuffer = 0 * RecordSize /\ written = delivered + 0 + 0
    BY <1>4, <1>5
  <2>3. QED
    BY <2>1, <2>2 DEF Rows
<1>7. RowsInv
  BY <1>6 DEF RowsInv
<1>8. ReadInv /\ EmptyInv /\ FlushInv /\ OwnerInv
  BY <1>2, <1>3, <1>4 DEF ReadInv, EmptyInv, FlushInv, OwnerInv, Threads
<1>9. QED
  BY <1>1, <1>4, <1>7, <1>8 DEF QInv

LEMMA StepQInv ==
  ASSUME QInv, [Next]_vars
  PROVE  QInv'
<1>1. IInv'
  BY StepIInv DEF QInv
<1>2. SUFFICES RowsInv' /\ ReadInv' /\ ~damaged' /\ EmptyInv' /\ FlushInv' /\ OwnerInv'
  BY <1>1 DEF QInv
<1>3. CASE UNCHANGED vars \/ Destroyed
  BY <1>3, QuietKeeps DEF Destroyed
<1>4. CASE \E p \in Producers, d \in DataSizes \cup {NoData} : CallWrite(p, d)
  BY <1>4, ThreadKeeps DEF Threads
<1>5. CASE \E t \in Threads : CallFlush(t) \/ Step(t)
  BY <1>5, ThreadKeeps
<1>6. CASE ConsumerStep
  <2>1. Consumer \in Threads \cup {Consumer}
    OBVIOUS
  <2>2. CASE Sleep(Consumer) \/ Exit
    BY <2>1, <2>2, QuietKeeps
  <2>3. CASE Take \/ Read \/ Finish
    BY <2>3, TakeRows, ReadRows, FinishRows, ConsumerKeepsRest
  <2>4. QED
    BY <1>6, <2>2, <2>3 DEF ConsumerStep
<1>7. CASE \E t \in Threads \cup {Consumer} : Wake(t)
  BY <1>7, QuietKeeps
<1>8. QED
  BY <1>3, <1>4, <1>5, <1>6, <1>7 DEF Next

LEMMA QInvariance == Spec => []QInv
  BY InitQInv, StepQInv, PTL DEF Spec

-----------------------------------------------------------------------------
(* For any producers and sizes, whatever the interleaving of writes,       *)
(* flushes, wake-ups and the callback: each record the callback gets is    *)
(* the next one, whole and with its data, in the pool or with its writer,  *)
(* and the destructor does not return before all have been consumed        *)
(* (mt_memory_pool.cpp:26-35, 59-82, 112-155).                             *)
THEOREM RecordsArrive == Spec => []EveryRecordArrives
<1>1. QInv => EveryRecordArrives
  BY DEF QInv, OwnerInv, EveryRecordArrives
<1>2. QED
  BY <1>1, QInvariance, PTL

(* A Flush that waits returns only when everything stored before it was    *)
(* called has been consumed, however many hand-overs of other threads      *)
(* come in between (mt_memory_pool.cpp:89-103).                            *)
THEOREM FlushesWait == Spec => FlushWaits
<1>1. ASSUME QInv, [Next]_vars
      PROVE  [\A t \in Threads :
                pc[t] = "flush_wait" /\ pc'[t] # "flush_wait" => delivered >= before[t]]_vars
  <2> SUFFICES ASSUME NEW t \in Threads, pc[t] = "flush_wait", pc'[t] # "flush_wait"
               PROVE  delivered >= before[t]
    OBVIOUS
  <2>1. IInv
    BY <1>1 DEF QInv
  <2>2. FlushReturns(t)
    <3>1. ASSUME NEW u \in Threads \cup {Consumer}, NEW l, pc' = [pc EXCEPT ![u] = l]
          PROVE  u = t
      BY <2>1, <3>1, OthersStay
    <3>2. pc' # pc
      OBVIOUS
    <3>3. Consumer # t
      OBVIOUS
    <3>4. ~(UNCHANGED vars \/ Destroyed)
      BY <3>2 DEF Destroyed, vars
    <3>5. ~\E u \in Threads \cup {Consumer} : Wake(u)
      BY <3>2 DEF Wake
    <3>6. ~ConsumerStep
      BY <3>1, <3>2, <3>3 DEF ConsumerStep, Sleep, Take, Exit, Read, Finish, Goto
    <3>7. \A p \in Producers, d \in DataSizes \cup {NoData} : ~CallWrite(p, d)
      <4> SUFFICES ASSUME NEW p \in Producers, NEW d, CallWrite(p, d) PROVE FALSE
        OBVIOUS
      <4>1. pc[p] = "idle" /\ pc' = [pc EXCEPT ![p] = "write"] /\ p \in Threads
        BY DEF CallWrite, Goto, Threads
      <4>2. QED
        BY <3>1, <4>1
    <3>8. PICK u \in Threads : CallFlush(u) \/ Step(u)
      BY <1>1, <3>4, <3>5, <3>6, <3>7 DEF Next
    <3>9. u = t
      BY <3>1, <3>2, <3>8 DEF CallFlush, Step, LockWrite, FlushNothing, LockFlush, Sleep, Notify,
           Switch, Store, WriteReturns, FlushReturns, Join, Goto
    <3>10. QED
      BY <3>2, <3>8, <3>9 DEF CallFlush, Step, LockWrite, FlushNothing, LockFlush, Sleep, Notify,
           Switch, Store, WriteReturns, Join, Goto
  <2>3. ~consumer_arg.valid
    BY <2>2 DEF FlushReturns, Predicate, Threads
  <2>4. PICK f \in Nat : Rows(0, f)
    BY <1>1, <2>3, NothingHeld
  <2>5. before[t] \in Nat /\ before[t] <= written /\ written \in Nat /\ delivered \in Nat
    BY <1>1, <2>1 DEF QInv, FlushInv, IInv, TypeOK
  <2>6. f * RecordSize <= (written - before[t]) * RecordSize /\ written = delivered + f
    BY <1>1, <2>4, <2>5 DEF Rows, QInv, FlushInv
  <2>7. f <= written - before[t]
    BY <2>5, <2>6, TimesCancel
  <2>8. QED
    BY <2>5, <2>6, <2>7
<1>2. QED
  BY <1>1, QInvariance, PTL DEF Spec, FlushWaits

-----------------------------------------------------------------------------
(* The refinement: what is in the two rows is the queue. The numbers after *)
(* x, n of them:                                                           *)
Run(x, n) == [i \in 1 .. n |-> x + i]

LEMMA RunFacts ==
  ASSUME NEW x \in Nat, NEW n \in Nat
  PROVE  Run(x, n) \in Seq(Nat) /\ Len(Run(x, n)) = n /\ \A i \in 1 .. n : Run(x, n)[i] = x + i
  BY DEF Run

LEMMA IsRun ==
  ASSUME NEW x \in Nat, NEW n \in Nat, NEW s \in Seq(Nat), Len(s) = n,
         \A i \in 1 .. n : s[i] = x + i
  PROVE  s = Run(x, n)
<1>1. Run(x, n) \in Seq(Nat) /\ Len(Run(x, n)) = n /\ \A i \in 1 .. n : Run(x, n)[i] = x + i
  BY RunFacts
<1>2. Len(s) = Len(Run(x, n)) /\ \A i \in 1 .. Len(s) : s[i] = Run(x, n)[i]
  BY <1>1
<1>3. QED
  BY <1>1, <1>2, SeqEqual

LEMMA RunConcat ==
  ASSUME NEW x \in Nat, NEW h \in Nat, NEW f \in Nat
  PROVE  Run(x, h) \o Run(x + h, f) = Run(x, h + f)
<1> DEFINE s == Run(x, h)
           u == Run(x + h, f)
<1>1. /\ s \in Seq(Nat) /\ Len(s) = h /\ \A i \in 1 .. h : s[i] = x + i
      /\ u \in Seq(Nat) /\ Len(u) = f /\ \A i \in 1 .. f : u[i] = x + h + i
  BY RunFacts, x + h \in Nat
<1> HIDE DEF s, u
<1>2. /\ s \o u \in Seq(Nat) /\ Len(s \o u) = h + f
      /\ \A i \in 1 .. h + f : (s \o u)[i] = IF i <= h THEN s[i] ELSE u[i - h]
  <2>1. s \in Seq(Nat) /\ u \in Seq(Nat) /\ Len(s) = h /\ Len(u) = f
    BY <1>1
  <2>2. /\ s \o u \in Seq(Nat) /\ Len(s \o u) = Len(s) + Len(u)
        /\ \A i \in 1 .. Len(s) + Len(u) :
             (s \o u)[i] = IF i <= Len(s) THEN s[i] ELSE u[i - Len(s)]
    BY <2>1, ConcatProperties
  <2>3. QED
    BY <2>1, <2>2
<1>3. ASSUME NEW i \in 1 .. h + f PROVE (s \o u)[i] = x + i
  <2>1. CASE i <= h
    BY <1>1, <1>2, <2>1
  <2>2. CASE ~(i <= h)
    <3>1. i - h \in 1 .. f /\ (s \o u)[i] = u[i - h]
      BY <1>2, <2>2
    <3>2. u[i - h] = x + h + (i - h)
      BY <1>1, <3>1
    <3>3. QED
      BY <3>1, <3>2
  <2>3. QED
    BY <2>1, <2>2
<1>4. s \o u = Run(x, h + f)
  BY <1>2, <1>3, IsRun, h + f \in Nat
<1>5. QED
  BY <1>4 DEF s, u

LEMMA RunPut ==
  ASSUME NEW x \in Nat, NEW n \in Nat
  PROVE  Append(Run(x, n), x + n + 1) = Run(x, n + 1)
<1> DEFINE s == Run(x, n)
           u == Append(s, x + n + 1)
<1>1. s \in Seq(Nat) /\ Len(s) = n /\ \A i \in 1 .. n : s[i] = x + i
  BY RunFacts
<1> HIDE DEF s
<1>2. /\ u \in Seq(Nat) /\ Len(u) = n + 1
      /\ \A i \in 1 .. n : u[i] = s[i]
  BY <1>1, AppendProperties, x + n + 1 \in Nat
<1>3. u[n + 1] = x + n + 1
  BY <1>1, AppendProperties, x + n + 1 \in Nat
<1>4. \A i \in 1 .. n + 1 : u[i] = x + i
  BY <1>1, <1>2, <1>3
<1> HIDE DEF u
<1>5. u = Run(x, n + 1)
  BY <1>2, <1>4, IsRun, n + 1 \in Nat
<1>6. QED
  BY <1>5 DEF s, u

LEMMA RunTake ==
  ASSUME NEW x \in Nat, NEW n \in Nat \ {0}
  PROVE  /\ Run(x, n) # <<>> /\ Head(Run(x, n)) = x + 1
         /\ Tail(Run(x, n)) = Run(x + 1, n - 1)
<1> DEFINE s == Run(x, n)
           u == Tail(s)
<1>1. s \in Seq(Nat) /\ Len(s) = n /\ \A i \in 1 .. n : s[i] = x + i
  BY RunFacts
<1> HIDE DEF s
<1>2. s # <<>> /\ Head(s) = s[1] /\ s[1] = x + 1
  BY <1>1
<1>3. u \in Seq(Nat) /\ Len(u) = n - 1 /\ \A i \in 1 .. n - 1 : u[i] = s[i + 1]
  BY <1>1, <1>2, HeadTailProperties
<1>4. \A i \in 1 .. n - 1 : u[i] = x + 1 + i
  BY <1>1, <1>3
<1> HIDE DEF u
<1>5. u = Run(x + 1, n - 1)
  BY <1>3, <1>4, IsRun, n - 1 \in Nat, x + 1 \in Nat
<1>6. QED
  BY <1>2, <1>5 DEF s, u

(* A row read as numbers.                                                  *)
LEMMA InARow ==
  ASSUME NEW from \in Int, NEW to \in Int, NEW k \in Nat, to - from = k * RecordSize,
         NEW x \in Nat, NEW lo, NEW hi, NEW b,
         \A j \in 0 .. k - 1 : Whole(mem, from + j * RecordSize, x + 1 + j, lo, hi, b)
  PROVE  Numbers(from, to) = Run(x, k)
<1>1. (to - from) \div RecordSize = k
  <2>1. RecordSize \in Nat /\ RecordSize > 0
    OBVIOUS
  <2>2. (k * RecordSize) \div RecordSize = k
    BY <2>1
  <2>3. QED
    BY <2>2
<1>2. ASSUME NEW i \in 1 .. k PROVE Number(from + (i - 1) * RecordSize) = x + i
  <2>1. i - 1 \in 0 .. k - 1 /\ x + 1 + (i - 1) = x + i /\ i - 1 \in Nat
    OBVIOUS
  <2>2. Whole(mem, from + (i - 1) * RecordSize, x + i, lo, hi, b)
    BY <2>1
  <2>3. PICK d, r : \A c \in 0 .. RecordSize - 1 :
                      mem[from + (i - 1) * RecordSize + c] = <<x + i, d, r>>
    BY <2>2 DEF Whole
  <2>4. (i - 1) * RecordSize \in Nat
    BY <2>1, Times
  <2>5. from + (i - 1) * RecordSize + 0 = from + (i - 1) * RecordSize
    BY <2>4
  <2>6. mem[from + (i - 1) * RecordSize] = <<x + i, d, r>>
    BY <2>3, <2>5, 0 \in 0 .. RecordSize - 1
  <2>7. QED
    BY <2>6 DEF Number
<1>3. QED
  BY <1>1, <1>2 DEF Numbers, Run

LEMMA TheQueue ==
  ASSUME QInv
  PROVE  HandedOver \o Filled = Run(delivered, written - delivered)
<1>1. IInv
  BY DEF QInv
<1>2. /\ buffer_begin \in Int /\ record_ptr \in Int /\ written \in Nat /\ delivered \in Nat
      /\ Start \in Int /\ consumer_arg.end \in Int
  BY <1>1, Numbering
<1>3. PICK h \in Nat, f \in Nat : Rows(h, f)
  BY DEF QInv, RowsInv
<1>4. HandedOver = Run(delivered, h)
  <2>1. CASE Held
    <3>1. HandedOver = Numbers(Start, consumer_arg.end)
      BY <2>1 DEF HandedOver, Start, Held
    <3>2. consumer_arg.end - Start = h * RecordSize
      BY <1>3, <2>1 DEF Rows, InHand
    <3>3. \A j \in 0 .. h - 1 :
            Whole(mem, Start + j * RecordSize, delivered + 1 + j,
                  consumer_arg.begin, consumer_arg.begin + BufferSize, Borrowed)
      BY <1>3 DEF Rows
    <3>4. Numbers(Start, consumer_arg.end) = Run(delivered, h)
      BY <1>2, <3>2, <3>3, InARow, Zenon
    <3>5. QED
      BY <3>1, <3>4
  <2>2. CASE ~Held
    <3>1. h = 0
      BY <1>3, <2>2, NoRecords DEF Rows, InHand
    <3>2. HandedOver = <<>>
      BY <2>2 DEF HandedOver, Held
    <3>3. QED
      BY <3>1, <3>2 DEF Run
  <2>3. QED
    BY <2>1, <2>2
<1>5. Filled = Run(delivered + h, f)
  <2>1. CASE Turned
    <3>1. Filled = Numbers(buffer_begin, record_ptr)
      BY <2>1 DEF Filled, Turned
    <3>2. record_ptr - buffer_begin = f * RecordSize
      BY <1>3, <2>1 DEF Rows, InBuffer
    <3>3. \A j \in 0 .. f - 1 :
            Whole(mem, buffer_begin + j * RecordSize, delivered + h + 1 + j,
                  data_ptr, buffer_end, Borrowed)
      BY <1>3 DEF Rows
    <3>4. delivered + h \in Nat
      BY <1>2
    <3>5. Numbers(buffer_begin, record_ptr) = Run(delivered + h, f)
      BY <1>2, <3>2, <3>3, <3>4, InARow, Zenon
    <3>6. QED
      BY <3>1, <3>5
  <2>2. CASE ~Turned
    <3>1. f = 0
      BY <1>3, <2>2, NoRecords DEF Rows, InBuffer
    <3>2. Filled = <<>>
      BY <2>2 DEF Filled, Turned
    <3>3. QED
      BY <3>1, <3>2 DEF Run
  <2>3. QED
    BY <2>1, <2>2
<1>6. written - delivered = h + f
  BY <1>2, <1>3 DEF Rows
<1>7. Run(delivered, h) \o Run(delivered + h, f) = Run(delivered, h + f)
  <2>1. PICK x \in Nat : x = delivered
    BY <1>2
  <2>2. Run(x, h) \o Run(x + h, f) = Run(x, h + f)
    BY RunConcat
  <2>3. QED
    BY <2>1, <2>2
<1>8. HandedOver \o Filled = Run(delivered, h + f)
  BY <1>4, <1>5, <1>7
<1>9. QED
  BY <1>6, <1>8

IsQueue == HandedOver \o Filled = Run(delivered, written - delivered)

(* What a step adds to the two counts.                                     *)
LEMMA Counts ==
  ASSUME QInv, [Next]_vars
  PROVE  \/ UNCHANGED <<written, delivered>>
         \/ written' = written + 1 /\ delivered' = delivered
         \/ written' = written /\ delivered' = delivered + 1 /\ delivered < written
<1>1. CASE UNCHANGED vars \/ Destroyed
  BY <1>1 DEF vars, Destroyed
<1>2. CASE \E p \in Producers, d \in DataSizes \cup {NoData} : CallWrite(p, d)
  BY <1>2 DEF CallWrite, history
<1>3. ASSUME NEW t \in Threads, CallFlush(t) \/ Step(t)
      PROVE  UNCHANGED <<written, delivered>> \/ (written' = written + 1 /\ delivered' = delivered)
  <2>1. CASE Store(t)
    BY <2>1 DEF Store
  <2>2. CASE ~Store(t)
    BY <1>3, <2>2 DEF CallFlush, Step, LockWrite, FlushNothing, LockFlush, Sleep, Notify, Switch,
         WriteReturns, FlushReturns, Join, history
  <2>3. QED
    BY <2>1, <2>2
<1>4. CASE Read
  BY <1>4, ReadRows DEF Read
<1>5. CASE Sleep(Consumer) \/ Take \/ Exit \/ Finish
  BY <1>5 DEF Sleep, Take, Exit, Finish, history
<1>6. CASE \E t \in Threads \cup {Consumer} : Wake(t)
  BY <1>6 DEF Wake, history
<1>7. QED
  BY <1>1, <1>2, <1>3, <1>4, <1>5, <1>6 DEF Next, ConsumerStep

(* The pool implements RecordQueue for any producers, records and buffers: *)
(* the one step that adds to it is the store of a Write, and the one that  *)
(* takes from it is the callback's; hand-overs, switches of buffers,       *)
(* flushes and the destructor move nothing past anything                   *)
(* (the whole of mt_memory_pool.cpp).                                      *)
THEOREM PoolIsQueue == Spec => ImplementsQueue
<1>1. ASSUME Init PROVE Queue!Init
  <2>1. QInv /\ written = 0 /\ delivered = 0
    BY <1>1, InitQInv DEF Init
  <2>2. HandedOver \o Filled = Run(0, 0)
    BY <2>1, TheQueue
  <2>3. Run(0, 0) = <<>>
    BY DEF Run
  <2>4. QED
    BY <2>1, <2>2, <2>3 DEF Queue!Init
<1>2. QInv => IsQueue
  BY TheQueue DEF IsQueue
<1>3. ASSUME QInv, IsQueue, IsQueue', [Next]_vars PROVE [Queue!Next]_(Queue!vars)
  <2>1. HandedOver \o Filled = Run(delivered, written - delivered)
    BY <1>3 DEF IsQueue
  <2>2. (HandedOver \o Filled)' = Run(delivered', written' - delivered')
    BY <1>3 DEF IsQueue, Run
  <2>3. written \in Nat /\ delivered \in Nat /\ written - delivered \in Nat
    <3>1. IInv /\ RowsInv
      BY <1>3 DEF QInv
    <3>2. QED
      BY <3>1, Numbering DEF RowsInv, Rows
  <2>4. CASE UNCHANGED <<written, delivered>>
    BY <2>1, <2>2, <2>4 DEF Queue!vars
  <2>5. CASE written' = written + 1 /\ delivered' = delivered
    <3> DEFINE n == written - delivered
    <3>1. written' - delivered' = n + 1 /\ delivered + n + 1 = written + 1 /\ n \in Nat
      BY <2>3, <2>5
    <3>2. Append(Run(delivered, n), delivered + n + 1) = Run(delivered, n + 1)
      BY <2>3, <3>1, RunPut
    <3>3. (HandedOver \o Filled)' = Append(HandedOver \o Filled, written + 1)
      BY <2>1, <2>2, <2>5, <3>1, <3>2
    <3>4. Queue!Put
      BY <2>5, <3>3 DEF Queue!Put
    <3>5. QED
      BY <3>4 DEF Queue!Next
  <2>6. CASE written' = written /\ delivered' = delivered + 1 /\ delivered < written
    <3> DEFINE n == written - delivered
    <3>1. written' - delivered' = n - 1 /\ n \in Nat \ {0}
      BY <2>3, <2>6
    <3>2. /\ Run(delivered, n) # <<>> /\ Head(Run(delivered, n)) = delivered + 1
          /\ Tail(Run(delivered, n)) = Run(delivered + 1, n - 1)
      BY <2>3, <3>1, RunTake
    <3>3. /\ HandedOver \o Filled # <<>> /\ Head(HandedOver \o Filled) = delivered + 1
          /\ (HandedOver \o Filled)' = Tail(HandedOver \o Filled)
      BY <2>1, <2>2, <2>6, <3>1, <3>2
    <3>4. Queue!Take
      BY <2>6, <3>3 DEF Queue!Take
    <3>5. QED
      BY <3>4 DEF Queue!Next
  <2>7. QED
    BY <1>3, <2>4, <2>5, <2>6, Counts
<1>4. QED
  BY <1>1, <1>2, <1>3, QInvariance, PTL DEF Spec, ImplementsQueue, Queue!Spec

=============================================================================
