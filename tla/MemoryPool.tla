----------------------------- MODULE MemoryPool -----------------------------
(***************************************************************************)
(* The pool in which the host tracer of the MATRIX accelerator collects    *)
(* its records: accl_activity_pool::MemoryPool                             *)
(* (lib/accl/matrix/host/mt_memory_pool.cpp). Producers fill one of two    *)
(* buffers under producer_mutex_, records from below and their data from   *)
(* above; a full buffer is handed to the consumer thread in consumer_arg_  *)
(* under consumer_mutex_, and the other one is filled.                     *)
(*                                                                         *)
(* The consumer holds consumer_mutex_ exactly while its callback reads the *)
(* records (pc "read"), everybody else for one step. Waiting on            *)
(* consumer_cond_ is explicit: who finds its predicate false sleeps until  *)
(* a notify_all, or wakes up for no reason, and looks again.               *)
(*                                                                         *)
(* Addresses count from pool_begin_ in units of which a record takes       *)
(* RecordSize. Records are numbered as they are stored.                    *)
(***************************************************************************)
EXTENDS Integers, Sequences

CONSTANTS
  Producers,   (* the threads that write and flush                        *)
  Owner,       (* the thread that destroys the pool in the end            *)
  Consumer,    (* consumer_thread_                                        *)
  RecordSize,  (* sizeof(accl_activity_record_t)                          *)
  BufferSize,  (* properties_.buffer_size                                 *)
  DataSizes,   (* sizes of the data of a record                           *)
  NoData,      (* data is the null pointer                                *)
  NoOne,       (* nobody holds producer_mutex_                            *)
  MaxRecords   (* bound: no write is called after so many records         *)

Threads == Producers \cup {Owner}

(* The constructor takes room for two records in either buffer; with a     *)
(* smaller buffer_size the buffers do not divide the pool.                 *)
ASSUME MemoryPoolAssumption ==
  /\ RecordSize \in Nat \ {0}
  /\ BufferSize \in Nat /\ BufferSize >= 2 * RecordSize
  /\ DataSizes \subseteq Nat /\ NoData \notin DataSizes
  /\ Owner \notin Producers /\ Consumer \notin Threads /\ NoOne \notin Threads
  /\ MaxRecords \in Nat

VARIABLES
  pc,              (* where each thread is                                *)
  data,            (* the size of the data of the Write it is in          *)
  producer_mutex,  (* its holder                                          *)
  buffer_begin,    (* buffer_begin_; buffer_end_ follows from it          *)
  record_ptr,      (* record_ptr_: where the next record goes             *)
  data_ptr,        (* data_ptr_: where the data of the last one begins    *)
  consumer_arg,    (* consumer_arg_: [begin, end, valid]                  *)
  asleep,          (* who sleeps in consumer_cond_.wait                   *)
  at,              (* the next record the callback reads                  *)
  mem,             (* the pool                                            *)
  written,         (* records stored                                      *)
  delivered,       (* records consumed                                    *)
  damaged,         (* history: one was not what had been written          *)
  before           (* history: records stored when the Flush was called   *)

vars == <<pc, data, producer_mutex, buffer_begin, record_ptr, data_ptr, consumer_arg,
          asleep, at, mem, written, delivered, damaged, before>>

PoolSize   == 2 * BufferSize
Addresses  == 0 .. PoolSize - 1
buffer_end == buffer_begin + BufferSize

(* Where the data of a record may be, other than in the pool: there is     *)
(* none, or it has been left with the caller.                              *)
Nowhere == PoolSize
Outside == PoolSize + 1
Null    == PoolSize + 2

Switching == {"full_switch", "big_switch", "flush_switch"}
Notifying == {"full_notify", "big_notify", "flush_notify"}
Holding   == Switching \cup Notifying \cup {"store", "big_wait"}
Locations ==
  Holding \cup {"idle", "write", "flush", "flush_wait", "exit_notify", "join", "destroyed"}
ConsumerLocations == {"wait", "read", "exited"}

Init ==
  /\ pc = [t \in Threads \cup {Consumer} |-> IF t = Consumer THEN "wait" ELSE "idle"]
  /\ data = [t \in Threads |-> NoData]
  /\ producer_mutex = NoOne
  /\ buffer_begin = 0 /\ record_ptr = 0 /\ data_ptr = BufferSize
  /\ consumer_arg = [begin |-> Null, end |-> Null, valid |-> FALSE]
  /\ asleep = {} /\ at = Null
  /\ mem = [a \in Addresses |-> <<>>]
  /\ written = 0 /\ delivered = 0 /\ damaged = FALSE
  /\ before = [t \in Threads |-> 0]

Goto(t, from, to) == pc[t] = from /\ pc' = [pc EXCEPT ![t] = to]

buffers == <<buffer_begin, record_ptr, data_ptr>>
history == <<written, delivered, damaged>>

(* The destructor goes on after its Flush.                                 *)
AfterFlush(t) == IF t = Owner THEN "exit_notify" ELSE "idle"

(* Write, for room or for data left outside, and Flush hand the buffer     *)
(* over, then switch.                                                      *)
AfterNotify(l) ==
  IF l = "full_notify" THEN "full_switch" ELSE IF l = "big_notify" THEN "big_switch"
  ELSE IF l = "flush_notify" THEN "flush_switch" ELSE "join"

AfterSwitch(l) ==
  IF l = "full_switch" THEN "store" ELSE IF l = "big_switch" THEN "big_wait" ELSE "flush_wait"

-----------------------------------------------------------------------------
(* Write, Flush and the destructor are called.                             *)
CallWrite(p, d) ==
  /\ pc[Owner] = "idle" /\ written < MaxRecords
  /\ Goto(p, "idle", "write")
  /\ data' = [data EXCEPT ![p] = d]
  /\ UNCHANGED <<producer_mutex, buffers, consumer_arg, asleep, at, mem, history, before>>

CallFlush(t) ==
  /\ pc[Owner] = "idle"
  /\ t = Owner => \A p \in Producers : pc[p] = "idle"
  /\ Goto(t, "idle", "flush")
  /\ before' = [before EXCEPT ![t] = written]
  /\ UNCHANGED <<data, producer_mutex, buffers, consumer_arg, asleep, at, mem, history>>

(* reserve_data_size: data that does not fit in a buffer stays outside.    *)
Size(d)    == IF d = NoData THEN 0 ELSE d
Reserve(d) == IF Size(d) <= BufferSize - RecordSize THEN Size(d) ELSE 0

(* Write: the lock, and the test whether the buffer has room.              *)
LockWrite(t) ==
  /\ producer_mutex = NoOne
  /\ producer_mutex' = t
  /\ IF record_ptr + RecordSize > data_ptr - Reserve(data[t])
     THEN Goto(t, "write", "full_notify")
     ELSE Goto(t, "write", "store")
  /\ UNCHANGED <<data, buffers, consumer_arg, asleep, at, mem, history, before>>

(* Flush: nothing is done when the buffer is empty.                        *)
FlushNothing(t) ==
  /\ producer_mutex = NoOne
  /\ record_ptr = buffer_begin
  /\ Goto(t, "flush", AfterFlush(t))
  /\ before' = [before EXCEPT ![t] = 0]
  /\ UNCHANGED <<data, producer_mutex, buffers, consumer_arg, asleep, at, mem, history>>

LockFlush(t) ==
  /\ producer_mutex = NoOne
  /\ record_ptr # buffer_begin
  /\ producer_mutex' = t
  /\ Goto(t, "flush", "flush_notify")
  /\ UNCHANGED <<data, buffers, consumer_arg, asleep, at, mem, history, before>>

-----------------------------------------------------------------------------
(* Faulty variants: what the properties below must notice.                 *)
Notify_Overwrites(t) ==     \* does not wait for the hand-over before to end
  /\ pc[t] \in Notifying \cup {"exit_notify"} /\ pc[Consumer] # "read"
  /\ consumer_arg' =
       IF pc[t] = "exit_notify" THEN [begin |-> Null, end |-> Null, valid |-> TRUE]
       ELSE [begin |-> buffer_begin, end |-> record_ptr, valid |-> TRUE]
  /\ asleep' = {}
  /\ pc' = [pc EXCEPT ![t] = AfterNotify(@)]
  /\ UNCHANGED <<data, producer_mutex, buffers, at, mem, history, before>>

NextBuffer_Same == buffer_begin      \* SwitchBuffers only resets the pointers

NextBuffer_NoWrap == buffer_end      \* ... or run past the end of the pool

NotifyAll_Forgotten == UNCHANGED asleep

FlushReturns_Early(t) ==             \* does not wait for the callback
  /\ Goto(t, "flush_wait", AfterFlush(t))
  /\ before' = [before EXCEPT ![t] = 0]
  /\ UNCHANGED <<data, producer_mutex, buffers, consumer_arg, asleep, at, mem, history>>

Finish_Early ==                      \* valid = false before the callback is through
  /\ Goto(Consumer, "read", "wait")
  /\ at + RecordSize >= consumer_arg.end
  /\ consumer_arg' = [consumer_arg EXCEPT !.valid = FALSE]
  /\ asleep' = {} /\ at' = Null
  /\ UNCHANGED <<data, producer_mutex, buffers, mem, history, before>>

-----------------------------------------------------------------------------
(* consumer_cond_.wait: the predicate of each caller. Who finds it false   *)
(* sleeps, ...                                                             *)
Waits(t) == pc[t] \in Notifying \cup {"exit_notify", "big_wait", "flush_wait", "wait"}

Looks(t) == Waits(t) /\ t \notin asleep /\ pc[Consumer] # "read"

Predicate(t) == IF t = Consumer THEN consumer_arg.valid ELSE ~consumer_arg.valid

Sleep(t) ==
  /\ Looks(t) /\ ~Predicate(t)
  /\ asleep' = asleep \cup {t}
  /\ UNCHANGED <<pc, data, producer_mutex, buffers, consumer_arg, at, mem, history, before>>

(* ... until a notify_all, or for no reason at all.                        *)
NotifyAll == asleep' = {}

Wake(t) ==
  /\ t \in asleep
  /\ asleep' = asleep \ {t}
  /\ UNCHANGED <<pc, data, producer_mutex, buffers, consumer_arg, at, mem, history, before>>

(* NotifyConsumerThread: the buffer, or the null pointers that end the     *)
(* consumer, become consumer_arg_.                                         *)
Notify(t) ==
  /\ pc[t] \in Notifying \cup {"exit_notify"}
  /\ Looks(t) /\ Predicate(t)
  /\ consumer_arg' =
       IF pc[t] = "exit_notify" THEN [begin |-> Null, end |-> Null, valid |-> TRUE]
       ELSE [begin |-> buffer_begin, end |-> record_ptr, valid |-> TRUE]
  /\ NotifyAll
  /\ pc' = [pc EXCEPT ![t] = AfterNotify(@)]
  /\ UNCHANGED <<data, producer_mutex, buffers, at, mem, history, before>>

(* SwitchBuffers; Flush then releases the lock and waits.                  *)
NextBuffer == IF buffer_end = PoolSize THEN 0 ELSE buffer_end

Switch(t) ==
  /\ pc[t] \in Switching
  /\ buffer_begin' = NextBuffer
  /\ record_ptr' = NextBuffer
  /\ data_ptr' = NextBuffer + BufferSize
  /\ producer_mutex' = IF pc[t] = "flush_switch" THEN NoOne ELSE t
  /\ pc' = [pc EXCEPT ![t] = AfterSwitch(@)]
  /\ UNCHANGED <<data, consumer_arg, asleep, at, mem, history, before>>

(* The record, which knows where its data is, and the data that fit. Data  *)
(* left outside must be consumed before Write returns.                     *)
DataAt(t) ==
  IF Reserve(data[t]) # 0 THEN data_ptr - Reserve(data[t])
  ELSE IF data[t] = NoData THEN Nowhere ELSE Outside

StoreNext(t) == IF DataAt(t) = Outside THEN "big_notify" ELSE "idle"

Store(t) ==
  LET n == written + 1
      r == Reserve(data[t])
  IN
  /\ Goto(t, "store", StoreNext(t))
  /\ mem' = [a \in Addresses |->
       IF a \in record_ptr .. record_ptr + RecordSize - 1 THEN <<n, DataAt(t), r>>
       ELSE IF a \in data_ptr - r .. data_ptr - 1 THEN <<n>> ELSE mem[a]]
  /\ record_ptr' = record_ptr + RecordSize
  /\ data_ptr' = data_ptr - r
  /\ written' = n
  /\ producer_mutex' = IF StoreNext(t) = "idle" THEN NoOne ELSE t
  /\ data' = [data EXCEPT ![t] = NoData]
  /\ UNCHANGED <<buffer_begin, consumer_arg, asleep, at, delivered, damaged, before>>

(* The wait for the callback at the end of such a Write, and of Flush.     *)
WriteReturns(t) ==
  /\ Looks(t) /\ Predicate(t)
  /\ Goto(t, "big_wait", "idle")
  /\ producer_mutex' = NoOne
  /\ UNCHANGED <<data, buffers, consumer_arg, asleep, at, mem, history, before>>

FlushReturns(t) ==
  /\ Looks(t) /\ Predicate(t)
  /\ Goto(t, "flush_wait", AfterFlush(t))
  /\ before' = [before EXCEPT ![t] = 0]
  /\ UNCHANGED <<data, producer_mutex, buffers, consumer_arg, asleep, at, mem, history>>

(* The destructor joins the consumer and frees the pool.                   *)
Join(t) ==
  /\ pc[Consumer] = "exited"
  /\ Goto(t, "join", "destroyed")
  /\ UNCHANGED <<data, producer_mutex, buffers, consumer_arg, asleep, at, mem, history, before>>

-----------------------------------------------------------------------------
(* ConsumerThreadLoop: a hand-over, or the end, ...                        *)
Take ==
  /\ Looks(Consumer) /\ Predicate(Consumer)
  /\ consumer_arg.begin # Null
  /\ Goto(Consumer, "wait", "read")
  /\ at' = consumer_arg.begin
  /\ UNCHANGED <<data, producer_mutex, buffers, consumer_arg, asleep, mem, history, before>>

Exit ==
  /\ Looks(Consumer) /\ Predicate(Consumer)
  /\ consumer_arg.begin = Null
  /\ Goto(Consumer, "wait", "exited")
  /\ UNCHANGED <<data, producer_mutex, buffers, consumer_arg, asleep, at, mem, history, before>>

(* ... buffer_callback_fun, which goes from record to record, ...          *)
LeftOutside(n) ==   \* the caller of the last Write still waits with its data
  /\ n = written
  /\ \E t \in Threads : pc[t] \in {"big_notify", "big_switch", "big_wait"}

Intact(a) ==
  LET r == mem[a] IN
  /\ Len(r) = 3 /\ r[1] = delivered + 1
  /\ \A i \in 1 .. RecordSize - 1 : mem[a + i] = r
  /\ \/ r[2] = Nowhere
     \/ r[2] = Outside /\ LeftOutside(r[1])
     \/ r[2] < PoolSize /\ \A i \in 0 .. r[3] - 1 : mem[r[2] + i] = <<r[1]>>

Read ==
  /\ pc[Consumer] = "read" /\ at # consumer_arg.end
  /\ damaged' = (damaged \/ ~Intact(at))
  /\ delivered' = delivered + 1
  /\ at' = at + RecordSize
  /\ UNCHANGED <<pc, data, producer_mutex, buffers, consumer_arg, asleep, mem, written, before>>

(* ... and the end of the hand-over.                                       *)
Finish ==
  /\ Goto(Consumer, "read", "wait")
  /\ at = consumer_arg.end
  /\ consumer_arg' = [consumer_arg EXCEPT !.valid = FALSE]
  /\ NotifyAll /\ at' = Null
  /\ UNCHANGED <<data, producer_mutex, buffers, mem, history, before>>

Step(t) ==
  \/ LockWrite(t) \/ FlushNothing(t) \/ LockFlush(t) \/ Sleep(t) \/ Notify(t) \/ Switch(t)
  \/ Store(t) \/ WriteReturns(t) \/ FlushReturns(t) \/ Join(t)

ConsumerStep == Sleep(Consumer) \/ Take \/ Exit \/ Read \/ Finish

(* After the destructor nothing happens.                                   *)
Destroyed == pc[Owner] = "destroyed" /\ UNCHANGED vars

Next ==
  \/ \E p \in Producers, d \in DataSizes \cup {NoData} : CallWrite(p, d)
  \/ \E t \in Threads : CallFlush(t) \/ Step(t)
  \/ ConsumerStep
  \/ \E t \in Threads \cup {Consumer} : Wake(t)
  \/ Destroyed

Spec == Init /\ [][Next]_vars

(* Threads that run go on; nobody must write, flush or destroy the pool.   *)
FairSpec == Spec /\ WF_vars(ConsumerStep) /\ \A t \in Threads : WF_vars(Step(t))

-----------------------------------------------------------------------------
TypeOK ==
  /\ pc \in [Threads \cup {Consumer} -> Locations \cup ConsumerLocations]
  /\ data \in [Threads -> DataSizes \cup {NoData}]
  /\ producer_mutex \in Threads \cup {NoOne}
  /\ buffer_begin \in {0, BufferSize} /\ record_ptr \in 0 .. PoolSize /\ data_ptr \in 0 .. PoolSize
  /\ consumer_arg \in [begin : {0, BufferSize, Null}, end : 0 .. Null, valid : BOOLEAN]
  /\ asleep \subseteq Threads \cup {Consumer}
  /\ at \in Nat
  /\ DOMAIN mem = Addresses
  /\ written \in Nat /\ delivered \in Nat /\ damaged \in BOOLEAN
  /\ before \in [Threads -> Nat]

(* A record and its data are only stored where there is room for both, and *)
(* never in the buffer the consumer has been handed: what becomes of the   *)
(* pointers over any sequence of writes, flushes and hand-overs            *)
(* (mt_memory_pool.cpp:49-72, 105-110).                                    *)
StoresApart ==
  \A t \in Threads : pc[t] = "store" =>
    /\ buffer_begin <= record_ptr /\ data_ptr <= buffer_end
    /\ record_ptr + RecordSize <= data_ptr - Reserve(data[t])
    /\ consumer_arg.valid =>
         consumer_arg.end <= buffer_begin \/ buffer_end <= consumer_arg.begin

(* Every record the callback gets is the next one, whole, with the data it *)
(* was written with: in the pool and not overwritten, or outside with the  *)
(* writer still there, for which the code flushes "synchronously to avoid  *)
(* dangling pointer" (mt_memory_pool.cpp:59-82, 125-136); and once the     *)
(* pool is destroyed every record has come, whatever the consumer was      *)
(* doing when the destructor was called (26-35, 121-123).                  *)
EveryRecordArrives ==
  /\ ~damaged
  /\ pc[Owner] = "destroyed" => delivered = written

(* A Flush that handed over a buffer does not return before all that was   *)
(* stored when it was called has been consumed, although others may hand   *)
(* over more while it waits (mt_memory_pool.cpp:89-103).                   *)
FlushWaits ==
  [][\A t \in Threads : pc[t] = "flush_wait" /\ pc'[t] # "flush_wait" => delivered >= before[t]]_vars

(* The pool is a queue: records are consumed once and in the order in      *)
(* which they were stored. Those handed over and not yet read come before  *)
(* those of the buffer being filled (the whole file).                      *)
Number(a) == IF mem[a] = <<>> THEN 0 ELSE mem[a][1]

Numbers(from, to) ==
  [i \in 1 .. (to - from) \div RecordSize |-> Number(from + (i - 1) * RecordSize)]

HandedOver ==
  IF consumer_arg.valid /\ consumer_arg.begin # Null
  THEN Numbers(IF pc[Consumer] = "read" THEN at ELSE consumer_arg.begin, consumer_arg.end)
  ELSE <<>>

Filled ==
  IF \E t \in Threads : pc[t] \in Switching THEN <<>> ELSE Numbers(buffer_begin, record_ptr)

Queue == INSTANCE RecordQueue WITH queue <- HandedOver \o Filled
ImplementsQueue == Queue!Spec

(* Every Write, Flush and destruction ends: no wake-up is missed, nobody   *)
(* keeps a lock (mt_memory_pool.cpp:112-155).                              *)
CallsReturn ==
  \A t \in Threads : pc[t] # "idle" ~> pc[t] \in {"idle", "destroyed"}

=============================================================================
