-------------------------- MODULE DeviceTraceProofs --------------------------
(***************************************************************************)
(* As long as no two clusters are loaded at a time, and one that is not    *)
(* loaded is neither unloaded nor waited for, the host and the cores use   *)
(* the same block, which is not freed, and every other block has been      *)
(* freed.                                                                  *)
(*                                                                         *)
(* The invariant says of every place of the host what is loaded, which     *)
(* block is in use, and where no kernel may be running; the weak types are *)
(* all that holds once the calls have been out of order.                   *)
(*                                                                         *)
(* The second half adds what each kernel knows of its counter, whose the   *)
(* records of a block are, and that stream and buffer of a core together   *)
(* are the records it has made.                                            *)
(***************************************************************************)
EXTENDS DeviceTrace, SequenceTheorems, TLAPS

Record == [cluster : Clusters \cup {NoCluster}, n : Nat]
Memory == [freed : BOOLEAN, used : [Core -> Nat], cells : [Core -> [1 .. Capacity -> Record]]]

Kernel == [at : Places, offset : Nat, seen : Nat, mates : SUBSET Core]

HostType == [at : {"idle", "flush", "reset", "free", "alloc"},
             call : {"wait", "load", "unload", "close"}, cluster : Clusters \cup {NoCluster}]

Types ==
  /\ heap \in [Blocks -> Memory]
  /\ next \in 1 .. MaxLoads + 1 /\ args \in 0 .. next - 1 /\ arrays \in 0 .. next - 1
  /\ loaded \in [Clusters -> BOOLEAN]
  /\ dev \in [Clusters -> 0 .. next - 1]
  /\ host \in HostType
  /\ core \in [Clusters -> [Core -> Kernel]]
  /\ made \in [Clusters -> [Core -> Seq(Record)]]
  /\ fault \in BOOLEAN /\ disorder \in BOOLEAN

(* Nobody has freed a block that is still to be given out.                 *)
Unborn == \A b \in Blocks : b >= next => ~heap[b].freed

(* The host is between the release of the block of c and its new one.      *)
Reloading(c) == host.at = "alloc" /\ host.cluster = c

(* Which call has come how far.                                            *)
Calls ==
  /\ host.at = "reset" => host.call = "wait"
  /\ host.at = "free" => host.call # "wait"
  /\ host.at = "alloc" => host.call = "load"
  /\ host.at # "idle" /\ host.call # "wait" => host.cluster \in Clusters
  /\ host.at # "idle" /\ host.call = "load" => next <= MaxLoads

(* What is loaded and quiet in the middle of a call.                       *)
Placed ==
  /\ host.at \in {"flush", "reset"} => \E c \in Clusters : loaded[c]
  /\ host.at \in {"flush", "free"} /\ host.call # "wait" => loaded[host.cluster]
  /\ host.at # "idle" /\ host.call # "wait" => QuietOn(host.cluster)
  /\ host.at = "alloc" => \A c \in Clusters : loaded[c] => c = host.cluster

InUse ==
  \A c \in Clusters : loaded[c] /\ ~Reloading(c) =>
    args = dev[c] /\ arrays = dev[c] /\ Usable(dev[c])

Released ==
  \A b \in 1 .. next - 1 :
    heap[b].freed \/ \E c \in Clusters : loaded[c] /\ ~Reloading(c) /\ dev[c] = b

Single ==
  /\ ~fault
  /\ \A c, d \in Clusters : loaded[c] /\ loaded[d] => c = d
  /\ \A c \in Clusters, k \in Core : Busy(c, k) => loaded[c]
  /\ Placed /\ InUse /\ Released

IInv == Types /\ Unborn /\ Calls /\ (~disorder => Single)

-----------------------------------------------------------------------------
(* A number below next is Null or a block.                                 *)
LEMMA KnownBlocks ==
  ASSUME Types, NEW b \in 0 .. next - 1
  PROVE  /\ b \in 0 .. MaxLoads
         /\ b # Null => b \in Blocks
  BY DeviceTraceAssumption DEF Types, Blocks, Null

LEMMA InitIInv == Init => IInv
<1> USE DeviceTraceAssumption
<1>1. Junk \in Record
  BY DEF NoCluster, Junk, Record
<1>2. Off \in Kernel
  BY DEF Off, Kernel, Places
<1>3. Init => Types
  <2> SUFFICES ASSUME Init PROVE Types
    OBVIOUS
  <2>1. heap \in [Blocks -> Memory]
    BY <1>1 DEF Init, Memory
  <2>2. core \in [Clusters -> [Core -> Kernel]]
    BY <1>2 DEF Init
  <2>3. next \in 1 .. MaxLoads + 1 /\ args \in 0 .. next - 1 /\ arrays \in 0 .. next - 1
    BY DEF Init, Null
  <2>4. dev \in [Clusters -> 0 .. next - 1]
    BY DEF Init, Null
  <2>5. made \in [Clusters -> [Core -> Seq(Record)]]
    BY DEF Init
  <2>6. host \in HostType
    BY DEF Init, Idle, HostType
  <2> QED
    BY <2>1, <2>2, <2>3, <2>4, <2>5, <2>6 DEF Init, Types
<1>4. Init => Unborn
  BY DEF Init, Unborn
<1>5. Init => Calls
  BY DEF Init, Calls, Idle
<1>6. Init => Single
  BY DEF Init, Single, Placed, InUse, Released, Idle, Off, Busy
<1> QED
  BY <1>3, <1>4, <1>5, <1>6 DEF IInv

-----------------------------------------------------------------------------
(* What a step of a core does to the program counter of its kernel.        *)
LEMMA CoreStep ==
  ASSUME Types, NEW c \in Clusters, NEW k \in Core, DeviceStep(c, k)
  PROVE  \E from \in Places \ {"off"}, to \in Kernel : Step(c, k, from, to)
<1> DEFINE old == core[c][k]
           n   == Used(c, k)
<1>1. old \in Kernel /\ n \in Nat
  <2>1. dev[c] # Null => heap[dev[c]].used[k] \in Nat
    BY KnownBlocks DEF Types, Memory
  <2> QED
    BY <2>1 DEF Types, Used
<1>2. Off \in Kernel /\ {"alloc", "read", "bump", "fill"} \subseteq Places \ {"off"}
  BY DEF Off, Kernel, Places
<1>3. /\ [old EXCEPT !.at = "read", !.offset = n + 1] \in Kernel
      /\ [old EXCEPT !.at = "bump", !.seen = n] \in Kernel
      /\ [old EXCEPT !.at = "fill"] \in Kernel
  <2> HIDE DEF old, n
  <2>1. [old EXCEPT !.at = "read", !.offset = n + 1] \in Kernel
    <3>1. n + 1 \in Nat
      BY <1>1
    <3>2. [old EXCEPT !.at = "read"] \in Kernel
      BY <1>1, <1>2 DEF Kernel
    <3> QED
      BY <3>1, <3>2, <1>1 DEF Kernel
  <2>2. [old EXCEPT !.at = "bump", !.seen = n] \in Kernel
    BY <1>1, <1>2 DEF Kernel
  <2>3. [old EXCEPT !.at = "fill"] \in Kernel
    BY <1>1, <1>2 DEF Kernel
  <2> QED
    BY <2>1, <2>2, <2>3
<1>4. CASE Reserve(c, k)
  <2>1. CASE Used(c, k) + 1 > Capacity
    BY <2>1, <1>4, <1>2 DEF Reserve
  <2>2. CASE ~(Used(c, k) + 1 > Capacity)
    BY <2>2, <1>4, <1>2, <1>3 DEF Reserve
  <2> QED
    BY <2>1, <2>2
<1>5. CASE Read(c, k)
  BY <1>5, <1>2, <1>3 DEF Read
<1>6. CASE Bump(c, k)
  BY <1>6, <1>2, <1>3 DEF Bump
<1>7. CASE Fill(c, k)
  BY <1>7, <1>2 DEF Fill
<1> QED
  BY <1>4, <1>5, <1>6, <1>7 DEF DeviceStep

(* A step of a core frees no block, whatever block it writes to.           *)
LEMMA CoreFreesNothing ==
  ASSUME Types, NEW c \in Clusters, NEW k \in Core, DeviceStep(c, k)
  PROVE  /\ heap' \in [Blocks -> Memory]
         /\ \A d \in Blocks : heap'[d].freed = heap[d].freed
         /\ made' \in [Clusters -> [Core -> Seq(Record)]]
<1> DEFINE b == dev[c]
<1>1. CASE Reserve(c, k) \/ Read(c, k)
  BY <1>1 DEF Reserve, Read, Types
<1>2. CASE Bump(c, k)
  <2> DEFINE n == core[c][k].seen + 1
  <2>1. n \in Nat
    BY DEF Types, Kernel
  <2>2. heap' = [heap EXCEPT ![b].used[k] = n] /\ made' = made
    BY <1>2 DEF Bump
  <2> HIDE DEF n
  <2>3. CASE b \in Blocks
    <3>1. heap[b] \in Memory
      BY <2>3 DEF Types
    <3>2. [heap[b] EXCEPT !.used[k] = n] \in Memory
      BY <2>1, <3>1 DEF Memory
    <3>3. [heap[b] EXCEPT !.used[k] = n].freed = heap[b].freed
      BY <3>1 DEF Memory
    <3> QED
      BY <2>2, <2>3, <3>2, <3>3 DEF Types
  <2>4. CASE b \notin Blocks
    BY <2>2, <2>4 DEF Types
  <2> QED
    BY <2>3, <2>4
<1>3. CASE Fill(c, k)
  <2> DEFINE rec == [cluster |-> c, n |-> Len(made[c][k]) + 1]
             o   == core[c][k].offset
  <2>1. rec \in Record
    BY DEF Types, Record
  <2>2. /\ heap' = [heap EXCEPT ![b].cells[k][o] = rec]
        /\ made' = [made EXCEPT ![c][k] = Append(@, rec)]
    BY <1>3 DEF Fill
  <2> HIDE DEF rec, o
  <2>3. made' \in [Clusters -> [Core -> Seq(Record)]]
    BY <2>1, <2>2 DEF Types
  <2>4. CASE b \in Blocks
    <3>1. heap[b] \in Memory
      BY <2>4 DEF Types
    <3>2. [heap[b] EXCEPT !.cells[k][o] = rec] \in Memory
      BY <2>1, <3>1 DEF Memory
    <3>3. [heap[b] EXCEPT !.cells[k][o] = rec].freed = heap[b].freed
      BY <3>1 DEF Memory
    <3> QED
      BY <2>2, <2>3, <2>4, <3>2, <3>3 DEF Types
  <2>5. CASE b \notin Blocks
    BY <2>2, <2>3, <2>5 DEF Types
  <2> QED
    BY <2>4, <2>5
<1> QED
  BY <1>1, <1>2, <1>3 DEF DeviceStep

LEMMA DeviceKeeps ==
  ASSUME IInv, NEW c \in Clusters, NEW k \in Core, DeviceStep(c, k)
  PROVE  IInv'
<1>1. Types /\ Unborn /\ Calls
  BY DEF IInv
<1>2. PICK from \in Places \ {"off"}, to \in Kernel : Step(c, k, from, to)
  BY <1>1, CoreStep
<1>3. /\ UNCHANGED <<next, args, arrays, loaded, dev, host, disorder>>
      /\ ~fault /\ fault' = ~Usable(dev[c])
      /\ Busy(c, k)
      /\ core' = [core EXCEPT ![c][k] = to]
  BY <1>2 DEF Step, device, Busy
<1>4. /\ heap' \in [Blocks -> Memory]
      /\ \A d \in Blocks : heap'[d].freed = heap[d].freed
      /\ made' \in [Clusters -> [Core -> Seq(Record)]]
  BY <1>1, CoreFreesNothing
<1>5. Types'
  BY <1>1, <1>3, <1>4 DEF Types
<1>6. Unborn' /\ Calls'
  BY <1>1, <1>3, <1>4 DEF Unborn, Calls
<1>7. ASSUME ~disorder PROVE Single'
  <2>1. Single
    BY <1>7 DEF IInv
  <2>2. loaded[c] /\ ~Reloading(c)
    BY <2>1, <1>1, <1>3 DEF Single, Placed, Calls, Reloading, QuietOn
  <2>3. Usable(dev[c])
    BY <2>1, <2>2 DEF Single, InUse
  <2>4. \A d \in Clusters, i \in Core : Busy(d, i)' => Busy(d, i)
    BY <1>1, <1>3 DEF Busy, Types
  <2>5. \A d \in 0 .. next - 1 : Usable(d) => Usable(d)'
    BY <1>1, <1>4, KnownBlocks DEF Usable
  <2>6. Placed'
    BY <2>1, <2>4, <1>1, <1>3 DEF Single, Placed, Calls, QuietOn
  <2>7. InUse'
    BY <2>1, <2>5, <1>1, <1>3 DEF Single, InUse, Reloading, Types
  <2>8. 1 .. next - 1 \subseteq Blocks
    BY <1>1, DeviceTraceAssumption DEF Types, Blocks
  <2>9. Released'
    BY <2>1, <2>8, <1>3, <1>4 DEF Single, Released, Reloading
  <2> QED
    BY <2>1, <2>3, <2>4, <2>6, <2>7, <2>9, <1>3 DEF Single
<1> QED
  BY <1>3, <1>5, <1>6, <1>7 DEF IInv

-----------------------------------------------------------------------------
(* A kernel starts on all cores of a group.                                *)
LEMMA ExecKeeps ==
  ASSUME IInv, NEW c \in Clusters, NEW ks \in SUBSET Core, Exec(c, ks)
  PROVE  IInv'
<1> DEFINE start == [Off EXCEPT !.at = "alloc", !.mates = ks]
<1>1. Types /\ Unborn /\ Calls
  BY DEF IInv
<1>2. start \in Kernel
  BY DEF Kernel, Off, Places
<1>3. /\ UNCHANGED <<heap, next, args, arrays, loaded, dev, host, fault, made, disorder>>
      /\ host.at = "idle" /\ loaded[c]
      /\ core' = [core EXCEPT ![c] = [k \in Core |-> IF k \in ks THEN start ELSE @[k]]]
  BY DEF Exec, At, memory, device, history
<1> HIDE DEF start
<1>4. core' \in [Clusters -> [Core -> Kernel]]
  BY <1>1, <1>2, <1>3 DEF Types
<1>5. \A d \in Clusters, k \in Core : Busy(d, k)' => d = c \/ Busy(d, k)
  BY <1>1, <1>3 DEF Busy, Types
<1>6. Types' /\ Unborn' /\ Calls'
  BY <1>1, <1>3, <1>4 DEF Types, Unborn, Calls
<1>7. ASSUME ~disorder PROVE Single'
  <2>1. Single
    BY <1>7 DEF IInv
  <2>2. Placed' /\ InUse' /\ Released'
    BY <2>1, <1>3 DEF Single, Placed, InUse, Released, Reloading, Usable
  <2> QED
    BY <2>1, <2>2, <1>3, <1>5 DEF Single
<1> QED
  BY <1>3, <1>6, <1>7 DEF IInv

(* The calls begin.                                                        *)
Begin(c, ks) == DatLoad(c) \/ Unload(c) \/ DevClose(c) \/ Wait(c, ks)

LEMMA CallKeeps ==
  ASSUME IInv, NEW c \in Clusters, NEW ks \in SUBSET Core, Begin(c, ks)
  PROVE  IInv'
<1>1. Types /\ Unborn /\ Calls
  BY DEF IInv
<1>2. /\ UNCHANGED <<heap, next, args, arrays, loaded, dev, core, fault, made>>
      /\ ~fault /\ host.at = "idle"
  <2>1. CASE DatLoad(c)
    BY <2>1 DEF DatLoad, At, memory
  <2>2. CASE Unload(c)
    BY <2>2 DEF Unload, At, memory, device
  <2>3. CASE DevClose(c)
    BY <2>3 DEF DevClose, At, memory, device, history
  <2>4. CASE Wait(c, ks)
    BY <2>4 DEF Wait, At, memory, device
  <2> QED
    BY <2>1, <2>2, <2>3, <2>4 DEF Begin
<1>3. /\ host' \in HostType /\ disorder' \in BOOLEAN
      /\ disorder => disorder'
      /\ host'.at \in {"flush", "alloc"}
      /\ host'.call # "wait" => host'.cluster = c /\ QuietOn(c)
      /\ host'.at = "flush" /\ ~disorder' => \E d \in Clusters : loaded[d]
      /\ host'.at = "flush" /\ host'.call # "wait" /\ ~disorder' => loaded[c]
      /\ host'.call = "load" => next <= MaxLoads /\ (~disorder' => ~Others(c))
      /\ host'.at = "alloc" => host'.call = "load" /\ ~loaded[c]
  <2>1. CASE DatLoad(c)
    BY <2>1, <1>1 DEF DatLoad, Idle, HostType, Types
  <2>2. CASE Unload(c)
    BY <2>2, <1>1 DEF Unload, Idle, HostType, Types
  <2>3. CASE DevClose(c)
    BY <2>3, <1>1 DEF DevClose, Idle, HostType, Types, history
  <2>4. CASE Wait(c, ks)
    BY <2>4, <1>1 DEF Wait, Idle, HostType, Types
  <2> QED
    BY <2>1, <2>2, <2>3, <2>4 DEF Begin
<1>4. Types'
  BY <1>1, <1>2, <1>3 DEF Types, HostType
<1>5. Unborn' /\ Calls'
  BY <1>1, <1>2, <1>3 DEF Unborn, Calls
<1>6. ASSUME ~disorder' PROVE Single'
  <2>1. Single
    BY <1>3, <1>6 DEF IInv
  <2>2. \A d \in Clusters : Busy(c, d)' = Busy(c, d)
    BY <1>2 DEF Busy
  <2>3. Placed'
    BY <1>2, <1>3, <1>6 DEF Placed, QuietOn, Busy, Others
  <2>4. \A d \in Clusters : loaded[d] => ~Reloading(d) /\ ~Reloading(d)'
    BY <1>2, <1>3 DEF Reloading
  <2>5. InUse' /\ Released'
    BY <2>1, <2>4, <1>2 DEF Single, InUse, Released, Usable
  <2> QED
    BY <2>1, <2>3, <2>5, <1>2 DEF Single, Busy
<1> QED
  BY <1>4, <1>5, <1>6 DEF IInv

(* The records are taken and the counters are reset.                       *)
LEMMA CollectKeeps ==
  ASSUME IInv, Flush \/ Reset
  PROVE  IInv'
<1>1. Types /\ Unborn /\ Calls
  BY DEF IInv
<1>2. /\ UNCHANGED <<next, args, arrays, loaded, dev, core, made, disorder>>
      /\ ~fault
      /\ host.at \in {"flush", "reset"}
      /\ fault' \in {~Usable(arrays), ~Usable(args)}
  BY DEF Flush, Reset, At, memory, device, history
<1>3. /\ host' \in HostType
      /\ host'.at \in {"reset", "free", "idle"}
      /\ host'.at = "reset" => host'.call = "wait" /\ host.at = "flush"
      /\ host'.at = "free" =>
           host' = [host EXCEPT !.at = "free"] /\ host.at = "flush" /\ host.call # "wait"
  <2>1. CASE Flush
    <3>1. host \in HostType /\ host.at = "flush"
      BY <2>1, <1>1 DEF Flush, At, Types, HostType
    <3>2. CASE host.call = "wait"
      BY <3>1, <3>2, <2>1 DEF Flush, HostType
    <3>3. CASE host.call # "wait"
      BY <3>1, <3>3, <2>1 DEF Flush, HostType
    <3> QED
      BY <3>2, <3>3
  <2>2. CASE Reset
    BY <2>2 DEF Reset, Idle, HostType
  <2> QED
    BY <2>1, <2>2
<1>4. /\ heap' \in [Blocks -> Memory]
      /\ \A b \in Blocks : heap'[b].freed = heap[b].freed
  <2>1. CASE heap' = heap
    BY <2>1, <1>1 DEF Types
  <2>2. CASE heap' # heap
    <3> DEFINE zero == [k \in Core |-> 0]
    <3>1. heap' = [heap EXCEPT ![args].used = zero] /\ Usable(args)
      BY <2>2 DEF Flush, Reset, memory
    <3>2. zero \in [Core -> Nat]
      OBVIOUS
    <3> HIDE DEF zero
    <3>3. args \in Blocks
      BY <3>1, <1>1, KnownBlocks DEF Usable, Types
    <3>4. heap[args] \in Memory
      BY <3>3, <1>1 DEF Types
    <3>5. [heap[args] EXCEPT !.used = zero] \in Memory
      BY <3>2, <3>4 DEF Memory
    <3>6. [heap[args] EXCEPT !.used = zero].freed = heap[args].freed
      BY <3>4 DEF Memory
    <3> QED
      BY <3>1, <3>3, <3>5, <3>6, <1>1 DEF Types
  <2> QED
    BY <2>1, <2>2
<1>5. Types'
  BY <1>1, <1>2, <1>3, <1>4 DEF Types, HostType
<1>6. Unborn' /\ Calls'
  BY <1>1, <1>2, <1>3, <1>4 DEF Unborn, Calls, Types, HostType
<1>7. ASSUME ~disorder PROVE Single'
  <2>1. Single
    BY <1>7 DEF IInv
  <2>2. PICK c \in Clusters : loaded[c]
    BY <2>1, <1>2 DEF Single, Placed
  <2>3. Usable(args) /\ Usable(arrays)
    BY <2>1, <2>2, <1>2 DEF Single, InUse, Reloading
  <2>4. Placed'
    BY <2>1, <1>1, <1>2, <1>3 DEF Single, Placed, Calls, QuietOn, Busy, Types, HostType
  <2>5. \A d \in 0 .. next - 1 : Usable(d) => Usable(d)'
    BY <1>1, <1>4, KnownBlocks DEF Usable
  <2>6. \A d \in Clusters : ~Reloading(d) /\ ~Reloading(d)'
    BY <1>2, <1>3 DEF Reloading
  <2>7. InUse'
    BY <2>1, <2>5, <2>6, <1>1, <1>2 DEF Single, InUse, Types
  <2>8. 1 .. next - 1 \subseteq Blocks
    BY <1>1, DeviceTraceAssumption DEF Types, Blocks
  <2>9. Released'
    BY <2>1, <2>6, <2>8, <1>2, <1>4 DEF Single, Released
  <2> QED
    BY <2>1, <2>3, <2>4, <2>7, <2>9, <1>2 DEF Single, Busy
<1> QED
  BY <1>2, <1>5, <1>6, <1>7 DEF IInv

(* The block is freed, and the cluster is loaded again or not at all.      *)
LEMMA FreeKeeps ==
  ASSUME IInv, Free
  PROVE  IInv'
<1>1. Types /\ Unborn /\ Calls
  BY DEF IInv
<1>2. /\ UNCHANGED <<next, arrays, dev, core, fault, made, disorder>>
      /\ ~fault /\ host.at = "free" /\ args' = Null
      /\ heap' = IF args = Null THEN heap ELSE [heap EXCEPT ![args].freed = TRUE]
  BY DEF Free, At, history
<1>3. host \in HostType /\ host.call # "wait" /\ host.cluster \in Clusters
  BY <1>1, <1>2 DEF Types, HostType, Calls
<1>4. /\ heap' \in [Blocks -> Memory]
      /\ \A b \in Blocks : heap'[b].freed <=> heap[b].freed \/ b = args
  <2>1. CASE args = Null
    <3>1. heap' = heap /\ \A b \in Blocks : b # args
      BY <2>1, <1>2 DEF Null, Blocks
    <3> QED
      BY <3>1, <1>1 DEF Types
  <2>2. CASE args # Null
    <3>1. args \in Blocks
      BY <2>2, <1>1, KnownBlocks DEF Types
    <3>2. heap[args] \in Memory
      BY <3>1, <1>1 DEF Types
    <3>3. [heap[args] EXCEPT !.freed = TRUE] \in Memory
      BY <3>2 DEF Memory
    <3>4. [heap[args] EXCEPT !.freed = TRUE].freed = TRUE
      BY <3>2 DEF Memory
    <3>5. heap' = [heap EXCEPT ![args].freed = TRUE]
      BY <2>2, <1>2
    <3>6. \A b \in Blocks : heap[b].freed \in BOOLEAN
      BY <1>1 DEF Types, Memory
    <3> QED
      BY <3>1, <3>3, <3>4, <3>5, <3>6, <1>1 DEF Types
  <2> QED
    BY <2>1, <2>2
<1>5. \/ /\ host.call = "load" /\ host' = [host EXCEPT !.at = "alloc"] /\ loaded' = loaded
      \/ /\ host' = Idle /\ loaded' = [loaded EXCEPT ![host.cluster] = FALSE]
  BY DEF Free
<1>6. host' \in HostType /\ loaded' \in [Clusters -> BOOLEAN]
  <2>1. [host EXCEPT !.at = "alloc"] \in HostType /\ Idle \in HostType
    BY <1>3 DEF HostType, Idle
  <2>2. [loaded EXCEPT ![host.cluster] = FALSE] \in [Clusters -> BOOLEAN]
    BY <1>1 DEF Types
  <2> QED
    BY <2>1, <2>2, <1>1, <1>5 DEF Types
<1>7. Types'
  BY <1>1, <1>2, <1>4, <1>6 DEF Types, HostType, Null
<1>8. Unborn'
  BY <1>1, <1>2, <1>4 DEF Unborn, Types
<1>9. Calls'
  BY <1>1, <1>2, <1>3, <1>5 DEF Calls, Idle, HostType
<1>10. ASSUME ~disorder PROVE Single'
  <2> DEFINE c == host.cluster
  <2>1. Single
    BY <1>10 DEF IInv
  <2>2. loaded[c] /\ QuietOn(c)
    BY <2>1, <1>2, <1>3 DEF Single, Placed
  <2>3. \A d \in Clusters : loaded[d] => d = c
    BY <2>1, <2>2, <1>3 DEF Single
  <2>4. args = dev[c]
    BY <2>1, <2>2, <1>2, <1>3 DEF Single, InUse, Reloading
  <2>5. \A d \in Clusters : loaded[d]' => d = c /\ Reloading(d)' /\ loaded' = loaded
    BY <2>3, <1>1, <1>3, <1>5 DEF Types, HostType, Reloading
  <2>6. \A d \in Clusters : QuietOn(d) = QuietOn(d)'
    BY <1>2 DEF QuietOn, Busy
  <2>7. Placed'
    BY <2>2, <2>5, <2>6, <1>3, <1>5 DEF Placed, HostType, Idle
  <2>8. InUse'
    BY <2>5 DEF InUse
  <2>9. \A b \in 1 .. next - 1 : heap'[b].freed
    <3>1. 1 .. next - 1 \subseteq Blocks
      BY <1>1, DeviceTraceAssumption DEF Types, Blocks
    <3>2. \A b \in 1 .. next - 1 : heap[b].freed \/ b = args
      BY <2>1, <2>3, <2>4 DEF Single, Released
    <3> QED
      BY <3>1, <3>2, <1>4
  <2>10. \A d \in Clusters, k \in Core : ~Busy(d, k)'
    BY <2>1, <2>2, <2>3, <1>2 DEF Single, Busy, QuietOn
  <2>11. \A d, e \in Clusters : loaded[d]' /\ loaded[e]' => d = e
    BY <2>5
  <2>12. ~fault' /\ Released'
    BY <2>9, <1>2 DEF Released
  <2> QED
    BY <2>7, <2>8, <2>10, <2>11, <2>12 DEF Single
<1> QED
  BY <1>2, <1>7, <1>8, <1>9, <1>10 DEF IInv

(* The cluster that is being loaded gets the next block.                   *)
LEMMA AllocKeeps ==
  ASSUME IInv, Alloc
  PROVE  IInv'
<1> DEFINE c == host.cluster
<1>1. Types /\ Unborn /\ Calls
  BY DEF IInv
<1>2. /\ UNCHANGED <<heap, core, fault, made, disorder>>
      /\ ~fault /\ host.at = "alloc" /\ host' = Idle
      /\ next' = next + 1 /\ args' = next /\ arrays' = next
      /\ loaded' = [loaded EXCEPT ![c] = TRUE]
      /\ dev' = [dev EXCEPT ![c] = next]
  BY DEF Alloc, At, history
<1>3. c \in Clusters /\ next <= MaxLoads
  BY <1>1, <1>2 DEF Calls
<1>4. next \in Blocks /\ next # Null /\ ~heap[next].freed
  BY <1>1, <1>3, DeviceTraceAssumption DEF Types, Blocks, Null, Unborn
<1>5. Types'
  <2>1. next' \in 1 .. MaxLoads + 1 /\ args' \in 0 .. next' - 1 /\ arrays' \in 0 .. next' - 1
    BY <1>1, <1>2, <1>3, DeviceTraceAssumption DEF Types
  <2>2. dev' \in [Clusters -> 0 .. next' - 1]
    BY <1>1, <1>2, <1>3 DEF Types
  <2>3. loaded' \in [Clusters -> BOOLEAN] /\ host' \in HostType
    BY <1>1, <1>2, <1>3 DEF Types, Idle, HostType
  <2> QED
    BY <2>1, <2>2, <2>3, <1>1, <1>2 DEF Types, HostType
<1>6. Unborn' /\ Calls'
  BY <1>1, <1>2, DeviceTraceAssumption DEF Unborn, Calls, Idle, Types, Blocks
<1>7. ASSUME ~disorder PROVE Single'
  <2>1. Single
    BY <1>7 DEF IInv
  <2>2. \A d \in Clusters : loaded[d]' <=> d = c
    BY <2>1, <1>1, <1>2, <1>3 DEF Single, Placed, Types
  <2>3. \A d \in Clusters, k \in Core : Busy(d, k)' => loaded[d]'
    BY <2>1, <2>2, <1>2 DEF Single, Placed, Busy
  <2>4. Placed'
    BY <1>2 DEF Placed, Idle
  <2>5. dev'[c] = next
    BY <1>1, <1>2, <1>3 DEF Types
  <2>6. InUse'
    BY <2>2, <2>5, <1>2, <1>4 DEF InUse, Usable
  <2>7. \A b \in 1 .. next - 1 : heap[b].freed
    BY <2>1, <1>2 DEF Single, Placed, Released, Reloading
  <2>8. Released'
    <3> SUFFICES ASSUME NEW b \in 1 .. next' - 1
                 PROVE  heap'[b].freed \/ \E d \in Clusters :
                          loaded'[d] /\ ~Reloading(d)' /\ dev'[d] = b
      BY DEF Released
    <3>1. CASE b = next
      BY <3>1, <2>2, <2>5, <1>2, <1>3 DEF Reloading, Idle
    <3>2. CASE b # next
      BY <3>2, <2>7, <1>1, <1>2 DEF Types
    <3> QED
      BY <3>1, <3>2
  <2> QED
    BY <2>2, <2>3, <2>4, <2>6, <2>8, <1>2 DEF Single
<1> QED
  BY <1>2, <1>5, <1>6, <1>7 DEF IInv

-----------------------------------------------------------------------------
LEMMA NextIInv == IInv /\ [Next]_vars => IInv'
<1> SUFFICES ASSUME IInv, [Next]_vars PROVE IInv'
  OBVIOUS
<1>1. CASE UNCHANGED vars
  BY <1>1 DEF IInv, Types, Unborn, Calls, Single, Placed, InUse, Released, Reloading, QuietOn,
              Busy, Usable, vars, memory, device, history
<1>2. ASSUME NEW c \in Clusters, NEW k \in Core, DeviceStep(c, k) PROVE IInv'
  BY <1>2, DeviceKeeps
<1>3. ASSUME NEW c \in Clusters, NEW ks \in SUBSET Core, GroupStep(c, ks) PROVE IInv'
  BY <1>3, ExecKeeps, CallKeeps DEF GroupStep, Begin
<1>4. CASE HostStep
  BY <1>4, CallKeeps, CollectKeeps, FreeKeeps, AllocKeeps DEF HostStep, Begin
<1> QED
  BY <1>1, <1>2, <1>3, <1>4 DEF Next

(* Freed buffers or null pointers are used only after two clusters have    *)
(* been loaded at a time, one unloaded that was not loaded, or a group     *)
(* waited for while none was loaded, whatever the kernels, the groups and  *)
(* the calls (instrumented_func_host.cpp:277-281, 312-323, 337-345,        *)
(* 429-441, 460-470).                                                      *)
THEOREM OrderIsSafe == Spec => []FaultsNeedDisorder
<1>1. IInv => FaultsNeedDisorder
  BY DEF IInv, Types, Single, FaultsNeedDisorder
<1> QED
  BY <1>1, InitIInv, NextIInv, PTL DEF Spec

(* As long as the calls are in order, every block but the one in use is    *)
(* freed between the calls of the program                                  *)
(* (instrumented_func_host.cpp:312-323).                                   *)
THEOREM OrderLeaksNothing == Spec => []NothingLeaks
<1>1. IInv => NothingLeaks
  BY DEF IInv, Types, Single, Released, NothingLeaks
<1> QED
  BY <1>1, InitIInv, NextIInv, PTL DEF Spec

-----------------------------------------------------------------------------
(* What the cores have written, and what has become of it.                 *)

Buffer == [freed : BOOLEAN, used : [Core -> 0 .. Capacity],
           cells : [Core -> [1 .. Capacity -> Records]]]

(* TypeOK says this beyond Types.                                          *)
Sizes ==
  /\ heap \in [Blocks -> Buffer]
  /\ opened \in Clusters \cup {NoCluster}
  /\ core \in [Clusters -> [Core -> [at : Places, offset : 0 .. Capacity,
                                     seen : 0 .. Capacity, mates : SUBSET Core]]]
  /\ execs \in 0 .. MaxExecs
  /\ file \in [Clusters -> [Core -> Seq(Records)]]
  /\ made \in [Clusters -> [Core -> Seq(Records)]]
  /\ raced \subseteq Clusters \X Core /\ crossed \in BOOLEAN

(* No two clusters use one block, and a cluster that is loaded has one.    *)
Owned ==
  /\ \A c, d \in Clusters : dev[c] # Null /\ dev[c] = dev[d] => c = d
  /\ \A c \in Clusters : loaded[c] => dev[c] # Null

(* Nobody has written to a block that is still to be given out.            *)
Virgin ==
  \A b \in Blocks, k \in Core : b >= next =>
    /\ heap[b].used[k] = 0
    /\ \A o \in 1 .. Capacity : heap[b].cells[k][o] = Junk

(* The program has waited for the kernels of a cluster that it loads or    *)
(* unloads.                                                                *)
Quiet == host.at # "idle" /\ host.call # "wait" => QuietOn(host.cluster)

(* What a kernel knows of its counter: a reset may have come between, but  *)
(* nobody has added to it.                                                 *)
Knows(c, k) ==
  /\ Busy(c, k) => loaded[c] /\ k \in core[c][k].mates
  /\ core[c][k].at \in {"read", "bump", "fill"} => core[c][k].offset # 0
  /\ core[c][k].at = "read" => Used(c, k) < Capacity
  /\ core[c][k].at = "bump" => core[c][k].seen < Capacity
  /\ Len(made[c][k]) <= execs
  /\ Busy(c, k) => Len(made[c][k]) < execs

Kernels == \A c \in Clusters, k \in Core : Knows(c, k)

(* The block the host reads is the one it frees, and its cluster is        *)
(* loaded; it is that of opened_cluster until a cluster is loaded again    *)
(* beside another one.                                                     *)
Told ==
  /\ args \in {Null, arrays}
  /\ Usable(arrays) => args = arrays /\ \E c \in Clusters : loaded[c] /\ dev[c] = arrays
  /\ host.at # "idle" /\ host.call = "load" => opened = host.cluster
  /\ ~crossed /\ host.at # "alloc" /\ opened # NoCluster /\ Usable(arrays) => dev[opened] = arrays

(* A block holds the records of the cluster that uses it.                  *)
Own(r, c) == r = Junk \/ r.cluster = c

OwnCells ==
  \A c \in Clusters, k \in Core, o \in 1 .. Capacity :
    dev[c] # Null => Own(heap[dev[c]].cells[k][o], c)

(* The host has the records of a core, and has not emptied its buffer yet. *)
Taken == host.at \in {"reset", "free", "alloc"}

Filled(c, k) == IF core[c][k].at = "fill" THEN Used(c, k) - 1 ELSE Used(c, k)

Stock(c, k) ==
  IF loaded[c] /\ ~Taken THEN SubSeq(heap[dev[c]].cells[k], 1, Filled(c, k)) ELSE <<>>

(* A kernel that the host has not raced with finds its counter as it read  *)
(* it, and stream and buffer are all that its core has made.               *)
Unraced(c, k) ==
  <<c, k>> \notin raced =>
    /\ core[c][k].at \in {"read", "bump"} => core[c][k].offset = Used(c, k) + 1
    /\ core[c][k].at = "bump" => core[c][k].seen = Used(c, k)
    /\ core[c][k].at = "fill" => core[c][k].offset = Used(c, k)
    /\ file[c][k] \o Stock(c, k) = made[c][k]

Complete ==
  ~disorder =>
    /\ \A c \in Clusters : loaded[c] => opened = c
    /\ \A c \in Clusters, k \in Core : Busy(c, k) /\ host.at # "idle" => <<c, k>> \in raced
    /\ \A c \in Clusters, k \in Core : Unraced(c, k)

Streams == Owned /\ Virgin /\ Quiet /\ Kernels /\ Told /\ OwnCells /\ StreamsAreOwn

DInv == IInv /\ Sizes /\ Streams /\ Complete

LEMMA SizesAreTypes == Types /\ Sizes => TypeOK
  BY KnownBlocks, DeviceTraceAssumption DEF Types, Sizes, TypeOK, HostType, Buffer

LEMMA InitDInv == Init => DInv
<1> USE DeviceTraceAssumption
<1> SUFFICES ASSUME Init PROVE DInv
  OBVIOUS
<1>1. Junk \in Records /\ Core # {}
  BY DEF NoCluster, Junk, Records, Core
<1>2. Sizes
  <2>1. heap \in [Blocks -> Buffer]
    BY <1>1 DEF Init, Buffer
  <2>2. core \in [Clusters -> [Core -> [at : Places, offset : 0 .. Capacity,
                                        seen : 0 .. Capacity, mates : SUBSET Core]]]
    BY DEF Init, Off, Places
  <2>3. file \in [Clusters -> [Core -> Seq(Records)]] /\ made \in [Clusters -> [Core -> Seq(Records)]]
    BY DEF Init
  <2>4. opened \in Clusters \cup {NoCluster} /\ execs \in 0 .. MaxExecs
    BY DEF Init
  <2>5. raced \subseteq Clusters \X Core /\ crossed \in BOOLEAN
    BY DEF Init
  <2> QED
    BY <2>1, <2>2, <2>3, <2>4, <2>5 DEF Sizes
<1>3. \A c \in Clusters, k \in Core :
        /\ ~Busy(c, k) /\ core[c][k].at = "off" /\ ~loaded[c] /\ dev[c] = Null
        /\ file[c][k] = <<>> /\ made[c][k] = <<>> /\ Len(made[c][k]) = 0
  BY DEF Init, Busy, Off
<1>4. Owned /\ Virgin /\ Quiet /\ Kernels
  BY <1>3 DEF Init, Owned, Virgin, Quiet, Kernels, Knows, Idle
<1>5. Told /\ OwnCells /\ StreamsAreOwn
  BY <1>3 DEF Init, Told, OwnCells, StreamsAreOwn, Idle, Usable
<1>6. Complete
  <2>1. \A c \in Clusters, k \in Core : Stock(c, k) = <<>>
    BY <1>3 DEF Stock
  <2>2. <<>> \o <<>> = <<>>
    BY EmptySeq, ConcatEmptySeq
  <2>3. ASSUME NEW c \in Clusters, NEW k \in Core PROVE Unraced(c, k)
    <3>1. file[c][k] \o Stock(c, k) = made[c][k]
      BY <1>3, <2>1, <2>2, Zenon
    <3> QED
      BY <1>3, <3>1 DEF Unraced
  <2> QED
    BY <1>3, <2>3 DEF Complete, Init
<1> QED
  BY <1>2, <1>4, <1>5, <1>6, InitIInv DEF DInv, Streams

-----------------------------------------------------------------------------
(* A record behind the last one.                                           *)
LEMMA StoreLast ==
  ASSUME NEW S, NEW s \in [1 .. Capacity -> S], NEW n \in 1 .. Capacity, NEW e \in S,
         NEW f \in Seq(S)
  PROVE  f \o SubSeq([s EXCEPT ![n] = e], 1, n) = Append(f \o SubSeq(s, 1, n - 1), e)
<1> DEFINE x == [s EXCEPT ![n] = e]
           a == SubSeq(s, 1, n - 1)
           b == SubSeq(x, 1, n)
<1> USE DeviceTraceAssumption
<1>1. x \in [1 .. Capacity -> S] /\ x[n] = e /\ \A i \in 1 .. n - 1 : x[i] = s[i]
  OBVIOUS
<1> HIDE DEF x
<1>2. a \in Seq(S) /\ Len(a) = n - 1 /\ \A i \in 1 .. n - 1 : a[i] = s[i]
  <2>1. \A i \in 1 .. n - 1 : s[i] \in S
    OBVIOUS
  <2> QED
    BY <2>1, SubSeqProperties
<1>3. b \in Seq(S) /\ Len(b) = n /\ \A i \in 1 .. n : b[i] = x[i]
  <2>1. \A i \in 1 .. n : x[i] \in S
    BY <1>1
  <2> QED
    BY <2>1, SubSeqProperties
<1> HIDE DEF a, b
<1>4. Append(a, e) \in Seq(S) /\ Len(Append(a, e)) = n
  BY <1>2, AppendProperties
<1>5. \A i \in 1 .. n : Append(a, e)[i] = b[i]
  <2> SUFFICES ASSUME NEW i \in 1 .. n PROVE Append(a, e)[i] = b[i]
    OBVIOUS
  <2>1. CASE i = n
    BY <2>1, <1>1, <1>2, <1>3, AppendProperties
  <2>2. CASE i # n
    BY <2>2, <1>1, <1>2, <1>3, AppendProperties
  <2> QED
    BY <2>1, <2>2
<1>6. b = Append(a, e)
  BY <1>3, <1>4, <1>5, SeqEqual
<1>7. f \o Append(a, e) = Append(f \o a, e)
  BY <1>2, AppendIsConcat, ConcatAssociative, ConcatProperties
<1> QED
  BY <1>6, <1>7 DEF a, b, x

-----------------------------------------------------------------------------
(* What a step of core k of cluster c leaves alone.                        *)
Apart(c, k) ==
  /\ UNCHANGED <<next, args, arrays, loaded, opened, dev, host, execs, file, raced, disorder, crossed>>
  /\ \A d \in Clusters, i \in Core : <<d, i>> # <<c, k>> =>
       core'[d][i] = core[d][i] /\ made'[d][i] = made[d][i]
  /\ \A b \in Blocks, i \in Core : b # dev[c] \/ i # k =>
       heap'[b].used[i] = heap[b].used[i] /\ heap'[b].cells[i] = heap[b].cells[i]

(* The kernel is in a block of its own.                                    *)
LEMMA BusyBlock ==
  ASSUME DInv, NEW c \in Clusters, NEW k \in Core, Busy(c, k)
  PROVE  /\ loaded[c] /\ dev[c] # Null /\ dev[c] \in Blocks /\ dev[c] < next
         /\ Used(c, k) = heap[dev[c]].used[k] /\ Used(c, k) \in 0 .. Capacity
         /\ heap[dev[c]] \in Buffer
<1>1. Types /\ Sizes /\ Owned /\ Kernels
  BY DEF DInv, Streams, IInv
<1>2. loaded[c] /\ dev[c] # Null
  BY <1>1 DEF Kernels, Knows, Owned
<1>3. dev[c] \in 0 .. next - 1
  BY <1>1 DEF Types
<1>4. dev[c] \in Blocks /\ dev[c] < next
  BY <1>1, <1>2, <1>3, KnownBlocks DEF Types
<1>5. heap[dev[c]] \in Buffer
  BY <1>1, <1>4 DEF Sizes
<1> QED
  BY <1>2, <1>4, <1>5 DEF Used, Buffer

LEMMA MoveCore ==
  ASSUME DInv, NEW c \in Clusters, NEW k \in Core,
         Reserve(c, k) \/ Read(c, k)
  PROVE  Apart(c, k) /\ heap' = heap /\ made' = made
<1>1. PICK from, to : Step(c, k, from, to)
  BY DEF Reserve, Read
<1>2. heap' = heap /\ made' = made
  BY DEF Reserve, Read
<1>3. \A d \in Clusters, i \in Core : <<d, i>> # <<c, k>> => core'[d][i] = core[d][i]
  BY <1>1 DEF Step, DInv, Sizes
<1> QED
  BY <1>1, <1>2, <1>3 DEF Apart, Step, device

LEMMA BumpCore ==
  ASSUME DInv, NEW c \in Clusters, NEW k \in Core, Bump(c, k)
  PROVE  /\ Apart(c, k)
         /\ heap' \in [Blocks -> Buffer]
         /\ heap'[dev[c]].used[k] = core[c][k].seen + 1
         /\ heap'[dev[c]].cells[k] = heap[dev[c]].cells[k]
         /\ core'[c][k] = [core[c][k] EXCEPT !.at = "fill"]
         /\ made' = made
<1> DEFINE b == dev[c]
           n == core[c][k].seen + 1
<1>1. /\ Step(c, k, "bump", [core[c][k] EXCEPT !.at = "fill"])
      /\ heap' = [heap EXCEPT ![b].used[k] = n] /\ made' = made
      /\ Busy(c, k) /\ core[c][k].at = "bump"
  BY DEF Bump, Step, Busy
<1>2. Sizes /\ Kernels
  BY DEF DInv, Streams
<1>3. b \in Blocks /\ heap[b] \in Buffer
  BY <1>1, BusyBlock
<1>4. n \in 0 .. Capacity
  BY <1>1, <1>2, DeviceTraceAssumption DEF Sizes, Kernels, Knows
<1> HIDE DEF b, n
<1>5. [heap[b] EXCEPT !.used[k] = n] \in Buffer
  BY <1>3, <1>4 DEF Buffer
<1>6. /\ [heap[b] EXCEPT !.used[k] = n].cells = heap[b].cells
      /\ [heap[b] EXCEPT !.used[k] = n].used = [heap[b].used EXCEPT ![k] = n]
  BY <1>3 DEF Buffer
<1>7. /\ heap' \in [Blocks -> Buffer]
      /\ heap'[b].cells = heap[b].cells
      /\ heap'[b].used = [heap[b].used EXCEPT ![k] = n]
      /\ \A a \in Blocks : a # b => heap'[a] = heap[a]
  BY <1>1, <1>2, <1>3, <1>5, <1>6 DEF Sizes
<1>8. heap[b].used \in [Core -> 0 .. Capacity]
  BY <1>3 DEF Buffer
<1>9. heap'[b].used[k] = n /\ \A i \in Core : i # k => heap'[b].used[i] = heap[b].used[i]
  BY <1>7, <1>8
<1>10. \A d \in Clusters, i \in Core : <<d, i>> # <<c, k>> => core'[d][i] = core[d][i]
  BY <1>1, <1>2 DEF Step, Sizes
<1>11. core'[c][k] = [core[c][k] EXCEPT !.at = "fill"]
  BY <1>1, <1>2 DEF Step, Sizes
<1>12. Apart(c, k)
  BY <1>1, <1>7, <1>9, <1>10 DEF Apart, Step, device, b
<1> QED
  BY <1>1, <1>7, <1>9, <1>11, <1>12 DEF b, n

LEMMA FillCore ==
  ASSUME DInv, NEW c \in Clusters, NEW k \in Core, Fill(c, k)
  PROVE  LET rec == [cluster |-> c, n |-> Len(made[c][k]) + 1]
             o   == core[c][k].offset IN
         /\ Apart(c, k)
         /\ heap' \in [Blocks -> Buffer]
         /\ heap'[dev[c]].used[k] = heap[dev[c]].used[k]
         /\ heap'[dev[c]].cells[k] = [heap[dev[c]].cells[k] EXCEPT ![o] = rec]
         /\ core'[c][k] = Off
         /\ made'[c][k] = Append(made[c][k], rec)
         /\ made' \in [Clusters -> [Core -> Seq(Records)]]
         /\ rec \in Records /\ o \in 1 .. Capacity
<1> DEFINE b   == dev[c]
           rec == [cluster |-> c, n |-> Len(made[c][k]) + 1]
           o   == core[c][k].offset
<1>1. /\ Step(c, k, "fill", Off)
      /\ heap' = [heap EXCEPT ![b].cells[k][o] = rec]
      /\ made' = [made EXCEPT ![c][k] = Append(@, rec)]
      /\ Busy(c, k) /\ core[c][k].at = "fill"
  BY DEF Fill, Step, Busy
<1>2. Sizes /\ Kernels
  BY DEF DInv, Streams
<1>3. b \in Blocks /\ heap[b] \in Buffer
  BY <1>1, BusyBlock
<1>4. o \in 1 .. Capacity
  BY <1>1, <1>2, DeviceTraceAssumption DEF Sizes, Kernels, Knows
<1>5. rec \in Records
  <2>1. made[c][k] \in Seq(Records)
    BY <1>2 DEF Sizes
  <2>2. Len(made[c][k]) \in Nat /\ Len(made[c][k]) < execs
    BY <1>1, <1>2, <2>1 DEF Kernels, Knows
  <2>3. Len(made[c][k]) + 1 \in 0 .. MaxExecs
    BY <1>2, <2>2, DeviceTraceAssumption DEF Sizes
  <2> QED
    BY <2>3 DEF Records
<1> HIDE DEF b, rec, o
<1>6. [heap[b] EXCEPT !.cells[k][o] = rec] \in Buffer
  BY <1>3, <1>4, <1>5 DEF Buffer
<1>7. /\ [heap[b] EXCEPT !.cells[k][o] = rec].used = heap[b].used
      /\ [heap[b] EXCEPT !.cells[k][o] = rec].cells =
           [heap[b].cells EXCEPT ![k] = [heap[b].cells[k] EXCEPT ![o] = rec]]
  BY <1>3 DEF Buffer
<1>8. /\ heap' \in [Blocks -> Buffer]
      /\ heap'[b].used = heap[b].used
      /\ heap'[b].cells = [heap[b].cells EXCEPT ![k] = [heap[b].cells[k] EXCEPT ![o] = rec]]
      /\ \A a \in Blocks : a # b => heap'[a] = heap[a]
  BY <1>1, <1>2, <1>3, <1>6, <1>7 DEF Sizes
<1>9. heap[b].cells \in [Core -> [1 .. Capacity -> Records]]
  BY <1>3 DEF Buffer
<1>10. /\ heap'[b].cells[k] = [heap[b].cells[k] EXCEPT ![o] = rec]
       /\ \A i \in Core : i # k => heap'[b].cells[i] = heap[b].cells[i]
  BY <1>8, <1>9
<1>11. \A d \in Clusters, i \in Core : <<d, i>> # <<c, k>> =>
         core'[d][i] = core[d][i] /\ made'[d][i] = made[d][i]
  BY <1>1, <1>2 DEF Step, Sizes
<1>12. core'[c][k] = Off /\ made'[c][k] = Append(made[c][k], rec)
  BY <1>1, <1>2 DEF Step, Sizes
<1>13. made' \in [Clusters -> [Core -> Seq(Records)]]
  BY <1>1, <1>2, <1>5 DEF Sizes
<1>14. Apart(c, k)
  <2>1. UNCHANGED <<next, args, arrays, loaded, opened, dev, host, execs, file, raced, disorder,
                    crossed>>
    BY <1>1 DEF Step, device
  <2>2. ASSUME NEW a \in Blocks, NEW i \in Core, a # dev[c] \/ i # k
        PROVE  heap'[a].used[i] = heap[a].used[i] /\ heap'[a].cells[i] = heap[a].cells[i]
    BY <1>8, <1>10, <2>2 DEF b
  <2> QED
    BY <1>11, <2>1, <2>2 DEF Apart
<1> QED
  BY <1>4, <1>5, <1>8, <1>10, <1>12, <1>13, <1>14 DEF b, rec, o

(* All that does not speak of core k of cluster c stays as it is.          *)
LEMMA ApartKeeps ==
  ASSUME DInv, NEW c \in Clusters, NEW k \in Core, Busy(c, k), Apart(c, k),
         \A b \in Blocks : heap'[b].freed = heap[b].freed
  PROVE  /\ Owned' /\ Virgin' /\ Quiet' /\ Told' /\ StreamsAreOwn'
         /\ \A d \in Clusters, i \in Core : <<d, i>> # <<c, k>> => Knows(d, i)'
         /\ \A d \in Clusters, i \in Core, o \in 1 .. Capacity :
              dev[d] # Null /\ <<d, i>> # <<c, k>> => Own(heap'[dev[d]].cells[i][o], d)
         /\ (Knows(c, k)' => Kernels')
         /\ ~disorder /\ Unraced(c, k)' => Complete'
<1>1. /\ Types /\ Sizes /\ Owned /\ Virgin /\ Quiet /\ Kernels /\ Told /\ OwnCells
      /\ StreamsAreOwn /\ Complete
  BY DEF DInv, Streams, IInv
<1>2. /\ UNCHANGED <<next, args, arrays, loaded, opened, dev, host, execs, file, raced, disorder, crossed>>
      /\ \A d \in Clusters, i \in Core : <<d, i>> # <<c, k>> =>
           core'[d][i] = core[d][i] /\ made'[d][i] = made[d][i]
      /\ \A b \in Blocks, i \in Core : b # dev[c] \/ i # k =>
           heap'[b].used[i] = heap[b].used[i] /\ heap'[b].cells[i] = heap[b].cells[i]
  BY DEF Apart
<1>3. dev[c] \in Blocks /\ dev[c] # Null /\ dev[c] < next
  BY BusyBlock
<1>4. \A d \in Clusters : dev[d] # Null => dev[d] \in Blocks
  BY <1>1, KnownBlocks DEF Types
<1>5. \A d \in Clusters, i \in Core : dev[d] # Null /\ <<d, i>> # <<c, k>> =>
        dev[d] # dev[c] \/ i # k
  BY <1>1 DEF Owned
<1>6. Owned' /\ StreamsAreOwn'
  BY <1>1, <1>2 DEF Owned, StreamsAreOwn
<1>7. Virgin'
  <2>1. \A b \in Blocks : b >= next => b # dev[c]
    <3>1. next \in Nat /\ dev[c] \in Nat
      BY <1>1, <1>3 DEF Types, Blocks
    <3> QED
      BY <1>3, <3>1 DEF Blocks
  <2> QED
    BY <1>1, <1>2, <2>1 DEF Virgin
<1>8. \A d \in Clusters, i \in Core : <<d, i>> # <<c, k>> => Busy(d, i)' = Busy(d, i)
  BY <1>2 DEF Busy
<1>9. Quiet'
  <2>1. host.at # "idle" /\ host.call # "wait" => host.cluster \in Clusters /\ host.cluster # c
    BY <1>1 DEF Quiet, QuietOn, IInv, Calls, DInv
  <2> QED
    BY <1>1, <1>2, <1>8, <2>1 DEF Quiet, QuietOn
<1>10. Told'
  <2>1. arrays # Null => arrays \in Blocks
    BY <1>1, KnownBlocks DEF Types
  <2>2. Usable(arrays)' <=> Usable(arrays)
    BY <1>2, <2>1 DEF Usable
  <2> QED
    BY <1>1, <1>2, <2>2 DEF Told
<1>11. \A d \in Clusters, i \in Core : <<d, i>> # <<c, k>> =>
         /\ Used(d, i)' = Used(d, i)
         /\ Filled(d, i)' = Filled(d, i)
         /\ Stock(d, i)' = Stock(d, i)
  <2> SUFFICES ASSUME NEW d \in Clusters, NEW i \in Core, <<d, i>> # <<c, k>>
               PROVE  /\ Used(d, i)' = Used(d, i)
                      /\ Filled(d, i)' = Filled(d, i)
                      /\ Stock(d, i)' = Stock(d, i)
    OBVIOUS
  <2>1. Used(d, i)' = Used(d, i)
    BY <1>2, <1>4, <1>5 DEF Used
  <2>2. Filled(d, i)' = Filled(d, i)
    BY <1>2, <2>1 DEF Filled
  <2>3. dev[d] # Null => heap'[dev[d]].cells[i] = heap[dev[d]].cells[i]
    BY <1>2, <1>4, <1>5
  <2>4. loaded[d] => dev[d] # Null
    BY <1>1 DEF Owned
  <2>5. Stock(d, i)' = Stock(d, i)
    BY <1>2, <2>2, <2>3, <2>4 DEF Stock, Taken
  <2> QED
    BY <2>1, <2>2, <2>5
<1>12. \A d \in Clusters, i \in Core : <<d, i>> # <<c, k>> => Knows(d, i)'
  BY <1>1, <1>2, <1>8, <1>11 DEF Kernels, Knows
<1>13. \A d \in Clusters, i \in Core, o \in 1 .. Capacity :
         dev[d] # Null /\ <<d, i>> # <<c, k>> => Own(heap'[dev[d]].cells[i][o], d)
  BY <1>1, <1>2, <1>4, <1>5 DEF OwnCells
<1>14. Knows(c, k)' => Kernels'
  <2>1. \A d \in Clusters, i \in Core : <<d, i>> # <<c, k>> \/ (d = c /\ i = k)
    OBVIOUS
  <2> QED
    BY <1>12, <2>1 DEF Kernels
<1>15. ASSUME ~disorder, Unraced(c, k)' PROVE Complete'
  <2>1. \A d \in Clusters, i \in Core : Busy(d, i)' => Busy(d, i)
    BY <1>8
  <2>2. \A d \in Clusters, i \in Core : <<d, i>> # <<c, k>> => Unraced(d, i)'
    <3> SUFFICES ASSUME NEW d \in Clusters, NEW i \in Core, <<d, i>> # <<c, k>>
                 PROVE  Unraced(d, i)'
      OBVIOUS
    <3>1. Unraced(d, i)
      BY <1>1, <1>15 DEF Complete
    <3>2. /\ core'[d][i] = core[d][i] /\ made'[d][i] = made[d][i] /\ file' = file
          /\ raced' = raced
      BY <1>2
    <3>3. Used(d, i)' = Used(d, i) /\ Stock(d, i)' = Stock(d, i)
      BY <1>11
    <3> QED
      BY <3>1, <3>2, <3>3 DEF Unraced
  <2>3. \A d \in Clusters, i \in Core : <<d, i>> # <<c, k>> \/ (d = c /\ i = k)
    OBVIOUS
  <2>4. \A d \in Clusters, i \in Core : Unraced(d, i)'
    BY <1>15, <2>2, <2>3
  <2> QED
    BY <1>1, <1>2, <1>15, <2>1, <2>4 DEF Complete
<1> QED
  BY <1>6, <1>7, <1>9, <1>10, <1>12, <1>13, <1>14, <1>15

LEMMA MoveKeeps ==
  ASSUME DInv, NEW c \in Clusters, NEW k \in Core, Reserve(c, k) \/ Read(c, k)
  PROVE  DInv'
<1> DEFINE p == core[c][k]
           q == core'[c][k]
           n == Used(c, k)
<1>1. Types /\ Sizes /\ Kernels /\ OwnCells /\ Complete
  BY DEF DInv, Streams, IInv
<1>2. /\ Apart(c, k) /\ heap' = heap /\ made' = made
      /\ Busy(c, k) /\ DeviceStep(c, k)
  BY MoveCore DEF Reserve, Read, Step, Busy, DeviceStep
<1>3. /\ UNCHANGED <<loaded, dev, execs, opened, file, raced, crossed, disorder, host>>
      /\ Used(c, k)' = n
  BY <1>2 DEF Apart, Used
<1>4. n \in 0 .. Capacity
  BY <1>2, BusyBlock
<1>5. p \in [at : Places, offset : 0 .. Capacity, seen : 0 .. Capacity, mates : SUBSET Core]
  BY <1>1 DEF Sizes
<1>6. Knows(c, k) /\ loaded[c]
  BY <1>1, <1>2 DEF Kernels, Knows
<1>7. \/ q = Off
      \/ p.at = "alloc" /\ n + 1 <= Capacity /\ q = [p EXCEPT !.at = "read", !.offset = n + 1]
      \/ p.at = "read" /\ q = [p EXCEPT !.at = "bump", !.seen = n]
  <2>1. CASE Reserve(c, k)
    <3>1. /\ p.at = "alloc"
          /\ core' = [core EXCEPT ![c][k] = IF n + 1 > Capacity THEN Off
                                            ELSE [p EXCEPT !.at = "read", !.offset = n + 1]]
      BY <2>1 DEF Reserve, Step
    <3>2. q = IF n + 1 > Capacity THEN Off ELSE [p EXCEPT !.at = "read", !.offset = n + 1]
      BY <3>1, <1>1 DEF Sizes
    <3> QED
      BY <3>1, <3>2, <1>4, DeviceTraceAssumption
  <2>2. CASE Read(c, k)
    <3>1. p.at = "read" /\ core' = [core EXCEPT ![c][k] = [p EXCEPT !.at = "bump", !.seen = n]]
      BY <2>2 DEF Read, Step
    <3> QED
      BY <3>1, <1>1 DEF Sizes
  <2> QED
    BY <1>2, <2>1, <2>2
<1>8. p.at \in {"alloc", "read"}
  BY DEF Reserve, Read, Step
<1> HIDE DEF p, q, n
<1>9. \/ q.at = "off" /\ q.offset = 0 /\ q.seen = 0 /\ q.mates = {}
      \/ /\ p.at = "alloc" /\ q.at = "read" /\ q.offset = n + 1 /\ n < Capacity
         /\ q.seen = p.seen /\ q.mates = p.mates
      \/ p.at = "read" /\ q.at = "bump" /\ q.seen = n /\ q.offset = p.offset /\ q.mates = p.mates
  <2>1. CASE q = Off
    BY <2>1 DEF Off
  <2>2. CASE p.at = "alloc" /\ n + 1 <= Capacity /\ q = [p EXCEPT !.at = "read", !.offset = n + 1]
    BY <2>2, <1>4, <1>5, DeviceTraceAssumption
  <2>3. CASE p.at = "read" /\ q = [p EXCEPT !.at = "bump", !.seen = n]
    BY <2>3, <1>5
  <2> QED
    BY <1>7, <2>1, <2>2, <2>3
<1>10. q \in [at : Places, offset : 0 .. Capacity, seen : 0 .. Capacity, mates : SUBSET Core]
  <2>1. Off \in [at : Places, offset : 0 .. Capacity, seen : 0 .. Capacity, mates : SUBSET Core]
    BY DeviceTraceAssumption DEF Off, Places
  <2>2. "read" \in Places /\ "bump" \in Places
    BY DEF Places
  <2>3. CASE p.at = "alloc" /\ n + 1 <= Capacity /\ q = [p EXCEPT !.at = "read", !.offset = n + 1]
    <3>1. n + 1 \in 0 .. Capacity
      BY <2>3, <1>4, DeviceTraceAssumption
    <3> QED
      BY <2>2, <2>3, <3>1, <1>5
  <2>4. CASE p.at = "read" /\ q = [p EXCEPT !.at = "bump", !.seen = n]
    BY <2>2, <2>4, <1>4, <1>5
  <2> QED
    BY <1>7, <2>1, <2>3, <2>4
<1>11. Sizes'
  <2>2. core' = [core EXCEPT ![c][k] = q]
    <3>1. PICK from, to : core' = [core EXCEPT ![c][k] = to]
      BY DEF Reserve, Read, Step
    <3>2. q = to
      BY <3>1, <1>1 DEF Sizes, q
    <3> QED
      BY <3>1, <3>2
  <2>3. core' \in [Clusters -> [Core -> [at : Places, offset : 0 .. Capacity,
                                         seen : 0 .. Capacity, mates : SUBSET Core]]]
    BY <2>2, <1>1, <1>10 DEF Sizes
  <2> QED
    BY <2>3, <1>1, <1>2, <1>3 DEF Sizes
<1>12. Knows(c, k)'
  <2>1. Busy(c, k)' => q.mates = p.mates
    BY <1>9 DEF Busy, q
  <2>2. n + 1 # 0
    BY <1>4
  <2> QED
    BY <2>1, <2>2, <1>2, <1>3, <1>6, <1>9 DEF Knows, p, q, n
<1>13. OwnCells'
  BY <1>1, <1>2, <1>3 DEF OwnCells
<1>14. ASSUME ~disorder PROVE Unraced(c, k)'
  <2> SUFFICES ASSUME <<c, k>> \notin raced
               PROVE  Unraced(c, k)'
    BY <1>3 DEF Unraced
  <2>1. Unraced(c, k)
    BY <1>1, <1>14 DEF Complete
  <2>2. Filled(c, k)' = n /\ Filled(c, k) = n
    BY <1>3, <1>8, <1>9 DEF Filled, p, q, n
  <2>3. Stock(c, k)' = Stock(c, k)
    BY <2>2, <1>2, <1>3 DEF Stock, Taken
  <2>4. file'[c][k] \o Stock(c, k)' = made'[c][k]
    BY <2>1, <2>3, <1>2, <1>3 DEF Unraced
  <2>5. p.at = "read" => p.offset = n + 1
    BY <2>1 DEF Unraced, p, n
  <2> QED
    BY <2>4, <2>5, <1>3, <1>9 DEF Unraced, q, n
<1>15. \A b \in Blocks : heap'[b].freed = heap[b].freed
  BY <1>2
<1> QED
  BY <1>2, <1>3, <1>11, <1>12, <1>13, <1>14, <1>15, ApartKeeps, DeviceKeeps
    DEF DInv, Streams, Complete

LEMMA CountKeeps ==
  ASSUME DInv, NEW c \in Clusters, NEW k \in Core, Bump(c, k)
  PROVE  DInv'
<1> DEFINE p == core[c][k]
           q == core'[c][k]
           b == dev[c]
<1>1. Types /\ Sizes /\ Owned /\ Kernels /\ OwnCells /\ Complete
  BY DEF DInv, Streams, IInv
<1>2. /\ Busy(c, k) /\ DeviceStep(c, k) /\ p.at = "bump"
      /\ core' = [core EXCEPT ![c][k] = [p EXCEPT !.at = "fill"]]
  BY DEF Bump, Step, Busy, DeviceStep
<1>3. /\ Apart(c, k)
      /\ heap' \in [Blocks -> Buffer]
      /\ heap'[b].used[k] = p.seen + 1
      /\ heap'[b].cells[k] = heap[b].cells[k]
      /\ q = [p EXCEPT !.at = "fill"]
      /\ made' = made
  BY BumpCore
<1>4. UNCHANGED <<loaded, dev, execs, opened, file, raced, crossed, disorder, host>>
  BY <1>3 DEF Apart
<1>5. loaded[c] /\ b # Null /\ b \in Blocks /\ Used(c, k) = heap[b].used[k] /\ Used(c, k) \in 0 .. Capacity
  BY <1>2, BusyBlock
<1>6. Used(c, k)' = p.seen + 1
  BY <1>3, <1>4, <1>5 DEF Used
<1>7. p \in [at : Places, offset : 0 .. Capacity, seen : 0 .. Capacity, mates : SUBSET Core]
  BY <1>1 DEF Sizes
<1> HIDE DEF p, q
<1>8. q.at = "fill" /\ q.offset = p.offset /\ q.mates = p.mates
  BY <1>3, <1>7
<1>9. Sizes'
  <2>1. [p EXCEPT !.at = "fill"] \in
          [at : Places, offset : 0 .. Capacity, seen : 0 .. Capacity, mates : SUBSET Core]
    BY <1>7 DEF Places
  <2>2. core' \in [Clusters -> [Core -> [at : Places, offset : 0 .. Capacity,
                                         seen : 0 .. Capacity, mates : SUBSET Core]]]
    BY <2>1, <1>1, <1>2 DEF Sizes
  <2> QED
    BY <2>2, <1>1, <1>3, <1>4 DEF Sizes
<1>10. Knows(c, k)'
  <2>1. Knows(c, k)
    BY <1>1 DEF Kernels
  <2> QED
    BY <2>1, <1>2, <1>3, <1>4, <1>5, <1>8 DEF Knows, p, q
<1>11. \A a \in Blocks : heap'[a].freed = heap[a].freed
  BY <1>1, <1>2, CoreFreesNothing
<1>12. OwnCells'
  <2>1. \A o \in 1 .. Capacity : Own(heap'[b].cells[k][o], c)
    BY <1>1, <1>3, <1>5 DEF OwnCells
  <2> QED
    BY <2>1, <1>2, <1>3, <1>4, <1>11, ApartKeeps DEF OwnCells
<1>13. ASSUME ~disorder PROVE Unraced(c, k)'
  <2> SUFFICES ASSUME <<c, k>> \notin raced
               PROVE  Unraced(c, k)'
    BY <1>4 DEF Unraced
  <2>1. Unraced(c, k)
    BY <1>1, <1>13 DEF Complete
  <2>2. p.offset = Used(c, k) + 1 /\ p.seen = Used(c, k)
    BY <2>1, <1>2 DEF Unraced, p
  <2>3. Filled(c, k)' = p.seen /\ Filled(c, k) = p.seen
    BY <2>2, <1>2, <1>5, <1>6, <1>8 DEF Filled, p, q
  <2>4. Stock(c, k)' = Stock(c, k)
    BY <2>3, <1>3, <1>4 DEF Stock, Taken
  <2>5. file'[c][k] \o Stock(c, k)' = made'[c][k]
    BY <2>1, <2>4, <1>3, <1>4 DEF Unraced
  <2> QED
    BY <2>2, <2>5, <1>4, <1>6, <1>8 DEF Unraced, q
<1> QED
  BY <1>2, <1>3, <1>4, <1>9, <1>10, <1>11, <1>12, <1>13, ApartKeeps, DeviceKeeps
    DEF DInv, Streams, Complete

LEMMA StoreKeeps ==
  ASSUME DInv, NEW c \in Clusters, NEW k \in Core, Fill(c, k)
  PROVE  DInv'
<1> DEFINE p   == core[c][k]
           b   == dev[c]
           rec == [cluster |-> c, n |-> Len(made[c][k]) + 1]
           o   == p.offset
<1>1. Types /\ Sizes /\ Owned /\ Kernels /\ OwnCells /\ Complete
  BY DEF DInv, Streams, IInv
<1>2. /\ Busy(c, k) /\ DeviceStep(c, k) /\ p.at = "fill"
      /\ core' = [core EXCEPT ![c][k] = Off]
  BY DEF Fill, Step, Busy, DeviceStep
<1>3. /\ Apart(c, k)
      /\ heap' \in [Blocks -> Buffer]
      /\ heap'[b].used[k] = heap[b].used[k]
      /\ heap'[b].cells[k] = [heap[b].cells[k] EXCEPT ![o] = rec]
      /\ core'[c][k] = Off
      /\ made'[c][k] = Append(made[c][k], rec)
      /\ made' \in [Clusters -> [Core -> Seq(Records)]]
      /\ rec \in Records /\ o \in 1 .. Capacity
  BY FillCore
<1>4. UNCHANGED <<loaded, dev, execs, opened, file, raced, crossed, disorder, host>>
  BY <1>3 DEF Apart
<1>5. /\ loaded[c] /\ b # Null /\ b \in Blocks /\ heap[b] \in Buffer
      /\ Used(c, k) = heap[b].used[k] /\ Used(c, k) \in 0 .. Capacity
  BY <1>2, BusyBlock
<1>6. Used(c, k)' = Used(c, k)
  BY <1>3, <1>4, <1>5 DEF Used
<1>7. rec.cluster = c
  OBVIOUS
<1>8. heap[b].cells[k] \in [1 .. Capacity -> Records]
  BY <1>5 DEF Buffer
<1> HIDE DEF p, b, rec, o
<1>9. Sizes'
  <2>1. Off \in [at : Places, offset : 0 .. Capacity, seen : 0 .. Capacity, mates : SUBSET Core]
    BY DeviceTraceAssumption DEF Off, Places
  <2>2. core' \in [Clusters -> [Core -> [at : Places, offset : 0 .. Capacity,
                                         seen : 0 .. Capacity, mates : SUBSET Core]]]
    BY <2>1, <1>1, <1>2 DEF Sizes
  <2> QED
    BY <2>2, <1>1, <1>3, <1>4 DEF Sizes
<1>10. core'[c][k].at = "off" /\ ~Busy(c, k)'
  BY <1>3 DEF Off, Busy
<1>11. Knows(c, k)'
  <2>1. Len(made[c][k]) < execs /\ execs \in Nat
    BY <1>1, <1>2 DEF Kernels, Knows, Sizes
  <2>2. Len(made'[c][k]) = Len(made[c][k]) + 1 /\ Len(made[c][k]) \in Nat
    BY <1>1, <1>3, AppendProperties DEF Sizes
  <2>3. Len(made'[c][k]) <= execs
    BY <2>1, <2>2
  <2> QED
    BY <2>3, <1>4, <1>10 DEF Knows
<1>12. \A a \in Blocks : heap'[a].freed = heap[a].freed
  BY <1>1, <1>2, CoreFreesNothing
<1>13. OwnCells'
  <2>1. ASSUME NEW i \in 1 .. Capacity PROVE Own(heap'[b].cells[k][i], c)
    <3>1. Own(heap[b].cells[k][i], c)
      BY <1>1, <1>5 DEF OwnCells, b
    <3>2. Own(rec, c)
      BY <1>7 DEF Own
    <3>3. heap'[b].cells[k][i] \in {rec, heap[b].cells[k][i]}
      BY <1>3, <1>8
    <3> QED
      BY <3>1, <3>2, <3>3
  <2>2. dev[c] # Null => \A i \in 1 .. Capacity : Own(heap'[dev[c]].cells[k][i], c)
    BY <2>1 DEF b
  <2>3. ASSUME NEW d \in Clusters, NEW j \in Core, dev[d] # Null
        PROVE  \A i \in 1 .. Capacity : Own(heap'[dev[d]].cells[j][i], d)
    <3>1. CASE <<d, j>> = <<c, k>>
      BY <2>2, <2>3, <3>1
    <3>2. CASE <<d, j>> # <<c, k>>
      BY <2>3, <3>2, <1>2, <1>3, <1>4, <1>12, ApartKeeps
    <3> QED
      BY <3>1, <3>2
  <2> QED
    BY <2>3, <1>4 DEF OwnCells
<1>14. ASSUME ~disorder PROVE Unraced(c, k)'
  <2> SUFFICES ASSUME <<c, k>> \notin raced
               PROVE  Unraced(c, k)'
    BY <1>4 DEF Unraced
  <2> DEFINE n == Used(c, k)
             s == heap[b].cells[k]
             f == file[c][k]
  <2>1. Unraced(c, k)
    BY <1>1, <1>14 DEF Complete
  <2>2. o = n /\ n \in 1 .. Capacity
    BY <2>1, <1>2, <1>3 DEF Unraced, p, o
  <2>3. Filled(c, k)' = n /\ Filled(c, k) = n - 1
    BY <1>2, <1>6, <1>10 DEF Filled, p
  <2>4. host.at = "idle"
    BY <1>1, <1>2, <1>14 DEF Complete
  <2>5. Stock(c, k) = SubSeq(s, 1, n - 1) /\ Stock(c, k)' = SubSeq([s EXCEPT ![n] = rec], 1, n)
    BY <2>2, <2>3, <2>4, <1>3, <1>4, <1>5 DEF Stock, Taken, b
  <2>6. f \in Seq(Records) /\ s \in [1 .. Capacity -> Records]
    BY <1>1, <1>8 DEF Sizes
  <2> HIDE DEF n, s, f
  <2>7. f \o SubSeq([s EXCEPT ![n] = rec], 1, n) = Append(f \o SubSeq(s, 1, n - 1), rec)
    BY <2>2, <2>6, <1>3, StoreLast
  <2>8. f \o SubSeq(s, 1, n - 1) = made[c][k]
    BY <2>1, <2>5 DEF Unraced, f
  <2>9. file'[c][k] \o Stock(c, k)' = made'[c][k]
    BY <2>5, <2>7, <2>8, <1>3, <1>4 DEF f
  <2> QED
    BY <2>9, <1>10 DEF Unraced
<1> QED
  BY <1>2, <1>3, <1>4, <1>9, <1>11, <1>12, <1>13, <1>14, ApartKeeps, DeviceKeeps
    DEF DInv, Streams, Complete

-----------------------------------------------------------------------------
(* The same for the program and the host.                                  *)

LEMMA StartKeeps ==
  ASSUME DInv, NEW c \in Clusters, NEW ks \in SUBSET Core, Exec(c, ks)
  PROVE  DInv'
<1> DEFINE start == [Off EXCEPT !.at = "alloc", !.mates = ks]
<1>1. /\ Types /\ Sizes /\ Owned /\ Virgin /\ Quiet /\ Kernels /\ Told /\ OwnCells
      /\ StreamsAreOwn /\ Complete
  BY DEF DInv, Streams, IInv
<1>2. /\ UNCHANGED <<heap, next, args, arrays, loaded, opened, dev, host, file, fault,
                     made, raced, disorder, crossed>>
      /\ host.at = "idle" /\ loaded[c] /\ Waited(c, ks)
      /\ execs < MaxExecs /\ execs' = execs + 1
      /\ core' = [core EXCEPT ![c] = [k \in Core |-> IF k \in ks THEN start ELSE @[k]]]
  BY DEF Exec, At, memory, device, history
<1>3. /\ start.at = "alloc" /\ start.mates = ks
      /\ start \in [at : Places, offset : 0 .. Capacity, seen : 0 .. Capacity, mates : SUBSET Core]
  <2>1. 0 \in 0 .. Capacity
    BY DeviceTraceAssumption
  <2>2. start.at = "alloc" /\ start.mates = ks
    BY DEF Off
  <2>3. start \in [at : Places, offset : 0 .. Capacity, seen : 0 .. Capacity, mates : SUBSET Core]
    BY <2>1 DEF Off, Places
  <2> QED
    BY <2>2, <2>3
<1> HIDE DEF start
<1>4. \A d \in Clusters, i \in Core :
        core'[d][i] = IF d = c /\ i \in ks THEN start ELSE core[d][i]
  BY <1>1, <1>2 DEF Sizes
<1>5. \A i \in ks : ~Busy(c, i) /\ core[c][i].at = "off"
  BY <1>1, <1>2 DEF Kernels, Knows, Waited, Busy
<1>6. \A d \in Clusters, i \in Core : Used(d, i)' = Used(d, i)
  BY <1>2 DEF Used
<1>7. execs' \in 0 .. MaxExecs /\ execs \in Nat /\ execs < execs'
  BY <1>1, <1>2, DeviceTraceAssumption DEF Sizes
<1>8. Sizes'
  <2>1. core' \in [Clusters -> [Core -> [at : Places, offset : 0 .. Capacity,
                                         seen : 0 .. Capacity, mates : SUBSET Core]]]
    BY <1>1, <1>2, <1>3 DEF Sizes
  <2> QED
    BY <2>1, <1>1, <1>2, <1>7 DEF Sizes
<1>9. Kernels'
  <2> SUFFICES ASSUME NEW d \in Clusters, NEW i \in Core PROVE Knows(d, i)'
    BY DEF Kernels
  <2>1. Knows(d, i) /\ Len(made[d][i]) \in Nat
    BY <1>1 DEF Kernels, Sizes
  <2>2. Len(made[d][i]) < execs'
    BY <2>1, <1>7 DEF Knows
  <2>3. CASE d = c /\ i \in ks
    BY <2>2, <2>3, <1>2, <1>3, <1>4 DEF Knows, Busy
  <2>4. CASE ~(d = c /\ i \in ks)
    BY <2>1, <2>2, <2>4, <1>2, <1>4, <1>6 DEF Knows, Busy
  <2> QED
    BY <2>3, <2>4
<1>10. Owned' /\ Virgin' /\ Quiet' /\ Told' /\ OwnCells' /\ StreamsAreOwn'
  BY <1>1, <1>2 DEF Owned, Virgin, Quiet, Told, OwnCells, StreamsAreOwn, Usable
<1>11. ASSUME ~disorder PROVE Complete'
  <2>1. ASSUME NEW d \in Clusters, NEW i \in Core PROVE Unraced(d, i)'
    <3>1. Unraced(d, i)
      BY <1>1, <1>11 DEF Complete
    <3>2. Filled(d, i)' = Filled(d, i)
      BY <1>3, <1>4, <1>5, <1>6 DEF Filled
    <3>3. Stock(d, i)' = Stock(d, i)
      BY <3>2, <1>2 DEF Stock, Taken
    <3>4. CASE d = c /\ i \in ks
      BY <3>1, <3>3, <3>4, <1>2, <1>3, <1>4 DEF Unraced
    <3>5. CASE ~(d = c /\ i \in ks)
      BY <3>1, <3>3, <3>5, <1>2, <1>4, <1>6 DEF Unraced
    <3> QED
      BY <3>4, <3>5
  <2> QED
    BY <2>1, <1>1, <1>2, <1>11 DEF Complete
<1>12. IInv'
  BY ExecKeeps DEF DInv
<1> QED
  BY <1>2, <1>8, <1>9, <1>10, <1>11, <1>12 DEF DInv, Streams, Complete

LEMMA BeginKeeps ==
  ASSUME DInv, NEW c \in Clusters, NEW ks \in SUBSET Core, Begin(c, ks)
  PROVE  DInv'
<1>1. /\ Types /\ Sizes /\ Owned /\ Virgin /\ Quiet /\ Kernels /\ Told /\ OwnCells
      /\ StreamsAreOwn /\ Complete
  BY DEF DInv, Streams, IInv
<1>2. /\ UNCHANGED <<heap, next, args, arrays, loaded, dev, core, execs, file, fault, made>>
      /\ host.at = "idle"
  <2>1. CASE DatLoad(c)
    BY <2>1 DEF DatLoad, At, memory
  <2>2. CASE Unload(c)
    BY <2>2 DEF Unload, At, memory, device
  <2>3. CASE DevClose(c)
    BY <2>3 DEF DevClose, At, memory, device, history
  <2>4. CASE Wait(c, ks)
    BY <2>4 DEF Wait, At, memory, device
  <2> QED
    BY <2>1, <2>2, <2>3, <2>4 DEF Begin
<1>3. /\ raced \subseteq raced' /\ raced' \subseteq Clusters \X Core
      /\ opened' \in Clusters \cup {NoCluster} /\ crossed' \in BOOLEAN
      /\ ~crossed' => ~crossed
      /\ ~disorder' => ~disorder
      /\ host'.at \in {"flush", "alloc"}
      /\ host'.call # "wait" => host'.cluster = c /\ QuietOn(c)
      /\ host'.call = "load" => /\ opened' = c
                                /\ ~disorder' => ~Others(c)
                                /\ host'.at = "flush" => loaded[c] /\ (~crossed' => ~Others(c))
                                /\ host'.at = "alloc" => ~loaded[c]
      /\ host'.call # "load" => host'.at = "flush" /\ opened' = opened
      /\ host'.call \in {"unload", "close"} /\ ~disorder' => loaded[c]
      /\ host'.call = "wait" => raced' = raced \cup {p \in Clusters \X Core : Busy(p[1], p[2])}
  <2>1. CASE DatLoad(c)
    <3>1. /\ host' = [Idle EXCEPT !.at = IF loaded[c] THEN "flush" ELSE "alloc", !.call = "load",
                                  !.cluster = c]
          /\ opened' = c /\ QuietOn(c) /\ raced' = raced
          /\ disorder' = (disorder \/ Others(c)) /\ crossed' = (crossed \/ (loaded[c] /\ Others(c)))
      BY <2>1 DEF DatLoad
    <3>2. /\ host'.at = IF loaded[c] THEN "flush" ELSE "alloc"
          /\ host'.call = "load" /\ host'.cluster = c
      BY <3>1 DEF Idle
    <3>3. crossed' \in BOOLEAN
      BY <3>1, <1>1 DEF Sizes, Types, Others
    <3>4. /\ ~crossed' => ~crossed /\ (loaded[c] => ~Others(c))
          /\ ~disorder' => ~disorder /\ ~Others(c)
      BY <3>1
    <3>5. raced \subseteq raced' /\ raced' \subseteq Clusters \X Core /\ opened' \in Clusters
      BY <3>1, <1>1 DEF Sizes
    <3>6. CASE loaded[c]
      BY <3>1, <3>2, <3>3, <3>4, <3>5, <3>6
    <3>7. CASE ~loaded[c]
      BY <3>1, <3>2, <3>3, <3>4, <3>5, <3>7
    <3> QED
      BY <3>6, <3>7
  <2>2. CASE Unload(c)
    BY <2>2, <1>1 DEF Unload, Idle, Sizes, device
  <2>3. CASE DevClose(c)
    BY <2>3, <1>1 DEF DevClose, Idle, Sizes, device, history
  <2>4. CASE Wait(c, ks)
    BY <2>4, <1>1 DEF Wait, Idle, Sizes, device
  <2> QED
    BY <2>1, <2>2, <2>3, <2>4 DEF Begin
<1>4. Sizes'
  BY <1>1, <1>2, <1>3 DEF Sizes
<1>5. Owned' /\ Virgin' /\ Kernels' /\ OwnCells'
  BY <1>1, <1>2 DEF Owned, Virgin, Kernels, Knows, Busy, Used, OwnCells
<1>6. Quiet'
  BY <1>2, <1>3 DEF Quiet, QuietOn, Busy
<1>7. StreamsAreOwn'
  BY <1>1, <1>2, <1>3 DEF StreamsAreOwn
<1>8. Told'
  <2>1. Usable(arrays)' <=> Usable(arrays)
    BY <1>2 DEF Usable
  <2>2. host'.at = "flush" /\ host'.call = "load" /\ ~crossed' /\ Usable(arrays) => dev[c] = arrays
    BY <1>1, <1>3 DEF Told, Others
  <2>3. ~crossed' /\ host'.at # "alloc" /\ opened' # NoCluster /\ Usable(arrays) =>
          dev[opened'] = arrays
    BY <2>2, <1>1, <1>2, <1>3 DEF Told
  <2>4. /\ args \in {Null, arrays}
        /\ Usable(arrays) => args = arrays /\ \E d \in Clusters : loaded[d] /\ dev[d] = arrays
    BY <1>1 DEF Told
  <2>5. host'.call = "load" => opened' = host'.cluster
    BY <1>3
  <2> QED
    BY <2>1, <2>3, <2>4, <2>5, <1>2 DEF Told
<1>9. ASSUME ~disorder' PROVE Complete'
  <2>1. Single
    BY <1>3, <1>9 DEF DInv, IInv
  <2>2. \A d \in Clusters : loaded[d] => opened' = d
    BY <1>1, <1>3, <1>9 DEF Complete, Others
  <2>3. \A d \in Clusters, i \in Core : Busy(d, i) => <<d, i>> \in raced'
    <3>1. CASE host'.call = "wait"
      BY <3>1, <1>3
    <3>2. CASE host'.call # "wait"
      <4>1. \A d \in Clusters : loaded[d] => d = c
        <5>1. CASE host'.call = "load"
          BY <5>1, <1>3, <1>9 DEF Others
        <5>2. CASE host'.call \in {"unload", "close"}
          BY <5>2, <2>1, <1>3, <1>9 DEF Single
        <5>3. host' \in HostType
          BY CallKeeps DEF DInv, IInv, Types
        <5> QED
          BY <3>2, <5>1, <5>2, <5>3 DEF HostType
      <4> QED
        BY <3>2, <4>1, <2>1, <1>3 DEF Single, QuietOn
    <3> QED
      BY <3>1, <3>2
  <2>4. host'.at = "alloc" => \A d \in Clusters : ~loaded[d]
    BY <1>1, <1>3, <1>9 DEF Others
  <2>5. ASSUME NEW d \in Clusters, NEW i \in Core PROVE Unraced(d, i)'
    <3>1. Unraced(d, i)
      BY <1>1, <1>3, <1>9 DEF Complete
    <3>2. Used(d, i)' = Used(d, i) /\ Filled(d, i)' = Filled(d, i)
      BY <1>2 DEF Used, Filled
    <3>3. Stock(d, i)' = Stock(d, i)
      BY <3>2, <2>4, <1>2, <1>3 DEF Stock, Taken
    <3> QED
      BY <3>1, <3>2, <3>3, <1>2, <1>3 DEF Unraced
  <2>6. \A d \in Clusters, i \in Core : Busy(d, i)' = Busy(d, i)
    BY <1>2 DEF Busy
  <2> QED
    BY <2>2, <2>3, <2>5, <2>6, <1>2 DEF Complete
<1>10. IInv'
  BY CallKeeps DEF DInv
<1> QED
  BY <1>4, <1>5, <1>6, <1>7, <1>8, <1>9, <1>10 DEF DInv, Streams, Complete

(* The records of all cores go to the streams of opened_cluster.           *)
LEMMA TakeKeeps ==
  ASSUME DInv, Flush
  PROVE  DInv'
<1> DEFINE part(k) == SubSeq(heap[arrays].cells[k], 1, heap[arrays].used[k])
<1>1. /\ Types /\ Sizes /\ Owned /\ Virgin /\ Quiet /\ Kernels /\ Told /\ OwnCells
      /\ StreamsAreOwn /\ Complete
  BY DEF DInv, Streams, IInv
<1>2. /\ UNCHANGED <<heap, next, args, arrays, loaded, opened, dev, core, execs, made, raced,
                     disorder, crossed>>
      /\ host.at = "flush" /\ host' = [host EXCEPT !.at = IF host.call = "wait" THEN "reset" ELSE "free"]
      /\ fault' = ~Usable(arrays)
  BY DEF Flush, At, memory, device, history
<1>3. /\ host'.at \in {"reset", "free"} /\ host'.call = host.call /\ host'.cluster = host.cluster
  BY <1>1, <1>2 DEF Types, HostType
<1>4. \/ ~Usable(arrays) /\ file' = file
      \/ opened = NoCluster /\ file' = file
      \/ /\ Usable(arrays) /\ opened \in Clusters
         /\ file' = [file EXCEPT ![opened] = [k \in Core |-> @[k] \o part(k)]]
  <2>1. file' = IF fault' \/ opened = NoCluster THEN file
                ELSE [file EXCEPT ![opened] = [k \in Core |-> @[k] \o part(k)]]
    BY DEF Flush, Flushed
  <2> QED
    BY <2>1, <1>1, <1>2 DEF Sizes
<1>5. Usable(arrays) => arrays \in Blocks /\ heap[arrays] \in Buffer
  BY <1>1, KnownBlocks DEF Types, Sizes, Usable
<1>6. \A k \in Core : Usable(arrays) =>
        /\ part(k) \in Seq(Records)
        /\ \A i \in 1 .. Len(part(k)) : i \in 1 .. Capacity /\ part(k)[i] = heap[arrays].cells[k][i]
  <2> SUFFICES ASSUME NEW k \in Core, Usable(arrays)
               PROVE  /\ part(k) \in Seq(Records)
                      /\ \A i \in 1 .. Len(part(k)) :
                           i \in 1 .. Capacity /\ part(k)[i] = heap[arrays].cells[k][i]
    OBVIOUS
  <2> DEFINE s == heap[arrays].cells[k]
             n == heap[arrays].used[k]
  <2>1. s \in [1 .. Capacity -> Records] /\ n \in 0 .. Capacity
    BY <1>5 DEF Buffer
  <2> HIDE DEF s, n
  <2>2. \A i \in 1 .. n : i \in 1 .. Capacity /\ s[i] \in Records
    BY <2>1, DeviceTraceAssumption
  <2>3. n \in Int
    BY <2>1, DeviceTraceAssumption
  <2>4. /\ SubSeq(s, 1, n) \in Seq(Records)
        /\ Len(SubSeq(s, 1, n)) = (IF 1 <= n THEN n - 1 + 1 ELSE 0)
        /\ \A i \in 1 .. n - 1 + 1 : SubSeq(s, 1, n)[i] = s[1 + i - 1]
    BY <2>2, <2>3, SubSeqProperties
  <2>5. Len(SubSeq(s, 1, n)) = n
    BY <2>1, <2>4, DeviceTraceAssumption
  <2>6. \A i \in 1 .. n : SubSeq(s, 1, n)[i] = s[i]
    BY <2>3, <2>4
  <2> QED
    BY <2>2, <2>4, <2>5, <2>6 DEF s, n
<1> HIDE DEF part
<1>7. /\ file' \in [Clusters -> [Core -> Seq(Records)]]
      /\ \A c \in Clusters, k \in Core :
           file'[c][k] = IF c = opened /\ Usable(arrays) THEN file[c][k] \o part(k) ELSE file[c][k]
  <2>1. CASE file' = file /\ (~Usable(arrays) \/ opened = NoCluster)
    BY <2>1, <1>1, DeviceTraceAssumption DEF Sizes
  <2>2. CASE /\ Usable(arrays) /\ opened \in Clusters
             /\ file' = [file EXCEPT ![opened] = [k \in Core |-> @[k] \o part(k)]]
    <3>1. \A k \in Core : file[opened][k] \o part(k) \in Seq(Records)
      BY <2>2, <1>1, <1>6, ConcatProperties DEF Sizes
    <3> QED
      BY <2>2, <3>1, <1>1 DEF Sizes
  <2> QED
    BY <2>1, <2>2, <1>4
<1>8. Sizes'
  BY <1>1, <1>2, <1>7 DEF Sizes
<1>9. Owned' /\ Virgin' /\ Kernels' /\ OwnCells'
  BY <1>1, <1>2 DEF Owned, Virgin, Kernels, Knows, Busy, Used, OwnCells
<1>10. Quiet'
  BY <1>1, <1>2, <1>3 DEF Quiet, QuietOn, Busy
<1>11. Told'
  BY <1>1, <1>2, <1>3 DEF Told, Usable
<1>12. StreamsAreOwn'
  <2> SUFFICES ASSUME ~crossed, NEW c \in Clusters, NEW k \in Core, NEW i \in DOMAIN file'[c][k]
               PROVE  Own(file'[c][k][i], c)
    BY <1>2 DEF StreamsAreOwn, Own
  <2> DEFINE f == file[c][k]
  <2>1. \A j \in DOMAIN f : Own(f[j], c)
    BY <1>1 DEF StreamsAreOwn, Own
  <2>2. CASE c = opened /\ Usable(arrays)
    <3>1. dev[c] = arrays /\ arrays # Null
      BY <2>2, <1>1, <1>2, DeviceTraceAssumption DEF Told, Usable
    <3>2. \A j \in 1 .. Len(part(k)) : Own(part(k)[j], c)
      BY <2>2, <3>1, <1>1, <1>6 DEF OwnCells
    <3>3. f \in Seq(Records) /\ part(k) \in Seq(Records) /\ file'[c][k] = f \o part(k)
      BY <2>2, <1>1, <1>6, <1>7 DEF Sizes
    <3> HIDE DEF f
    <3>4. /\ f \o part(k) \in Seq(Records)
          /\ Len(f \o part(k)) = Len(f) + Len(part(k))
          /\ \A j \in 1 .. Len(f) + Len(part(k)) : (f \o part(k))[j] =
               IF j <= Len(f) THEN f[j] ELSE part(k)[j - Len(f)]
      BY <3>3, ConcatProperties
    <3>5. i \in 1 .. Len(f) + Len(part(k))
      BY <3>3, <3>4, LenProperties
    <3>6. CASE i <= Len(f)
      <4>1. i \in DOMAIN f
        BY <3>3, <3>5, <3>6, LenProperties
      <4> QED
        BY <2>1, <3>3, <3>4, <3>5, <3>6, <4>1
    <3>7. CASE ~(i <= Len(f))
      <4>1. i - Len(f) \in 1 .. Len(part(k))
        <5>1. Len(f) \in Nat /\ Len(part(k)) \in Nat
          BY <3>3, LenProperties
        <5> QED
          BY <5>1, <3>5, <3>7
      <4> QED
        BY <3>2, <3>3, <3>4, <3>5, <3>7, <4>1
    <3> QED
      BY <3>6, <3>7
  <2>3. CASE ~(c = opened /\ Usable(arrays))
    BY <2>1, <2>3, <1>7
  <2> QED
    BY <2>2, <2>3
<1>13. ASSUME ~disorder PROVE Complete'
  <2>1. Single
    BY <1>13 DEF DInv, IInv
  <2>2. PICK c \in Clusters : loaded[c]
    BY <2>1, <1>2 DEF Single, Placed
  <2>3. opened = c /\ \A d \in Clusters : loaded[d] => d = c
    BY <2>1, <2>2, <1>1, <1>13 DEF Single, Complete
  <2>4. arrays = dev[c] /\ Usable(arrays)
    BY <2>1, <2>2, <1>2 DEF Single, InUse, Reloading
  <2>5. ASSUME NEW d \in Clusters, NEW k \in Core PROVE Unraced(d, k)'
    <3> SUFFICES ASSUME <<d, k>> \notin raced
                 PROVE  Unraced(d, k)'
      BY <1>2 DEF Unraced
    <3>1. Unraced(d, k) /\ ~Busy(d, k)
      BY <1>1, <1>2, <1>13 DEF Complete
    <3>2. core[d][k].at = "off" /\ file[d][k] \o Stock(d, k) = made[d][k]
      BY <3>1 DEF Busy, Unraced
    <3>3. Stock(d, k)' = <<>>
      BY <1>3 DEF Stock, Taken
    <3>4. file'[d][k] = made[d][k]
      <4>1. CASE d = c
        <5>1. Stock(d, k) = part(k)
          BY <4>1, <2>2, <2>4, <3>2, <1>2 DEF Stock, Taken, Filled, Used, part, Usable
        <5> QED
          BY <4>1, <5>1, <2>3, <2>4, <3>2, <1>7
      <4>2. CASE d # c
        <5>1. Stock(d, k) = <<>> /\ file'[d][k] = file[d][k]
          BY <4>2, <2>3, <1>7 DEF Stock
        <5>2. file[d][k] \in Seq(Records)
          BY <1>1 DEF Sizes
        <5> QED
          BY <3>2, <5>1, <5>2, ConcatEmptySeq
      <4> QED
        BY <4>1, <4>2
    <3>5. file'[d][k] \o Stock(d, k)' = made'[d][k]
      BY <3>3, <3>4, <1>2, <1>8, ConcatEmptySeq DEF Sizes
    <3> QED
      BY <3>2, <3>5, <1>2 DEF Unraced
  <2> QED
    BY <2>5, <1>1, <1>2, <1>13 DEF Complete, Busy
<1>14. IInv'
  BY CollectKeeps DEF DInv
<1> QED
  BY <1>2, <1>8, <1>9, <1>10, <1>11, <1>12, <1>13, <1>14 DEF DInv, Streams, Complete

(* All counters of the block go to zero.                                   *)
LEMMA ResetKeeps ==
  ASSUME DInv, Reset
  PROVE  DInv'
<1> DEFINE zero == [k \in Core |-> 0]
<1>1. /\ Types /\ Sizes /\ Owned /\ Virgin /\ Quiet /\ Kernels /\ Told /\ OwnCells
      /\ StreamsAreOwn /\ Complete
  BY DEF DInv, Streams, IInv
<1>2. /\ UNCHANGED <<next, args, arrays, loaded, opened, dev, core, execs, file, made, raced,
                     disorder, crossed>>
      /\ host.at = "reset" /\ host'.at = "idle"
      /\ heap' = IF Usable(args) THEN [heap EXCEPT ![args].used = zero] ELSE heap
  BY DEF Reset, At, Idle, device, history
<1>3. zero \in [Core -> 0 .. Capacity] /\ \A k \in Core : zero[k] = 0
  BY DeviceTraceAssumption
<1> HIDE DEF zero
<1>4. args \in 0 .. next - 1 /\ next \in Nat
  BY <1>1 DEF Types
<1>5. /\ heap' \in [Blocks -> Buffer]
      /\ \A b \in Blocks : /\ heap'[b].cells = heap[b].cells /\ heap'[b].freed = heap[b].freed
                           /\ heap'[b].used = IF b = args /\ Usable(args) THEN zero ELSE heap[b].used
  <2>1. CASE Usable(args)
    <3>1. args \in Blocks
      BY <2>1, <1>1, <1>4, KnownBlocks DEF Usable
    <3>2. heap[args] \in Buffer
      BY <3>1, <1>1 DEF Sizes
    <3>3. [heap[args] EXCEPT !.used = zero] \in Buffer
      BY <3>2, <1>3 DEF Buffer
    <3>4. /\ [heap[args] EXCEPT !.used = zero].used = zero
          /\ [heap[args] EXCEPT !.used = zero].cells = heap[args].cells
          /\ [heap[args] EXCEPT !.used = zero].freed = heap[args].freed
      BY <3>2 DEF Buffer
    <3> QED
      BY <2>1, <3>1, <3>3, <3>4, <1>1, <1>2 DEF Sizes
  <2>2. CASE ~Usable(args)
    BY <2>2, <1>1, <1>2 DEF Sizes
  <2> QED
    BY <2>1, <2>2
<1>6. Sizes'
  BY <1>1, <1>2, <1>5 DEF Sizes
<1>7. \A d \in Clusters : dev[d] # Null => dev[d] \in Blocks
  BY <1>1, KnownBlocks DEF Types
<1>8. Owned' /\ Quiet' /\ StreamsAreOwn' /\ OwnCells'
  BY <1>1, <1>2, <1>5, <1>7 DEF Owned, Quiet, StreamsAreOwn, OwnCells
<1>9. Virgin'
  <2>1. \A b \in Blocks : b >= next => b # args
    BY <1>4 DEF Blocks
  <2> QED
    BY <2>1, <1>1, <1>2, <1>5 DEF Virgin
<1>10. \A d \in Clusters, k \in Core :
         Used(d, k)' = IF dev[d] # Null /\ dev[d] = args /\ Usable(args) THEN 0 ELSE Used(d, k)
  BY <1>2, <1>3, <1>5, <1>7 DEF Used
<1>11. Kernels'
  BY <1>1, <1>2, <1>10, DeviceTraceAssumption DEF Kernels, Knows, Busy
<1>12. Told'
  <2>1. arrays # Null => arrays \in Blocks
    BY <1>1, KnownBlocks DEF Types
  <2>2. Usable(arrays)' <=> Usable(arrays)
    BY <2>1, <1>2, <1>5 DEF Usable
  <2> QED
    BY <2>2, <1>1, <1>2 DEF Told
<1>13. ASSUME ~disorder PROVE Complete'
  <2>1. Single
    BY <1>13 DEF DInv, IInv
  <2>2. \A d \in Clusters : loaded[d] => dev[d] # Null /\ dev[d] = args /\ Usable(args)
    BY <2>1, <1>2 DEF Single, InUse, Reloading, Usable
  <2>3. ASSUME NEW d \in Clusters, NEW k \in Core PROVE Unraced(d, k)'
    <3> SUFFICES ASSUME <<d, k>> \notin raced
                 PROVE  Unraced(d, k)'
      BY <1>2 DEF Unraced
    <3>1. Unraced(d, k) /\ core[d][k].at = "off"
      BY <1>1, <1>2, <1>13 DEF Complete, Busy
    <3>2. Stock(d, k) = <<>>
      BY <1>2 DEF Stock, Taken
    <3>3. Stock(d, k)' = <<>>
      <4>1. CASE loaded[d]
        <5>1. Filled(d, k)' = 0
          BY <4>1, <2>2, <3>1, <1>2, <1>10 DEF Filled
        <5>2. SubSeq(heap'[dev'[d]].cells[k], 1, 0) = <<>>
          BY SubSeqEmpty
        <5> QED
          BY <5>1, <5>2 DEF Stock
      <4>2. CASE ~loaded[d]
        BY <4>2, <1>2 DEF Stock
      <4> QED
        BY <4>1, <4>2
    <3>4. file'[d][k] \o Stock(d, k)' = made'[d][k]
      BY <3>1, <3>2, <3>3, <1>2 DEF Unraced
    <3> QED
      BY <3>1, <3>4, <1>2 DEF Unraced
  <2> QED
    BY <2>3, <1>1, <1>2, <1>13 DEF Complete
<1>14. IInv'
  BY CollectKeeps DEF DInv
<1> QED
  BY <1>2, <1>6, <1>8, <1>9, <1>11, <1>12, <1>13, <1>14 DEF DInv, Streams, Complete

LEMMA ReleaseKeeps ==
  ASSUME DInv, Free
  PROVE  DInv'
<1>1. /\ Types /\ Sizes /\ Owned /\ Virgin /\ Quiet /\ Kernels /\ Told /\ OwnCells
      /\ StreamsAreOwn /\ Complete /\ Calls
  BY DEF DInv, Streams, IInv
<1>2. /\ UNCHANGED <<next, arrays, dev, core, execs, file, made, raced, disorder, crossed>>
      /\ host.at = "free" /\ args' = Null
      /\ heap' = IF args = Null THEN heap ELSE [heap EXCEPT ![args].freed = TRUE]
  BY DEF Free, At, history
<1>3. host.call # "wait" /\ host.cluster \in Clusters /\ QuietOn(host.cluster)
  BY <1>1, <1>2 DEF Calls, Quiet
<1>4. \/ /\ host.call = "load" /\ UNCHANGED <<loaded, opened>>
         /\ host'.at = "alloc" /\ host'.call = "load" /\ host'.cluster = host.cluster
      \/ /\ host.call # "load" /\ host'.at = "idle" /\ host'.call = "wait"
         /\ opened' = NoCluster /\ loaded' = [loaded EXCEPT ![host.cluster] = FALSE]
  <2>1. host \in HostType
    BY <1>1 DEF Types
  <2>2. CASE host.call = "load"
    BY <2>1, <2>2 DEF Free, HostType
  <2>3. CASE host.call # "load"
    BY <2>1, <2>3, <1>3 DEF Free, HostType, Idle
  <2> QED
    BY <2>2, <2>3
<1>5. \A d \in Clusters : loaded'[d] => loaded[d]
  BY <1>1, <1>4 DEF Types
<1>6. \A d \in Clusters : loaded'[d] \/ ~loaded[d] \/ d = host.cluster
  BY <1>1, <1>4 DEF Types
<1>7. /\ heap' \in [Blocks -> Buffer]
      /\ \A b \in Blocks : /\ heap'[b].cells = heap[b].cells /\ heap'[b].used = heap[b].used
                           /\ b = args => heap'[b].freed
                           /\ b # args => heap'[b].freed = heap[b].freed
  <2>1. CASE args = Null
    <3>1. \A b \in Blocks : b # args
      BY <2>1 DEF Null, Blocks
    <3> QED
      BY <2>1, <3>1, <1>1, <1>2 DEF Sizes
  <2>2. CASE args # Null
    <3>1. args \in Blocks
      BY <2>2, <1>1, KnownBlocks DEF Types
    <3>2. heap[args] \in Buffer
      BY <3>1, <1>1 DEF Sizes
    <3>3. [heap[args] EXCEPT !.freed = TRUE] \in Buffer
      BY <3>2 DEF Buffer
    <3>4. /\ [heap[args] EXCEPT !.freed = TRUE].used = heap[args].used
          /\ [heap[args] EXCEPT !.freed = TRUE].cells = heap[args].cells
          /\ [heap[args] EXCEPT !.freed = TRUE].freed
      BY <3>2 DEF Buffer
    <3> QED
      BY <2>2, <3>1, <3>3, <3>4, <1>1, <1>2 DEF Sizes
  <2> QED
    BY <2>1, <2>2
<1>8. Sizes'
  BY <1>1, <1>2, <1>4, <1>7 DEF Sizes
<1>9. \A d \in Clusters : dev[d] # Null => dev[d] \in Blocks
  BY <1>1, KnownBlocks DEF Types
<1>10. Owned' /\ Virgin' /\ StreamsAreOwn' /\ OwnCells'
  BY <1>1, <1>2, <1>5, <1>7, <1>9 DEF Owned, Virgin, StreamsAreOwn, OwnCells
<1>11. Quiet'
  BY <1>2, <1>3, <1>4 DEF Quiet, QuietOn, Busy
<1>12. \A d \in Clusters, k \in Core : Used(d, k)' = Used(d, k)
  BY <1>2, <1>7, <1>9 DEF Used
<1>13. Kernels'
  BY <1>1, <1>2, <1>3, <1>6, <1>12 DEF Kernels, Knows, Busy, QuietOn
<1>14. Told'
  <2>1. arrays # Null => arrays \in Blocks
    BY <1>1, KnownBlocks DEF Types
  <2>2. ~Usable(arrays)'
    BY <2>1, <1>1, <1>2, <1>7 DEF Usable, Told
  <2>3. host'.at # "idle" /\ host'.call = "load" => opened' = host'.cluster
    BY <1>1, <1>2, <1>4 DEF Told
  <2> QED
    BY <2>2, <2>3, <1>2 DEF Told
<1>15. ASSUME ~disorder PROVE Complete'
  <2>1. Single /\ loaded[host.cluster]
    BY <1>2, <1>3, <1>15 DEF DInv, IInv, Single, Placed
  <2>2. \A d \in Clusters : loaded[d] => d = host.cluster
    BY <2>1, <1>3 DEF Single
  <2>3. host'.at # "alloc" => \A d \in Clusters : ~loaded'[d]
    BY <2>2, <1>1, <1>4, <1>5 DEF Types
  <2>4. ASSUME NEW d \in Clusters, NEW k \in Core PROVE Unraced(d, k)'
    <3> SUFFICES ASSUME <<d, k>> \notin raced
                 PROVE  Unraced(d, k)'
      BY <1>2 DEF Unraced
    <3>1. Unraced(d, k)
      BY <1>1, <1>15 DEF Complete
    <3>2. Stock(d, k) = <<>> /\ Stock(d, k)' = <<>>
      BY <2>3, <1>2 DEF Stock, Taken
    <3>3. file'[d][k] \o Stock(d, k)' = made'[d][k]
      BY <3>1, <3>2, <1>2 DEF Unraced
    <3> QED
      BY <3>1, <3>3, <1>2, <1>12 DEF Unraced
  <2>5. \A d \in Clusters : loaded'[d] => opened' = d
    BY <2>3, <1>1, <1>4, <1>5, <1>15 DEF Complete
  <2> QED
    BY <2>4, <2>5, <1>1, <1>2, <1>4, <1>15 DEF Complete, Busy
<1>16. IInv'
  BY FreeKeeps DEF DInv
<1> QED
  BY <1>2, <1>8, <1>10, <1>11, <1>13, <1>14, <1>15, <1>16 DEF DInv, Streams, Complete

LEMMA GrantKeeps ==
  ASSUME DInv, Alloc
  PROVE  DInv'
<1> DEFINE c == host.cluster
<1>1. /\ Types /\ Sizes /\ Owned /\ Virgin /\ Quiet /\ Kernels /\ Told /\ OwnCells
      /\ StreamsAreOwn /\ Complete /\ Calls /\ Unborn
  BY DEF DInv, Streams, IInv
<1>2. /\ UNCHANGED <<heap, opened, core, execs, file, made, raced, disorder, crossed>>
      /\ host.at = "alloc" /\ host'.at = "idle"
      /\ next' = next + 1 /\ args' = next /\ arrays' = next
      /\ loaded' = [loaded EXCEPT ![c] = TRUE]
      /\ dev' = [dev EXCEPT ![c] = next]
  BY DEF Alloc, At, Idle, history
<1>3. /\ host.call = "load" /\ c \in Clusters /\ QuietOn(c) /\ opened = c
      /\ next \in Blocks /\ next # Null
  BY <1>1, <1>2, DeviceTraceAssumption DEF Calls, Quiet, Told, Types, Blocks, Null
<1>4. \A d \in Clusters : /\ dev'[d] = IF d = c THEN next ELSE dev[d]
                          /\ loaded'[d] <=> loaded[d] \/ d = c
  BY <1>1, <1>2, <1>3 DEF Types
<1>5. \A d \in Clusters : dev[d] # next /\ dev[d] < next
  BY <1>1 DEF Types
<1>6. Sizes'
  BY <1>1, <1>2 DEF Sizes
<1>7. Owned'
  BY <1>1, <1>3, <1>4, <1>5 DEF Owned
<1>8. Virgin'
  <2>1. \A b \in Blocks : b >= next' => b >= next
    BY <1>2, <1>3 DEF Blocks
  <2> QED
    BY <2>1, <1>1, <1>2 DEF Virgin
<1>9. Quiet' /\ StreamsAreOwn'
  BY <1>1, <1>2 DEF Quiet, StreamsAreOwn
<1>10. \A k \in Core : /\ heap[next].used[k] = 0
                       /\ \A o \in 1 .. Capacity : heap[next].cells[k][o] = Junk
  <2>1. next >= next
    BY <1>3 DEF Blocks
  <2> QED
    BY <2>1, <1>1, <1>3 DEF Virgin
<1>11. OwnCells'
  <2> SUFFICES ASSUME NEW d \in Clusters, NEW k \in Core, NEW o \in 1 .. Capacity, dev'[d] # Null
               PROVE  Own(heap[dev'[d]].cells[k][o], d)
    BY <1>2 DEF OwnCells
  <2>1. CASE d = c
    BY <2>1, <1>4, <1>10 DEF Own
  <2>2. CASE d # c
    BY <2>2, <1>1, <1>4 DEF OwnCells
  <2> QED
    BY <2>1, <2>2
<1>12. \A k \in Core : core[c][k].at = "off"
  BY <1>3 DEF QuietOn, Busy
<1>13. \A d \in Clusters, k \in Core : d # c => Used(d, k)' = Used(d, k)
  BY <1>2, <1>4 DEF Used
<1>14. Kernels'
  <2> SUFFICES ASSUME NEW d \in Clusters, NEW k \in Core PROVE Knows(d, k)'
    BY DEF Kernels
  <2>1. Knows(d, k)
    BY <1>1 DEF Kernels
  <2>2. CASE d = c
    BY <2>1, <2>2, <1>2, <1>12 DEF Knows, Busy
  <2>3. CASE d # c
    BY <2>1, <2>3, <1>2, <1>4, <1>13 DEF Knows, Busy
  <2> QED
    BY <2>2, <2>3
<1>15. Told'
  BY <1>2, <1>3, <1>4 DEF Told
<1>16. ASSUME ~disorder PROVE Complete'
  <2>1. \A d \in Clusters : loaded'[d] => d = c
    BY <1>2, <1>4, <1>16 DEF DInv, IInv, Single, Placed
  <2>2. ASSUME NEW d \in Clusters, NEW k \in Core PROVE Unraced(d, k)'
    <3> SUFFICES ASSUME <<d, k>> \notin raced
                 PROVE  Unraced(d, k)'
      BY <1>2 DEF Unraced
    <3>1. Unraced(d, k) /\ core[d][k].at = "off"
      BY <1>1, <1>2, <1>16 DEF Complete, Busy
    <3>2. Stock(d, k) = <<>>
      BY <1>2 DEF Stock, Taken
    <3>3. Stock(d, k)' = <<>>
      <4>1. CASE d = c
        <5>1. Used(d, k)' = 0
          BY <4>1, <1>2, <1>3, <1>4, <1>10 DEF Used
        <5>2. Filled(d, k)' = 0
          BY <5>1, <3>1, <1>2 DEF Filled
        <5>3. SubSeq(heap'[dev'[d]].cells[k], 1, 0) = <<>>
          BY SubSeqEmpty
        <5> QED
          BY <5>2, <5>3 DEF Stock
      <4>2. CASE d # c
        BY <4>2, <2>1 DEF Stock
      <4> QED
        BY <4>1, <4>2
    <3>4. file'[d][k] \o Stock(d, k)' = made'[d][k]
      BY <3>1, <3>2, <3>3, <1>2 DEF Unraced
    <3> QED
      BY <3>1, <3>4, <1>2 DEF Unraced
  <2>3. \A d \in Clusters : loaded'[d] => opened' = d
    BY <2>1, <1>2, <1>3
  <2> QED
    BY <2>2, <2>3, <1>2 DEF Complete
<1>17. IInv'
  BY AllocKeeps DEF DInv
<1> QED
  BY <1>2, <1>6, <1>7, <1>8, <1>9, <1>11, <1>14, <1>15, <1>16, <1>17 DEF DInv, Streams, Complete

-----------------------------------------------------------------------------
LEMMA NextDInv == DInv /\ [Next]_vars => DInv'
<1> SUFFICES ASSUME DInv, [Next]_vars PROVE DInv'
  OBVIOUS
<1>1. CASE UNCHANGED vars
  <2>1. IInv'
    BY <1>1, NextIInv DEF DInv
  <2>2. UNCHANGED <<heap, next, args, arrays, loaded, opened, dev, host, core, execs, file, made,
                    raced, disorder, crossed>>
    BY <1>1 DEF vars, memory, device, history
  <2>3. Sizes' /\ Streams'
    BY <2>2 DEF DInv, Sizes, Streams, Owned, Virgin, Quiet, QuietOn, Kernels, Knows, Busy, Used,
                Told, Usable, OwnCells, StreamsAreOwn
  <2>4. \A c \in Clusters, k \in Core : Unraced(c, k)' = Unraced(c, k)
    BY <2>2 DEF Unraced, Stock, Filled, Used, Taken
  <2>5. Complete'
    BY <2>2, <2>4 DEF DInv, Complete, Busy
  <2> QED
    BY <2>1, <2>3, <2>5 DEF DInv
<1>2. ASSUME NEW c \in Clusters, NEW k \in Core, DeviceStep(c, k) PROVE DInv'
  BY <1>2, MoveKeeps, CountKeeps, StoreKeeps DEF DeviceStep
<1>3. ASSUME NEW c \in Clusters, NEW ks \in SUBSET Core, GroupStep(c, ks) PROVE DInv'
  BY <1>3, StartKeeps, BeginKeeps DEF GroupStep, Begin
<1>4. CASE HostStep
  BY <1>4, BeginKeeps, TakeKeeps, ResetKeeps, ReleaseKeeps, GrantKeeps DEF HostStep, Begin
<1> QED
  BY <1>1, <1>2, <1>3, <1>4 DEF Next

(* Counters never pass the capacity of their buffer, no offset lies        *)
(* outside it, and everything else keeps its type, also when the host      *)
(* resets counters under running kernels or uses the wrong block           *)
(* (mt_buffer.c:16-25, instrumented_func_host.cpp:278-284).                *)
THEOREM DeviceTypeCorrect == Spec => []TypeOK
<1>1. DInv => TypeOK
  BY SizesAreTypes DEF DInv, IInv
<1> QED
  BY <1>1, InitDInv, NextDInv, PTL DEF Spec

(* A stream holds the records of its own cluster, and memory nobody has    *)
(* written, unless a cluster is loaded again while another one is          *)
(* (instrumented_func_host.cpp:328, 338, accl_tracer.cpp:32).              *)
THEOREM StreamsKeepApart == Spec => []StreamsAreOwn
<1>1. DInv => StreamsAreOwn
  BY DEF DInv, Streams
<1> QED
  BY <1>1, InitDInv, NextDInv, PTL DEF Spec

(* As long as the calls are in order, every record that got a place on a   *)
(* core the host has not raced with is in its stream or in its buffer,     *)
(* once and in order (accl_tracer.cpp:41-45,                               *)
(* instrumented_func_host.cpp:277-281, mt_buffer.c:16-25).                 *)
THEOREM UnracedRecordsArrive == Spec => []UnracedCoresAreComplete
<1>1. DInv => UnracedCoresAreComplete
  <2> SUFFICES ASSUME DInv, At("idle"), ~disorder, NEW c \in Clusters, NEW k \in Core,
                      <<c, k>> \notin raced, ~Busy(c, k)
               PROVE  file[c][k] \o Buffered(c, k) = made[c][k]
    BY DEF UnracedCoresAreComplete
  <2>1. Unraced(c, k) /\ Owned
    BY DEF DInv, Streams, Complete
  <2>2. core[c][k].at = "off" /\ host.at = "idle"
    BY DEF Busy, At
  <2>3. Buffered(c, k) = Stock(c, k)
    BY <2>1, <2>2 DEF Buffered, Stock, Filled, Used, Taken, Owned
  <2> QED
    BY <2>1, <2>3 DEF Unraced
<1> QED
  BY <1>1, InitDInv, NextDInv, PTL DEF Spec
=============================================================================
