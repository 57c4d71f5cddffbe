----------------------------- MODULE DeviceTrace -----------------------------
(***************************************************************************)
(* The records that kernels make on the cores of MATRIX clusters, and how  *)
(* the host collects them (lib/accl/matrix/device/mt_buffer.c,             *)
(* mt_tracer_dev_callbacks.c, host/accl_tracer.cpp,                        *)
(* host/instrumented_func_host.cpp).                                       *)
(*                                                                         *)
(* Every cluster that is loaded gets a block of memory with a buffer and a *)
(* counter per core; the host knows the block of the cluster it has loaded *)
(* last. One host thread calls the library; kernels run meanwhile. A core  *)
(* adds the record of its kernel when it ends. The host takes the records  *)
(* of all cores and resets their counters whenever it has waited for a     *)
(* group, and takes them before it frees the block. A core touches only    *)
(* its own buffer and counter, and runs one kernel at most while the host  *)
(* is in a call, so that the host takes the records of all cores in one    *)
(* step, and resets all counters in another.                               *)
(*                                                                         *)
(* A record is [cluster, n]; the buffer of a core counts in records. A use *)
(* of freed memory or of a null pointer ends an execution with a fault.    *)
(***************************************************************************)
EXTENDS Integers, Sequences, FiniteSets

CONSTANTS
  Clusters,   (* the clusters the program uses                             *)
  Cores,      (* each cluster has cores 1 .. Cores                         *)
  Capacity,   (* records in the buffer of a core                           *)
  MaxLoads,   (* bound: calls of hthread_dat_load                          *)
  MaxExecs    (* bound: kernels started                                    *)

NoCluster == "none"     \* opened_cluster = -1; its first value is not used

ASSUME DeviceTraceAssumption ==
  /\ Cores \in Nat \ {0} /\ Capacity \in Nat \ {0}
  /\ MaxLoads \in Nat /\ MaxExecs \in Nat
  /\ NoCluster \notin Clusters

Core   == 1 .. Cores
Blocks == 1 .. MaxLoads
Null   == 0
Junk   == [cluster |-> NoCluster, n |-> 0]     \* memory nobody has written

VARIABLES
  heap,      (* block -> whether it is freed, and per core used and cells  *)
  next,      (* the block hthread_malloc returns next                      *)
  args,      (* buf_args: the block to free and to reset, or Null          *)
  arrays,    (* callback_buffers, callback_used_host: the block they       *)
             (* point to                                                   *)
  loaded,    (* dat_loaded                                                 *)
  opened,    (* opened_cluster                                             *)
  dev,       (* cluster -> the block its cores use                         *)
  host,      (* where the host is in which call, for which cluster         *)
  core,      (* cluster, core -> where its kernel is, the offset it got,   *)
             (* the counter it read, the cores of its thread group         *)
  execs,     (* kernels started                                            *)
  file,      (* cluster, core -> its stream of records                     *)
  fault,     (* whether freed memory or a null pointer has been used       *)
  made,      (* history: the records that got a place, per core            *)
  raced,     (* history: cores that ran a kernel while the host collected  *)
  disorder,  (* history: two clusters were loaded at a time, one was       *)
             (* unloaded that was not loaded, or a group was waited for    *)
             (* while no cluster was loaded                                *)
  crossed    (* history: a cluster was loaded again beside another         *)

memory  == <<heap, next, args, arrays>>
device  == <<loaded, opened, dev>>
history == <<made, raced, disorder, crossed>>
vars    == <<memory, device, host, core, execs, file, fault, history>>

Places  == {"off", "alloc", "read", "bump", "fill"}
Off     == [at |-> "off", offset |-> 0, seen |-> 0, mates |-> {}]
Idle    == [at |-> "idle", call |-> "wait", cluster |-> NoCluster]

Init ==
  /\ heap = [b \in Blocks |-> [freed |-> FALSE, used |-> [k \in Core |-> 0],
                               cells |-> [k \in Core |-> [o \in 1 .. Capacity |-> Junk]]]]
  /\ next = 1 /\ args = Null /\ arrays = Null
  /\ loaded = [c \in Clusters |-> FALSE] /\ opened = NoCluster
  /\ dev = [c \in Clusters |-> Null]
  /\ host = Idle
  /\ core = [c \in Clusters |-> [k \in Core |-> Off]]
  /\ execs = 0
  /\ file = [c \in Clusters |-> [k \in Core |-> <<>>]]
  /\ fault = FALSE
  /\ made = [c \in Clusters |-> [k \in Core |-> <<>>]]
  /\ raced = {} /\ disorder = FALSE /\ crossed = FALSE

Busy(c, k)   == core[c][k].at # "off"
QuietOn(c)   == \A k \in Core : ~Busy(c, k)
Usable(b)    == b # Null /\ ~heap[b].freed
Others(c)    == \E d \in Clusters \ {c} : loaded[d]
At(place)    == ~fault /\ host.at = place

-----------------------------------------------------------------------------
(* The device.                                                             *)

(* Core k of cluster c goes from one statement to the next.                *)
Step(c, k, from, to) ==
  /\ ~fault /\ core[c][k].at = from
  /\ core' = [core EXCEPT ![c][k] = to]
  /\ fault' = ~Usable(dev[c])
  /\ UNCHANGED <<next, args, arrays, device, host, execs, file, raced, disorder, crossed>>

Used(c, k) == IF dev[c] = Null THEN 0 ELSE heap[dev[c]].used[k]

Reserve_OffByOne(c, k) ==     \* room for one record more
  /\ Step(c, k, "alloc", IF Used(c, k) > Capacity THEN Off
                         ELSE [core[c][k] EXCEPT !.at = "read", !.offset = Used(c, k) + 1])
  /\ UNCHANGED <<heap, made>>

(* cb_buffer_alloc reads the counter for the test, for the place and for   *)
(* the sum. A reset only makes room, so that the first two are one step.   *)
(* Without room the record is discarded.                                   *)
Reserve(c, k) ==
  /\ Step(c, k, "alloc", IF Used(c, k) + 1 > Capacity THEN Off
                         ELSE [core[c][k] EXCEPT !.at = "read", !.offset = Used(c, k) + 1])
  /\ UNCHANGED <<heap, made>>

Read(c, k) ==
  /\ Step(c, k, "read", [core[c][k] EXCEPT !.at = "bump", !.seen = Used(c, k)])
  /\ UNCHANGED <<heap, made>>

Bump(c, k) ==
  /\ Step(c, k, "bump", [core[c][k] EXCEPT !.at = "fill"])
  /\ heap' = [heap EXCEPT ![dev[c]].used[k] = core[c][k].seen + 1]
  /\ UNCHANGED made

(* The callback fills in the record, and the kernel ends.                  *)
Fill(c, k) ==
  LET rec == [cluster |-> c, n |-> Len(made[c][k]) + 1] IN
  /\ Step(c, k, "fill", Off)
  /\ heap' = [heap EXCEPT ![dev[c]].cells[k][core[c][k].offset] = rec]
  /\ made' = [made EXCEPT ![c][k] = Append(@, rec)]

-----------------------------------------------------------------------------
(* The host: hthread_dat_load, _dat_unload, _dev_close and the groups.     *)

DatLoad_FirstOnly(c) ==     \* opened_cluster stays what it was
  /\ At("idle") /\ next <= MaxLoads /\ QuietOn(c)
  /\ opened' = IF opened = NoCluster THEN c ELSE opened
  /\ host' = [Idle EXCEPT !.at = IF loaded[c] THEN "flush" ELSE "alloc", !.call = "load",
                          !.cluster = c]
  /\ disorder' = (disorder \/ Others(c)) /\ crossed' = (crossed \/ (loaded[c] /\ Others(c)))
  /\ UNCHANGED <<memory, loaded, dev, core, execs, file, fault, made, raced>>

(* A cluster that was loaded gives up its block first.                     *)
DatLoad(c) ==
  /\ At("idle") /\ next <= MaxLoads /\ QuietOn(c)
  /\ opened' = c
  /\ host' = [Idle EXCEPT !.at = IF loaded[c] THEN "flush" ELSE "alloc", !.call = "load",
                          !.cluster = c]
  /\ disorder' = (disorder \/ Others(c)) /\ crossed' = (crossed \/ (loaded[c] /\ Others(c)))
  /\ UNCHANGED <<memory, loaded, dev, core, execs, file, fault, made, raced>>

(* hthread_malloc for buffers and counters; buffer_init tells the device.  *)
Alloc ==
  /\ At("alloc") /\ host' = Idle
  /\ next' = next + 1 /\ args' = next /\ arrays' = next
  /\ loaded' = [loaded EXCEPT ![host.cluster] = TRUE]
  /\ dev' = [dev EXCEPT ![host.cluster] = next]
  /\ UNCHANGED <<heap, opened, core, execs, file, fault, history>>

(* hthread_dat_unload does not look at dat_loaded. The program has waited  *)
(* for the kernels of c, here, in DevClose and in DatLoad.                 *)
Unload(c) ==
  /\ At("idle") /\ QuietOn(c)
  /\ host' = [Idle EXCEPT !.at = "flush", !.call = "unload", !.cluster = c]
  /\ disorder' = (disorder \/ ~loaded[c])
  /\ UNCHANGED <<memory, device, core, execs, file, fault, made, raced, crossed>>

DevClose_Unguarded(c) ==     \* dat_loaded is not looked at
  /\ At("idle") /\ QuietOn(c)
  /\ host' = [Idle EXCEPT !.at = "flush", !.call = "close", !.cluster = c]
  /\ UNCHANGED <<memory, device, core, execs, file, fault, history>>

(* hthread_dev_close unloads a cluster that is loaded, and changes nothing *)
(* here if it is not.                                                      *)
DevClose(c) ==
  /\ At("idle") /\ loaded[c] /\ QuietOn(c)
  /\ host' = [Idle EXCEPT !.at = "flush", !.call = "close", !.cluster = c]
  /\ UNCHANGED <<memory, device, core, execs, file, fault, history>>

(* No kernel runs on the cores of a group that has all its cores in ks. To *)
(* create or to destroy a group changes nothing here.                      *)
Waited(c, ks) == \A k \in Core : Busy(c, k) => core[c][k].mates \cap ks = {}

(* A kernel runs on all cores of the group; what it does before it makes   *)
(* its record is left out. It is of the image that the cluster has loaded. *)
Exec(c, ks) ==
  /\ At("idle") /\ loaded[c] /\ Waited(c, ks)
  /\ execs < MaxExecs /\ execs' = execs + 1
  /\ core' = [core EXCEPT ![c] =
                [k \in Core |-> IF k \in ks THEN [Off EXCEPT !.at = "alloc", !.mates = ks] ELSE @[k]]]
  /\ UNCHANGED <<memory, device, host, file, fault, history>>

(* hthread_group_wait has returned; all cores are collected from, of the   *)
(* cluster loaded last, whichever the group is of.                         *)
Wait(c, ks) ==
  /\ At("idle") /\ Waited(c, ks)
  /\ host' = [Idle EXCEPT !.at = "flush"]
  /\ raced' = raced \cup {p \in Clusters \X Core : Busy(p[1], p[2])}
  /\ disorder' = (disorder \/ \A d \in Clusters : ~loaded[d])
  /\ UNCHANGED <<memory, device, core, execs, file, fault, made, crossed>>

-----------------------------------------------------------------------------
(* AcclTracer::flush, which knows the cluster from opened_cluster, and     *)
(* what follows it.                                                        *)
Flushed_Short == 1 .. Cores - 1

Flushed == Core

Flush ==
  /\ At("flush")
  /\ fault' = ~Usable(arrays)
  /\ file' = IF fault' \/ opened = NoCluster THEN file
             ELSE [file EXCEPT ![opened] = [k \in Core |->
                     IF k \in Flushed
                     THEN @[k] \o SubSeq(heap[arrays].cells[k], 1, heap[arrays].used[k])
                     ELSE @[k]]]
  /\ host' = [host EXCEPT !.at = IF host.call = "wait" THEN "reset" ELSE "free"]
  /\ UNCHANGED <<memory, device, core, execs, history>>

(* buf_args[3] is not the array the counters were read through.            *)
Reset ==
  /\ At("reset") /\ host' = Idle
  /\ fault' = ~Usable(args)
  /\ heap' = IF fault' THEN heap ELSE [heap EXCEPT ![args].used = [k \in Core |-> 0]]
  /\ UNCHANGED <<next, args, arrays, device, core, execs, file, history>>

Free_NotOnLoad ==     \* a block is only freed by unload
  /\ At("free") /\ args' = Null
  /\ heap' = IF args = Null \/ host.call = "load" THEN heap
             ELSE [heap EXCEPT ![args].freed = TRUE]
  /\ IF host.call = "load" THEN host' = [host EXCEPT !.at = "alloc"] /\ UNCHANGED <<loaded, opened>>
     ELSE /\ host' = Idle
          /\ opened' = NoCluster /\ loaded' = [loaded EXCEPT ![host.cluster] = FALSE]
  /\ UNCHANGED <<next, arrays, dev, core, execs, file, fault, history>>

(* free_buffers, and what unload and close do then.                        *)
Free ==
  /\ At("free") /\ args' = Null
  /\ heap' = IF args = Null THEN heap ELSE [heap EXCEPT ![args].freed = TRUE]
  /\ IF host.call = "load" THEN host' = [host EXCEPT !.at = "alloc"] /\ UNCHANGED <<loaded, opened>>
     ELSE /\ host' = Idle
          /\ opened' = NoCluster /\ loaded' = [loaded EXCEPT ![host.cluster] = FALSE]
  /\ UNCHANGED <<next, arrays, dev, core, execs, file, fault, history>>

-----------------------------------------------------------------------------
DeviceStep(c, k) == Reserve(c, k) \/ Read(c, k) \/ Bump(c, k) \/ Fill(c, k)

GroupStep(c, ks) == Exec(c, ks) \/ Wait(c, ks)

HostStep ==
  \/ Alloc \/ Flush \/ Reset \/ Free
  \/ \E c \in Clusters : DatLoad(c) \/ Unload(c) \/ DevClose(c)

Next ==
  \/ \E c \in Clusters, k \in Core : DeviceStep(c, k)
  \/ HostStep
  \/ \E c \in Clusters, ks \in SUBSET Core \ {{}} : GroupStep(c, ks)

Spec == Init /\ [][Next]_vars

-----------------------------------------------------------------------------
Records == [cluster : Clusters \cup {NoCluster}, n : 0 .. MaxExecs]

TypeOK ==
  /\ heap \in [Blocks -> [freed : BOOLEAN, used : [Core -> 0 .. Capacity],
                          cells : [Core -> [1 .. Capacity -> Records]]]]
  /\ next \in 1 .. MaxLoads + 1 /\ args \in 0 .. MaxLoads /\ arrays \in 0 .. MaxLoads
  /\ loaded \in [Clusters -> BOOLEAN] /\ opened \in Clusters \cup {NoCluster}
  /\ dev \in [Clusters -> 0 .. MaxLoads]
  /\ host \in [at : {"idle", "flush", "reset", "free", "alloc"},
               call : {"wait", "load", "unload", "close"}, cluster : Clusters \cup {NoCluster}]
  /\ core \in [Clusters -> [Core -> [at : Places, offset : 0 .. Capacity,
                                 seen : 0 .. Capacity, mates : SUBSET Core]]]
  /\ execs \in 0 .. MaxExecs
  /\ file \in [Clusters -> [Core -> Seq(Records)]]
  /\ made \in [Clusters -> [Core -> Seq(Records)]]
  /\ raced \subseteq Clusters \X Core
  /\ fault \in BOOLEAN /\ disorder \in BOOLEAN /\ crossed \in BOOLEAN

(* What a core has in its buffer and the host has not taken.               *)
Buffered(c, k) ==
  IF loaded[c] THEN SubSeq(heap[dev[c]].cells[k], 1, heap[dev[c]].used[k]) ELSE <<>>

(* As long as the calls are in order, a core on which no kernel ran while  *)
(* the host collected after a wait for another group keeps every record    *)
(* that got a place, once and in order, in its stream or in its buffer,    *)
(* whatever happens on the other cores (accl_tracer.cpp:41-45,             *)
(* instrumented_func_host.cpp:277-281, mt_buffer.c:16-25).                 *)
UnracedCoresAreComplete ==
  At("idle") /\ ~disorder =>
    \A c \in Clusters, k \in Core :
      <<c, k>> \notin raced /\ ~Busy(c, k) => file[c][k] \o Buffered(c, k) = made[c][k]

(* Freed buffers or null pointers are used only after two clusters have    *)
(* been loaded at a time, for which there is one buf_args and one          *)
(* callback_used_host, or after an unload of a cluster that is not loaded  *)
(* or a wait while none is, which do not look at dat_loaded; whatever else *)
(* the order of loads, unloads, closes, kernels and waits, of the groups   *)
(* of any cluster (instrumented_func_host.cpp:27, 277-281, 312-323,        *)
(* 337-345, 429-441, 460-470).                                             *)
FaultsNeedDisorder == fault => disorder

(* A stream holds the records of its own cluster, unless a cluster is      *)
(* loaded again while another one is: opened_cluster is set before the     *)
(* records of the last cluster are taken                                   *)
(* (instrumented_func_host.cpp:328, 338, accl_tracer.cpp:32).              *)
StreamsAreOwn ==
  ~crossed => \A c \in Clusters, k \in Core : \A i \in DOMAIN file[c][k] :
    file[c][k][i] = Junk \/ file[c][k][i].cluster = c

(* As long as the calls are in order, every block but the one in use is    *)
(* freed, and that one when its cluster is unloaded or closed              *)
(* (instrumented_func_host.cpp:312-323).                                   *)
NothingLeaks ==
  At("idle") /\ ~disorder =>
    \A b \in 1 .. next - 1 : heap[b].freed \/ \E c \in Clusters : loaded[c] /\ dev[c] = b
=============================================================================
