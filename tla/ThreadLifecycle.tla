--------------------------- MODULE ThreadLifecycle ---------------------------
(***************************************************************************)
(* The threads of a traced process: how the pthread wrappers               *)
(* (lib/record/pthread_wrapper.cpp, pthread_instrument.h), the guard       *)
(* (lib/record/safe.cpp, include/utils/safe.hpp) and the record writer     *)
(* (lib/record/record_writer.cpp) start, sample, finalise and await them.  *)
(*                                                                         *)
(* A thread is a stack of frames, the last of which runs. The first one is *)
(* the program's (and the wrappers called from it); jsi_thread_finalize    *)
(* and the handlers of SIG_THREAD_EXIT and of the sampling signals are     *)
(* pushed on whatever they interrupt.                                      *)
(*                                                                         *)
(* Undefined behaviour (a freed object used, an iterator to an erased      *)
(* node, a set read while it changes, an id of a thread that is gone) and  *)
(* the default action of a signal end an execution with a fault.           *)
(***************************************************************************)
EXTENDS Integers, Sequences, FiniteSets, FiniteSetsExt

CONSTANTS
  Workers,    (* values of pthread_t, which are reused; std::set orders them *)
  Creators,   (* the threads that create threads                             *)
  Exiters,    (* the threads that may call exit; main() returns in Main      *)
  Sampling,   (* JSI_ENABLE_SAMPLING                                         *)
  MemoryCollect, (* JSI_ENABLE_MEMORY_COLLECT, off unless it is set           *)
  MaxTicks,   (* bound: the timer expires so often                           *)
  MaxCreated  (* bound: so many threads are created                          *)

Main    == 0
Threads == {Main} \cup Workers

(* Also the iterator's end() and a lock nobody holds are 0 or below.       *)
ASSUME ThreadLifecycleAssumption ==
  /\ Workers \subseteq Nat \ {0} /\ IsFiniteSet(Workers)
  /\ Sampling \in BOOLEAN /\ MemoryCollect \in BOOLEAN
  /\ Creators \subseteq Threads /\ Exiters \subseteq Threads
  /\ MaxTicks \in Nat /\ MaxCreated \in Nat

End  == 0
Free == -1

VARIABLES
  stack,    (* the frames of each thread                                   *)
  tls,      (* its thread-local variables                                  *)
  child,    (* the thread it has created last, until joined or detached    *)
  reap,     (* a thread is joinable, being joined, joined or detached      *)
  threads,  (* *threads: the ids the shutdown and the timer work on        *)
  lock,     (* holder of threads_lock                                      *)
  pending,  (* signals sent to a thread                                    *)
  timer,    (* REALTIME_SIGNAL leads to main_thread_timer_handler          *)
  handler,  (* SIG_THREAD_SAMPLING leads to timer_handler                  *)
  cursor,   (* iterator of the shutdown                                    *)
  fini,     (* what the destructors have completed or deleted              *)
  ticks,    (* how often the timer has expired                             *)
  fault,    (* "none" or what has gone wrong                               *)
  hit,      (* history: the exit signal caught a thread in the tool's code *)
  odd,      (* history: threads that ended without their erase, or before  *)
            (* they were inserted                                          *)
  quiet,    (* history: exit was called with no other thread alive and     *)
            (* the set empty                                               *)
  known,    (* history: the threads in the set when exit was called        *)
  made      (* history: how many threads have been created                 *)

locals  == <<tls, child, reap>>
set     == <<threads, lock>>
signals == <<pending, timer, handler, ticks>>
exiting == <<cursor, fini>>
history == <<hit, odd, quiet, known, made>>
vars    == <<stack, locals, set, signals, exiting, fault, history>>

(* Frames in which the thread is inside a wrapper or a handler that has    *)
(* entered the guard, and uses or will use its section maps.               *)
Recording == {"store", "create", "created", "insert", "inserting", "join", "leaving",
              "sampling"}
Finalise  == {"fini", "finiSet", "finiSampler", "finiFree", "finiEnd"}
Shutdown  == {"exitMark", "exitKill", "exitJoin", "exitStore", "exitFini", "exitBackend",
              "exitSet", "exited"}
Tool      == Recording \cup Finalise \cup Shutdown \cup {"erase", "erasing"}
Program   == {"new", "start", "run", "wait", "plain", "dead"}
Faults    == {"none", "freed", "backend", "doubleFree", "nested", "noSet", "iterator",
              "deadId", "killed"}

(* Frames that store, or dump backtraces, outside of the guard.            *)
Unguarded == {"exitStore", "exitFini", "finiFree"}

Top(t)     == stack[t][Len(stack[t])]
Running(t) == Top(t) \notin {"new", "dead"}
Gone       == \E t \in Threads : Top(t) = "exited"

Goto(t, from, to) == Top(t) = from /\ stack' = [stack EXCEPT ![t][Len(stack[t])] = to]
Push(t, f)        == stack' = [stack EXCEPT ![t] = Append(@, f)]
Pop(t)            == stack' = [stack EXCEPT ![t] = SubSeq(@, 1, Len(@) - 1)]

(* The frame goes on with "next" once the pushed one has returned.         *)
Call(t, from, next, f) ==
  /\ Top(t) = from
  /\ stack' = [stack EXCEPT ![t] = Append([@ EXCEPT ![Len(@)] = next], f)]

Fresh == [in_tool |-> FALSE, unsafe |-> FALSE, initialized |-> FALSE, record_fini |-> FALSE,
          maps |-> "none"]

(* The constructor of the library has initialised the main thread.         *)
Init ==
  /\ stack = [t \in Threads |-> IF t = Main THEN <<"run">> ELSE <<"new">>]
  /\ tls = [t \in Threads |->
              IF t = Main THEN [Fresh EXCEPT !.initialized = TRUE, !.maps = "live"] ELSE Fresh]
  /\ child = [t \in Threads |-> Main]
  /\ reap = [w \in Workers |-> "joined"]
  /\ threads = {} /\ lock = Free
  /\ pending = [w \in Workers |-> {}] /\ timer = Sampling /\ handler = FALSE /\ ticks = 0
  /\ cursor = End /\ fini = {} /\ fault = "none"
  /\ hit = FALSE /\ odd = {} /\ quiet = FALSE /\ known = {} /\ made = 0

(* Faulty variants: what the properties below must notice.                 *)
Guard_Reentrant(t) == tls[t].initialized /\ ~tls[t].unsafe

(* jsi_safe_enter lets the thread in, and the writer accepts records.      *)
Guard(t) == ~tls[t].in_tool /\ tls[t].initialized /\ ~tls[t].unsafe

Collecting == fini = {}

(* What an allocation or a deletion leaves of unsafe_state: unless memory   *)
(* functions are recorded, their wrappers mark it on the way in and clear  *)
(* it on the way out, whoever had set it before.                           *)
Allocated(unsafe) == unsafe /\ MemoryCollect

Enter(t) == tls' = [tls EXCEPT ![t].in_tool = TRUE]
Leave(t) == tls' = [tls EXCEPT ![t].in_tool = FALSE]

(* traceStore and samplingStore go through the thread's maps to a section  *)
(* of the backend.                                                         *)
UseMaps(t) ==
  fault' = IF tls[t].maps # "live" THEN "freed"
           ELSE IF "backend" \in fini THEN "backend" ELSE "none"

(* The set is used without the lock, or under it.                          *)
UseSet(t, f) ==
  fault' = IF "set" \in fini THEN "noSet" ELSE IF lock \notin {t, Free} THEN "iterator" ELSE f

-----------------------------------------------------------------------------
(* Threads start and end.                                                  *)

(* wrapped_start_routine: jsi_thread_init allocates the maps, installs the *)
(* handlers and declares the thread initialised. To a signal in between,   *)
(* the thread is not.                                                      *)
StartThread(w) ==
  /\ Goto(w, "start", "run")
  /\ tls' = [tls EXCEPT ![w].initialized = TRUE, ![w].maps = "live"]
  /\ handler' = Sampling
  /\ UNCHANGED <<child, reap, set, pending, timer, ticks, exiting, fault, history>>

(* original_start returns; jsi_thread_finalize, then erase.                *)
Return(w) ==
  /\ Call(w, "run", "erase", "fini")
  /\ UNCHANGED <<locals, set, signals, exiting, fault, history>>

Dies(w, from) == Goto(w, from, "dead") /\ pending' = [pending EXCEPT ![w] = {}]

(* A thread created behind the wrapper's back runs no code of the tool.    *)
ReturnPlain(w) ==
  /\ Dies(w, "plain")
  /\ UNCHANGED <<locals, set, timer, handler, ticks, exiting, fault, history>>

(* pthread_exit records, if it may, before it calls the real one; it       *)
(* neither finalises nor erases.                                           *)
ExitThread(w) ==
  /\ Guard(w) /\ Collecting
  /\ Goto(w, "run", "leaving") /\ Enter(w)
  /\ UNCHANGED <<child, reap, set, signals, exiting, fault, history>>

ExitUnrecorded(w) ==
  /\ ~(Guard(w) /\ Collecting)
  /\ Dies(w, "run")
  /\ odd' = odd \cup {w}
  /\ UNCHANGED <<locals, set, timer, handler, ticks, exiting, fault, hit, quiet, known, made>>

StoreExit(w) ==
  /\ Dies(w, "leaving")
  /\ UseMaps(w)
  /\ odd' = odd \cup {w}
  /\ UNCHANGED <<locals, set, timer, handler, ticks, exiting, hit, quiet, known, made>>

LockToErase(w) ==
  /\ Goto(w, "erase", "erasing")
  /\ lock = Free /\ lock' = w
  /\ UNCHANGED <<locals, threads, signals, exiting, fault, history>>

Erase(w) ==
  /\ Dies(w, "erasing")
  /\ threads' = threads \ {w} /\ lock' = Free
  /\ UseSet(w, "none")
  /\ odd' = odd \ {w}
  /\ UNCHANGED <<locals, timer, handler, ticks, exiting, hit, quiet, known, made>>

-----------------------------------------------------------------------------
(* jsi_thread_finalize: called at the end of a thread, by the destructor,  *)
(* or as the handler of SIG_THREAD_EXIT. record_fini is tested and set in  *)
(* two steps; unsafe_state is set with it, and lasts until something is    *)
(* deleted: from then on only in_tool keeps a sample out.                  *)
FiniTest(t) ==
  /\ Top(t) = "fini"
  /\ \/ ~tls[t].initialized /\ Pop(t)
     \/ tls[t].initialized /\ tls[t].record_fini /\ Goto(t, "fini", "finiEnd")
     \/ tls[t].initialized /\ ~tls[t].record_fini /\ Goto(t, "fini", "finiSet")
  /\ UNCHANGED <<locals, set, signals, exiting, fault, history>>

FiniSet(t) ==
  /\ Goto(t, "finiSet", "finiSampler")
  /\ tls' = [tls EXCEPT ![t].record_fini = TRUE, ![t].unsafe = TRUE]
  /\ UNCHANGED <<child, reap, set, signals, exiting, fault, history>>

(* Deleting the sampler, if there is one, ignores REALTIME_SIGNAL, for the *)
(* whole process.                                                          *)
FiniSampler(t) ==
  /\ Goto(t, "finiSampler", "finiFree")
  /\ timer' = FALSE
  /\ tls' = [tls EXCEPT ![t].unsafe = IF Sampling THEN Allocated(@) ELSE @]
  /\ fault' = IF Sampling /\ tls[t].maps = "freed" THEN "doubleFree" ELSE "none"
  /\ UNCHANGED <<child, reap, set, pending, handler, ticks, exiting, history>>

(* The backtraces go to the backend, and the maps are deleted one by one:  *)
(* from the first on, until "finiEnd" is over, they are not to be used.    *)
FiniFree(t) ==
  /\ Goto(t, "finiFree", "finiEnd")
  /\ tls' = [tls EXCEPT ![t].maps = "freed", ![t].unsafe = Allocated(@)]
  /\ fault' = IF tls[t].maps = "freed" THEN "doubleFree"
              ELSE IF "backend" \in fini THEN "backend" ELSE "none"
  /\ UNCHANGED <<child, reap, set, signals, exiting, history>>

FiniEnd_Initialized(t) ==     \* leaves thread_data_initialized
  /\ Top(t) = "finiEnd" /\ Pop(t)
  /\ UNCHANGED <<locals, set, signals, exiting, fault, history>>

FiniEnd(t) ==
  /\ Top(t) = "finiEnd" /\ Pop(t)
  /\ tls' = [tls EXCEPT ![t].initialized = FALSE]
  /\ UNCHANGED <<child, reap, set, signals, exiting, fault, history>>

-----------------------------------------------------------------------------
(* The program calls wrapped functions.                                    *)

(* Any wrapper that records: in, and out through traceStore. Those of MPI  *)
(* and OpenMP ask nothing but the guard.                                   *)
EnterWrapper(t) ==
  /\ Guard(t)
  /\ Goto(t, "run", "store") /\ Enter(t)
  /\ UNCHANGED <<child, reap, set, signals, exiting, fault, history>>

Store(t) ==
  /\ Goto(t, "store", "run") /\ Leave(t)
  /\ UseMaps(t)
  /\ UNCHANGED <<child, reap, set, signals, exiting, history>>

(* An id is given out again once its thread has been joined or detached.   *)
Unused(w) == Top(w) \in {"new", "dead"} /\ reap[w] \in {"joined", "detached"}

(* real_pthread_create, between jsi_mark_unsafe_enter and _exit, which     *)
(* leave unsafe_state FALSE whatever it was.                               *)
RealCreate(t, w, from, to, start) ==
  /\ t \in Creators
  /\ Unused(w) /\ Top(t) = from
  /\ stack' = [stack EXCEPT ![t][Len(stack[t])] = to, ![w] = <<start>>]
  /\ child' = [child EXCEPT ![t] = w, ![w] = Main]
  /\ reap' = [reap EXCEPT ![w] = "joinable"]
  /\ pending' = [pending EXCEPT ![w] = {}]
  /\ odd' = odd \ ({w} \ threads)
  /\ known' = known \ {w}
  /\ made < MaxCreated /\ made' = made + 1

(* The guard refuses: the thread is neither wrapped nor inserted.          *)
CreateUnguarded(t, w) ==
  /\ ~Guard(t)
  /\ RealCreate(t, w, "run", "run", "plain")
  /\ tls' = [tls EXCEPT ![t].unsafe = FALSE, ![w] = Fresh]
  /\ UNCHANGED <<set, timer, handler, ticks, exiting, fault, hit, quiet>>

(* A destructor has run already: the thread is not wrapped, but inserted.  *)
CreateLate(t, w) ==
  /\ Guard(t) /\ ~Collecting
  /\ RealCreate(t, w, "run", "insert", "plain")
  /\ tls' = [tls EXCEPT ![t].in_tool = TRUE, ![t].unsafe = FALSE, ![w] = Fresh]
  /\ UNCHANGED <<set, timer, handler, ticks, exiting, fault, hit, quiet>>

EnterCreate(t) ==
  /\ t \in Creators /\ Guard(t) /\ Collecting
  /\ Goto(t, "run", "create") /\ Enter(t)
  /\ UNCHANGED <<child, reap, set, signals, exiting, fault, history>>

Create(t, w) ==
  /\ RealCreate(t, w, "create", "created", "start")
  /\ tls' = [tls EXCEPT ![t].unsafe = FALSE, ![w] = Fresh]
  /\ UNCHANGED <<set, timer, handler, ticks, exiting, fault, hit, quiet>>

StoreCreate(t) ==
  /\ Goto(t, "created", "insert")
  /\ UseMaps(t)
  /\ UNCHANGED <<locals, set, signals, exiting, history>>

LockToInsert(t) ==
  /\ Goto(t, "insert", "inserting")
  /\ lock = Free /\ lock' = t
  /\ UNCHANGED <<locals, threads, signals, exiting, fault, history>>

Insert_Forgotten(t) ==
  /\ Goto(t, "inserting", "run") /\ Leave(t)
  /\ lock' = Free
  /\ UseSet(t, "none")
  /\ UNCHANGED <<child, reap, threads, signals, exiting, history>>

(* The child may be gone already: its id stays in the set.                 *)
Insert(t) ==
  /\ Goto(t, "inserting", "run") /\ Leave(t)
  /\ threads' = threads \cup {child[t]} /\ lock' = Free
  /\ UseSet(t, "none")
  /\ odd' = IF Top(child[t]) \in {"dead", "plain"} THEN odd \cup {child[t]} ELSE odd
  /\ UNCHANGED <<child, reap, signals, exiting, hit, quiet, known, made>>

(* A thread joins or detaches the one it has created last, once.           *)
MayReap(t, w) == child[t] = w /\ reap[w] = "joinable"

EnterJoin(t, w) ==
  /\ MayReap(t, w)
  /\ reap' = [reap EXCEPT ![w] = "joining"]
  /\ Goto(t, "run", IF Guard(t) /\ Collecting THEN "join" ELSE "wait")
  /\ IF Guard(t) THEN Enter(t) ELSE UNCHANGED tls
  /\ UNCHANGED <<child, set, signals, exiting, fault, history>>

Join(t) ==
  /\ \/ Goto(t, "join", "store") /\ UNCHANGED tls
     \/ Goto(t, "wait", "run") /\ Leave(t)
  /\ Top(child[t]) = "dead"
  /\ reap' = [reap EXCEPT ![child[t]] = "joined"]
  /\ child' = [child EXCEPT ![t] = Main]
  /\ UNCHANGED <<set, signals, exiting, fault, history>>

Detach(t, w) ==
  /\ MayReap(t, w)
  /\ reap' = [reap EXCEPT ![w] = "detached"] /\ child' = [child EXCEPT ![t] = Main]
  /\ \/ Guard(t) /\ Collecting /\ Goto(t, "run", "store") /\ Enter(t)
     \/ ~(Guard(t) /\ Collecting) /\ Top(t) = "run" /\ UNCHANGED <<stack, tls>>
  /\ UNCHANGED <<set, signals, exiting, fault, history>>

-----------------------------------------------------------------------------
(* Sampling.                                                               *)

(* timer_handler enters the guard, or returns. One that interrupts another *)
(* returns (where it is not blocked meanwhile).                            *)
PushSample(t) ==
  IF Guard(t) THEN Push(t, "sampling") /\ Enter(t) ELSE UNCHANGED <<stack, tls>>

(* An id in the set whose thread has been waited for.                      *)
Invalid(w) == Top(w) = "dead" /\ reap[w] \in {"joined", "detached"}

(* The timer expires: the signal is sent to the process, and any thread    *)
(* may run the handler. It passes the signal on to all threads of the set, *)
(* without the lock, and goes on to timer_handler.                         *)
Timer(t) ==
  /\ timer /\ Running(t)
  /\ ticks < MaxTicks /\ ticks' = ticks + 1
  /\ PushSample(t)
  /\ pending' = [w \in Workers |->
                   pending[w] \cup IF w \in threads /\ Running(w) THEN {"sample"} ELSE {}]
  /\ fault' = IF lock # Free THEN "iterator"
              ELSE IF \E w \in threads : Invalid(w) THEN "deadId" ELSE "none"
  /\ UNCHANGED <<child, reap, set, timer, handler, exiting, history>>

DeliverSample(w) ==
  /\ "sample" \in pending[w] /\ Running(w)
  /\ PushSample(w)
  /\ pending' = [pending EXCEPT ![w] = @ \ {"sample"}]
  /\ fault' = IF handler THEN "none" ELSE "killed"
  /\ UNCHANGED <<child, reap, set, timer, handler, ticks, exiting, history>>

(* What it has interrupted outside of the guard may be half way through:   *)
(* a section of it, or the spin lock of the file, is not to be had.        *)
StoreSample(t) ==
  /\ Top(t) = "sampling" /\ Pop(t) /\ Leave(t)
  /\ \/ UseMaps(t)
     \/ stack[t][Len(stack[t]) - 1] \in Unguarded /\ fault' = "nested"
  /\ UNCHANGED <<child, reap, set, signals, exiting, history>>

-----------------------------------------------------------------------------
(* exit() or the return of main: the destructors, of which the one of the  *)
(* pthread wrappers comes first and then recordWriterCacheFinalize.        *)
Exit(t) ==
  /\ t \in Exiters /\ fini = {} /\ fini' = {"wrapper"}
  /\ Goto(t, "run", "exitMark")
  /\ quiet' = (threads = {} /\ \A w \in Threads \ {t} : ~Running(w)) /\ known' = threads
  /\ UNCHANGED <<locals, set, signals, cursor, fault, hit, odd, made>>

(* *threads is ordered; so is an iteration over it.                        *)
Next1(c) ==
  LET after == {w \in threads : w > c} IN IF after = {} THEN End ELSE Min(after)

ExitMark(t) ==
  /\ Goto(t, "exitMark", "exitKill")
  /\ tls' = [tls EXCEPT ![t].unsafe = TRUE]
  /\ cursor' = Next1(End)
  /\ UseSet(t, "none")
  /\ UNCHANGED <<child, reap, set, signals, fini, history>>

(* pthread_kill, and on to the next.                                       *)
ExitKill(t) ==
  /\ Top(t) = "exitKill" /\ cursor # End /\ UNCHANGED stack
  /\ pending' = [pending EXCEPT ![cursor] =
                   IF Running(cursor) THEN @ \cup {"exit"} ELSE @]
  /\ cursor' = Next1(cursor)
  /\ UseSet(t, IF cursor \notin threads THEN "iterator"
               ELSE IF Invalid(cursor) THEN "deadId" ELSE "none")
  /\ UNCHANGED <<locals, set, timer, handler, ticks, fini, history>>

ExitKilled(t) ==
  /\ cursor = End /\ Goto(t, "exitKill", "exitJoin")
  /\ cursor' = Next1(End)
  /\ UseSet(t, "none")
  /\ UNCHANGED <<locals, set, signals, fini, history>>

(* pthread_join ends when the thread has ended, or at once when it would   *)
(* wait for itself (EDEADLK).                                              *)
Waits(w, t) == Top(w) \in {"join", "wait"} /\ child[w] = t

ExitJoin(t) ==
  /\ Top(t) = "exitJoin" /\ cursor # End /\ UNCHANGED stack
  /\ \/ Top(cursor) = "dead" \/ reap[cursor] # "joinable" \/ cursor = t \/ Waits(cursor, t)
  /\ reap' = IF Top(cursor) = "dead" THEN [reap EXCEPT ![cursor] = "joined"] ELSE reap
  /\ cursor' = Next1(cursor)
  /\ UseSet(t, IF cursor \notin threads THEN "iterator"
               ELSE IF reap[cursor] # "joinable" THEN "deadId" ELSE "none")
  /\ UNCHANGED <<tls, child, set, signals, fini, history>>

ExitJoined_Early(t) ==     \* deletes the backend before the last record
  /\ cursor = End /\ Goto(t, "exitJoin", "exitStore")
  /\ fini' = fini \cup {"writer", "backend"}
  /\ tls' = [tls EXCEPT ![t].unsafe = Allocated(@)]
  /\ UNCHANGED <<child, reap, set, signals, cursor, fault, history>>

(* The record is allocated.                                                *)
ExitJoined(t) ==
  /\ cursor = End /\ Goto(t, "exitJoin", "exitStore")
  /\ fini' = fini \cup {"writer"}
  /\ tls' = [tls EXCEPT ![t].unsafe = Allocated(@)]
  /\ UNCHANGED <<child, reap, set, signals, cursor, fault, history>>

(* The JSI_PROCESS_EXIT record, past the guard. ("exitFini": metadata, too.) *)
ExitStore(t) ==
  /\ Goto(t, "exitStore", "exitFini")
  /\ UseMaps(t)
  /\ UNCHANGED <<locals, set, signals, exiting, history>>

ExitFini_Skipped(t) ==     \* leaves the thread's sections alone
  /\ Goto(t, "exitFini", "exitBackend")
  /\ UNCHANGED <<locals, set, signals, exiting, fault, history>>

ExitFini(t) ==
  /\ Call(t, "exitFini", "exitBackend", "fini")
  /\ UNCHANGED <<locals, set, signals, exiting, fault, history>>

ExitBackend(t) ==
  /\ Goto(t, "exitBackend", "exitSet")
  /\ fini' = fini \cup {"backend"}
  /\ UNCHANGED <<locals, set, signals, cursor, fault, history>>

ExitSet(t) ==
  /\ Goto(t, "exitSet", "exited")
  /\ fini' = fini \cup {"set"}
  /\ UNCHANGED <<locals, set, signals, cursor, fault, history>>

DeliverExit_Again(w) ==     \* not blocked while its handler runs, and sent again
  /\ "exit" \in pending[w] /\ Running(w)
  /\ Push(w, "fini")
  /\ hit' = (hit \/ Top(w) \in Tool)
  /\ UNCHANGED <<locals, set, signals, exiting, fault, odd, quiet, known, made>>

(* SIG_THREAD_EXIT arrives anywhere.                                       *)
DeliverExit(w) ==
  /\ "exit" \in pending[w] /\ Running(w)
  /\ Push(w, "fini")
  /\ pending' = [pending EXCEPT ![w] = @ \ {"exit"}]
  /\ hit' = (hit \/ Top(w) \in Tool)
  /\ UNCHANGED <<locals, set, timer, handler, ticks, exiting, fault, odd, quiet, known, made>>

-----------------------------------------------------------------------------
FiniStep(t) == FiniTest(t) \/ FiniSet(t) \/ FiniSampler(t) \/ FiniFree(t) \/ FiniEnd(t)

WrapperStep(t) == Store(t) \/ StoreCreate(t) \/ LockToInsert(t) \/ Insert(t) \/ Join(t)

ThreadStep(w) ==
  \/ StartThread(w) \/ ReturnPlain(w) \/ StoreExit(w) \/ LockToErase(w) \/ Erase(w)

ExitStep(t) ==
  \/ ExitMark(t) \/ ExitKill(t) \/ ExitKilled(t) \/ ExitJoin(t) \/ ExitJoined(t)
  \/ ExitStore(t) \/ ExitFini(t) \/ ExitBackend(t) \/ ExitSet(t)

CreateStep(t) ==
  \/ EnterCreate(t)
  \/ \E w \in Workers : CreateUnguarded(t, w) \/ CreateLate(t, w) \/ Create(t, w)

(* What the program calls, and what comes from outside.                    *)
ProgramStep(t) ==
  \/ EnterWrapper(t) \/ CreateStep(t) \/ Exit(t)
  \/ \E w \in Workers : EnterJoin(t, w) \/ Detach(t, w)

Signal ==
  \/ \E t \in Threads : Timer(t)
  \/ \E w \in Workers : DeliverSample(w) \/ DeliverExit(w)

ToolStep(t) == FiniStep(t) \/ StoreSample(t) \/ WrapperStep(t) \/ ExitStep(t)

Next ==
  /\ fault = "none" /\ ~Gone
  /\ \/ \E t \in Threads : ProgramStep(t) \/ ToolStep(t)
     \/ \E w \in Workers : ThreadStep(w) \/ Return(w) \/ ExitThread(w) \/ ExitUnrecorded(w)
     \/ Signal

Spec == Init /\ [][Next]_vars

-----------------------------------------------------------------------------
TypeOK ==
  /\ stack \in [Threads -> Seq(Tool \cup Program)]
  /\ \A t \in Threads : Len(stack[t]) \in 1 .. 4
  /\ tls \in [Threads -> [in_tool : BOOLEAN, unsafe : BOOLEAN, initialized : BOOLEAN,
                          record_fini : BOOLEAN, maps : {"none", "live", "freed"}]]
  /\ child \in [Threads -> Threads]
  /\ reap \in [Workers -> {"joinable", "joining", "joined", "detached"}]
  /\ threads \subseteq Workers /\ lock \in Threads \cup {Free}
  /\ pending \in [Workers -> SUBSET {"sample", "exit"}]
  /\ timer \in BOOLEAN /\ handler \in BOOLEAN /\ ticks \in 0 .. MaxTicks
  /\ cursor \in Threads /\ fini \subseteq {"wrapper", "writer", "backend", "set"}
  /\ fault \in Faults /\ hit \in BOOLEAN /\ odd \subseteq Workers /\ quiet \in BOOLEAN
  /\ known \subseteq Workers /\ made \in 0 .. MaxCreated

(* The guard (safe.hpp:32-41) keeps a record from being made inside        *)
(* another one: of all that a thread has interrupted, by whatever signal,  *)
(* at most one frame is between jsi_safe_enter and the end of its store.   *)
(* (The last record and a finalisation do not enter the guard.)            *)
StoresDoNotNest ==
  \A t \in Threads : \A i, j \in DOMAIN stack[t] :
    stack[t][i] \in Recording /\ stack[t][j] \in Recording => i = j

(* What makes a thread misuse its section maps. It deletes them twice only *)
(* where SIG_THREAD_EXIT has landed in the middle of a wrapper, of a       *)
(* finalisation or of the shutdown (record_writer.cpp:237, 245-270). It    *)
(* uses them after they were deleted only there, or in a sample that was   *)
(* let in while it was deleting them; and that, like a sample in the       *)
(* middle of an unguarded store, only while memory functions are not       *)
(* recorded, when every free clears unsafe_state (memory_wrapper.cpp:86-92). *)
MemoryFaultsNeedSignals ==
  /\ fault = "doubleFree" => hit
  /\ fault = "freed" => hit \/ (~MemoryCollect /\ \E t \in Threads : Top(t) = "finiEnd")
  /\ fault = "nested" => ~MemoryCollect

(* A thread that records is in the set from which it is sampled and        *)
(* awaited, or its creator is still inside pthread_create; the id of one   *)
(* that has ended stays there only if it ended before it was inserted,     *)
(* left through pthread_exit, or was never wrapped                         *)
(* (pthread_wrapper.cpp:52-71, pthread_instrument.h:212-221).              *)
ThreadsAreTheLive ==
  /\ \A w \in Workers :
       tls[w].initialized /\ Running(w) =>
         w \in threads \/ \E t \in Threads : child[t] = w /\ Top(t) \in Tool
  /\ \A w \in threads : Top(w) = "dead" => w \in odd

(* A process that exits after all its threads have ended, with an empty    *)
(* set, shuts down without using anything after it was deleted, by the     *)
(* destructor or by a sampling signal. The one thing that can go wrong is  *)
(* a sample in the middle of the last record or of the metadata, while     *)
(* memory functions are not recorded (record_writer.cpp:349-411).          *)
QuietExitIsClean ==
  quiet =>
    \/ fault = "none"
    \/ fault = "nested" /\ ~MemoryCollect /\ Top(Main) \in {"exitStore", "exitFini"}

(* When main returns and the process ends without a fault, every thread    *)
(* that was in the set by then and was not left through pthread_exit has   *)
(* had its sections closed (record_writer.cpp:263-270, 355-365). A thread  *)
(* that is inserted later than that may be missed: the iteration goes up,  *)
(* and its id may be lower than those that are visited.                    *)
ExitLosesNothing ==
  Top(Main) = "exited" =>
    \A t \in known \cup {Main} : tls[t].maps = "live" => t \in odd

(* The timer goes on as long as the process has not begun to end.          *)
SamplingIsPeriodic == Sampling /\ fini = {} => timer
=============================================================================
