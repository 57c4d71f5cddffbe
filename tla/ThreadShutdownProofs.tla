------------------------- MODULE ThreadShutdownProofs -------------------------
(***************************************************************************)
(* The other invariants of ThreadLifecycle, for any threads, any order of  *)
(* their ids, and any signals: what the set of threads holds, who misuses  *)
(* section maps, what a quiet process can still meet, and that nothing of  *)
(* the threads in the set is lost when main returns.                       *)
(*                                                                         *)
(* The invariant KInv has one part about each thread alone (Local: what    *)
(* its frames say of its thread-local variables), one about how often the  *)
(* exit signal reaches it (DepthInv), and the rest about the first frames, *)
(* the set, and the iterator of the shutdown.                              *)
(***************************************************************************)
EXTENDS ThreadLifecycleProofs, WellFoundedInduction

Creating == {"created", "insert", "inserting"}
Marking  == {"exitMark", "exitKill", "exitJoin", "exitStore"}
Closed   == {"erase", "erasing", "exitBackend", "exitSet", "exited"}
Unborn   == {"new", "start", "plain"}

Base(t)   == stack[t][1]
Has(s, f) == \E i \in 1 .. Len(s) : s[i] = f

(* Before exit: who runs the program is initialised and not finalised, and *)
(* who finalises has returned.                                             *)
Early(s, l) ==
  /\ s[1] \in Recording \cup {"run", "wait"} => l.initialized /\ ~l.record_fini
  /\ \A i \in 1 .. Len(s) : s[i] \in Finalise => s[1] = "erase"

(* While no exit signal has landed in the tool's code: a finalisation is   *)
(* the second frame, nothing of the tool is below it, and who is still to  *)
(* record has its maps, unless it is a sample that interrupts a            *)
(* finalisation which has deleted them.                                    *)
Alone(s, l) ==
  /\ \A i \in 1 .. Len(s) : s[i] \in Finalise => i = 2
  /\ Len(s) > 1 /\ s[2] \in Finalise => s[1] \in Program \cup {"erase", "exitBackend"}
  /\ l.initialized /\ ~l.record_fini => l.maps = "live"
  /\ l.initialized /\ l.record_fini =>
       /\ Len(s) > 1 /\ s[2] \in {"finiSampler", "finiFree", "finiEnd"}
       /\ MemoryCollect => l.unsafe /\ Len(s) = 2
  /\ Len(s) > 1 /\ s[2] = "finiSet" => l.initialized /\ ~l.record_fini
  /\ Len(s) > 1 /\ s[2] \in {"finiSampler", "finiFree"} => l.maps = "live" /\ l.record_fini
  /\ \A i \in 1 .. Len(s) : s[i] \in Recording \cup Marking =>
       l.maps = "live" \/ (i > 2 /\ s[2] = "finiEnd" /\ ~MemoryCollect)

(* An exit signal finds nothing to finalise.                               *)
Unstarted(s, l) ==
  s[1] \in Unborn =>
    /\ ~l.initialized /\ ~l.record_fini
    /\ \A i \in 1 .. Len(s) : s[i] \in Finalise => s[i] = "fini"

(* Who has begun to close its sections closes them before it goes on,      *)
(* however the finalisations have interrupted one another.                 *)
Freeing(s) == Has(s, "finiSampler") \/ Has(s, "finiFree")

Closing(s, l) ==
  l.maps = "live" =>
    /\ l.initialized \/ Freeing(s)
    /\ l.record_fini \/ Has(s, "finiEnd") => Freeing(s)
    /\ s[1] \in Closed => Has(s, "fini") \/ Has(s, "finiSet") \/ Freeing(s)

(* Where memory functions are recorded, unsafe_state keeps the samples out *)
(* of what is not guarded.                                                 *)
Calm(s) == \A i \in 2 .. Len(s) : s[i] = "sampling" => s[i - 1] \notin Unguarded

Shielded(s, l) ==
  MemoryCollect =>
    /\ l.initialized /\ (s[1] \in Shutdown \ {"exitMark"} \/ Freeing(s)) => l.unsafe
    /\ Calm(s)

Local(s, l, early, h) ==
  /\ early => Early(s, l)
  /\ ~h => Alone(s, l)
  /\ Unstarted(s, l) /\ Closing(s, l) /\ Shielded(s, l)

LocalInv == \A t \in Threads : Local(stack[t], tls[t], fini = {}, hit)

-----------------------------------------------------------------------------
(* Steps of one thread, seen as steps of its stack and its locals.         *)

(* What the first frame of a thread knows while nothing interrupts it.     *)
LEMMA OneLocal ==
  ASSUME NEW f, f \notin Upper, NEW l \in Locals, NEW e \in BOOLEAN, NEW h \in BOOLEAN
  PROVE  Local(<<f>>, l, e, h) <=>
           /\ e /\ f \in Recording \cup {"run", "wait"} => l.initialized /\ ~l.record_fini
           /\ ~h => /\ l.initialized /\ ~l.record_fini => l.maps = "live"
                    /\ ~(l.initialized /\ l.record_fini)
                    /\ f \in Recording \cup Marking => l.maps = "live"
           /\ f \in Unborn => ~l.initialized /\ ~l.record_fini
           /\ l.maps = "live" => l.initialized /\ ~l.record_fini /\ f \notin Closed
           /\ MemoryCollect /\ l.initialized /\ f \in Shutdown \ {"exitMark"} => l.unsafe
<1> DEFINE s == <<f>>
<1>1. Len(s) = 1 /\ s[1] = f /\ 1 .. Len(s) = {1} /\ f \notin Finalise
  BY DEF Upper
<1> HIDE DEF s
<1>2. Early(s, l) <=> (f \in Recording \cup {"run", "wait"} => l.initialized /\ ~l.record_fini)
  BY <1>1 DEF Early
<1>3. Alone(s, l) <=> /\ l.initialized /\ ~l.record_fini => l.maps = "live"
                      /\ ~(l.initialized /\ l.record_fini)
                      /\ f \in Recording \cup Marking => l.maps = "live"
  BY <1>1 DEF Alone
<1>4. Unstarted(s, l) <=> (f \in Unborn => ~l.initialized /\ ~l.record_fini)
  BY <1>1 DEF Unstarted
<1>5. ~Has(s, "fini") /\ ~Has(s, "finiSet") /\ ~Freeing(s) /\ ~Has(s, "finiEnd")
  BY <1>1 DEF Has, Freeing, Finalise
<1>6. Closing(s, l) <=>
        (l.maps = "live" => l.initialized /\ ~l.record_fini /\ f \notin Closed)
  BY <1>1, <1>5 DEF Closing
<1>7. Shielded(s, l) <=>
        (MemoryCollect /\ l.initialized /\ f \in Shutdown \ {"exitMark"} => l.unsafe)
  <2>1. Calm(s)
    BY <1>1 DEF Calm
  <2> QED
    BY <1>1, <1>5, <2>1 DEF Shielded
<1> QED
  BY <1>2, <1>3, <1>4, <1>6, <1>7 DEF Local, s

SameLife(l, m) ==
  /\ m.initialized = l.initialized /\ m.record_fini = l.record_fini /\ m.maps = l.maps

(* unsafe_state at the shutdown.                                           *)
Stays(from, l, m) ==
  \/ m.unsafe
  \/ from \in Shutdown \ {"exitMark"} /\ (MemoryCollect => m.unsafe = l.unsafe)

(* The first frame goes on.                                                *)
LEMMA FirstMoves ==
  ASSUME NEW from, from \notin Upper, NEW to, to \notin Upper,
         NEW l \in Locals, NEW m \in Locals, SameLife(l, m),
         NEW e \in BOOLEAN, NEW h \in BOOLEAN, NEW d \in BOOLEAN, NEW g \in BOOLEAN,
         Local(<<from>>, l, e, h), d => e, h => g,
         to \notin Unborn,
         d /\ to \in Recording \cup {"run", "wait"} => from \in Recording \cup {"run", "wait"},
         to \in Recording \cup Marking =>
           from \in Recording \cup Marking \/ (l.initialized /\ (~l.unsafe \/ ~l.record_fini)),
         to \in Closed => from \in Closed,
         to \in Shutdown \ {"exitMark"} => Stays(from, l, m)
  PROVE  Local(<<to>>, m, d, g)
  BY OneLocal DEF SameLife, Stays
-----------------------------------------------------------------------------
(* The last frame of an interrupted thread changes, returns, or is         *)
(* interrupted.                                                            *)
LEMMA ReplaceFrames ==
  ASSUME NEW s \in Seq(Frames), Len(s) > 0, NEW to \in Frames
  PROVE  LET r == [s EXCEPT ![Len(s)] = to] IN
         /\ r \in Seq(Frames) /\ Len(r) = Len(s) /\ r[Len(s)] = to
         /\ \A i \in 1 .. Len(s) : i # Len(s) => r[i] = s[i]
         /\ Has(r, to)
         /\ \A f : Has(s, f) /\ f # s[Len(s)] => Has(r, f)
         /\ \A f : Has(r, f) /\ f # to => Has(s, f)
         /\ Calm(s) /\ to # "sampling" => Calm(r)
<1> DEFINE n == Len(s)  r == [s EXCEPT ![n] = to]
<1>1. /\ n \in Nat /\ n > 0 /\ r \in Seq(Frames) /\ Len(r) = n /\ r[n] = to
      /\ \A i \in 1 .. n : i # n => r[i] = s[i]
  OBVIOUS
<1> HIDE DEF r
<1>2. /\ Has(r, to)
      /\ \A f : Has(s, f) /\ f # s[n] => Has(r, f)
      /\ \A f : Has(r, f) /\ f # to => Has(s, f)
  BY <1>1 DEF Has
<1>3. Calm(s) /\ to # "sampling" => Calm(r)
  BY <1>1 DEF Calm
<1> QED
  BY <1>1, <1>2, <1>3 DEF r

LEMMA PopFrames ==
  ASSUME NEW s \in Seq(Frames), Len(s) > 1
  PROVE  LET r == SubSeq(s, 1, Len(s) - 1) IN
         /\ r \in Seq(Frames) /\ Len(r) = Len(s) - 1
         /\ \A i \in 1 .. Len(s) - 1 : r[i] = s[i]
         /\ \A f : Has(s, f) /\ f # s[Len(s)] => Has(r, f)
         /\ \A f : Has(r, f) => Has(s, f)
         /\ Calm(s) => Calm(r)
<1> DEFINE n == Len(s)  r == SubSeq(s, 1, n - 1)
<1>1. n \in Nat /\ r \in Seq(Frames) /\ Len(r) = n - 1 /\ \A i \in 1 .. n - 1 : r[i] = s[i]
  OBVIOUS
<1> HIDE DEF r
<1>2. Calm(s) => Calm(r)
  BY <1>1 DEF Calm
<1> QED
  BY <1>1, <1>2 DEF Has, r

LEMMA PushFrames ==
  ASSUME NEW s \in Seq(Frames), NEW f \in Frames
  PROVE  LET r == Append(s, f) IN
         /\ r \in Seq(Frames) /\ Len(r) = Len(s) + 1 /\ r[Len(s) + 1] = f
         /\ \A i \in 1 .. Len(s) : r[i] = s[i]
         /\ Has(r, f)
         /\ \A g : Has(s, g) => Has(r, g)
         /\ \A g : Has(r, g) /\ g # f => Has(s, g)
         /\ Calm(s) /\ (f = "sampling" => Len(s) > 0 /\ s[Len(s)] \notin Unguarded) => Calm(r)
<1> DEFINE n == Len(s)  r == Append(s, f)
<1>1. /\ n \in Nat /\ r \in Seq(Frames) /\ Len(r) = n + 1 /\ r[n + 1] = f
      /\ \A i \in 1 .. n : r[i] = s[i]
  OBVIOUS
<1> HIDE DEF r
<1>2. /\ Has(r, f)
      /\ \A g : Has(s, g) => Has(r, g)
      /\ \A g : Has(r, g) /\ g # f => Has(s, g)
  BY <1>1 DEF Has
<1>3. Calm(s) /\ (f = "sampling" => n > 0 /\ s[n] \notin Unguarded) => Calm(r)
  <2> SUFFICES ASSUME Calm(s), f = "sampling" => n > 0 /\ s[n] \notin Unguarded,
                      NEW i \in 2 .. n + 1, r[i] = "sampling"
               PROVE  r[i - 1] \notin Unguarded
    BY <1>1 DEF Calm
  <2>1. i - 1 \in 1 .. n /\ r[i - 1] = s[i - 1]
    BY <1>1
  <2>2. CASE i = n + 1
    BY <1>1, <2>1, <2>2
  <2>3. CASE i # n + 1
    <3>1. i \in 2 .. n /\ s[i] = "sampling"
      BY <1>1, <2>3
    <3> QED
      BY <2>1, <3>1 DEF Calm
  <2> QED
    BY <2>2, <2>3
<1> QED
  BY <1>1, <1>2, <1>3 DEF r

LEMMA FiniNames ==
  /\ Finalise = {"fini", "finiSet", "finiSampler", "finiFree", "finiEnd"}
  /\ Upper = {"fini", "finiSet", "finiSampler", "finiFree", "finiEnd", "sampling"}
  /\ \A f \in Finalise : f \notin Recording \cup Marking \cup Closed \cup Program
  BY DEF Finalise, Upper, Recording, Marking, Closed, Program

(* jsi_thread_finalize goes on: there is nothing left to do, or the        *)
(* sections are still open.                                                *)
LEMMA FiniTested ==
  ASSUME NEW s \in Seq(Frames), Len(s) > 1, s[Len(s)] = "fini",
         NEW l \in Locals, NEW e \in BOOLEAN, NEW h \in BOOLEAN, Local(s, l, e, h),
         l.initialized, NEW to \in Frames,
         \/ to = "finiEnd" /\ l.record_fini
         \/ to = "finiSet" /\ ~l.record_fini
  PROVE  Local([s EXCEPT ![Len(s)] = to], l, e, h)
<1> DEFINE n == Len(s)  r == [s EXCEPT ![n] = to]
<1>1. /\ s \in Seq(Frames) /\ n \in Nat /\ n > 1 /\ to \in Frames /\ to \in Finalise
      /\ s[n] = "fini" /\ to # "sampling" /\ n > 0
  BY FiniNames
<1>0. /\ Len(r) = n /\ r[n] = to /\ \A i \in 1 .. n : i # n => r[i] = s[i]
      /\ Has(r, to)
      /\ \A f : Has(s, f) /\ f # s[n] => Has(r, f)
      /\ \A f : Has(r, f) /\ f # to => Has(s, f)
      /\ Calm(s) => Calm(r)
  BY <1>1, ReplaceFrames
<1> HIDE DEF r
<1>2. /\ Len(r) = n /\ r[n] = to /\ \A i \in 1 .. n : i # n => r[i] = s[i]
      /\ Has(r, to)
      /\ Freeing(s) <=> Freeing(r)
      /\ Has(r, "finiEnd") /\ to # "finiEnd" => Has(s, "finiEnd")
      /\ Calm(s) => Calm(r)
  BY <1>0, <1>1 DEF Freeing
<1>3. r[1] = s[1]
  BY <1>1, <1>2
<1>4. e => Early(r, l)
  BY <1>1, <1>2, <1>3, FiniNames DEF Local, Early
<1>5. ~h => Alone(r, l)
  <2> SUFFICES ASSUME ~h PROVE Alone(r, l)
    OBVIOUS
  <2>1. Alone(s, l)
    BY DEF Local
  <2>2. n = 2 /\ ~l.record_fini /\ to = "finiSet"
    <3>1. n \in 1 .. Len(s) /\ s[n] \in Finalise
      BY <1>1, FiniNames
    <3>2. n = 2
      BY <2>1, <3>1 DEF Alone
    <3> QED
      BY <1>1, <2>1, <3>1, <3>2 DEF Alone
  <2>3. r[2] = "finiSet" /\ Len(r) = 2 /\ 1 .. Len(r) = {1, 2}
    BY <1>2, <2>2
  <2> QED
    BY <1>1, <1>2, <1>3, <2>1, <2>2, <2>3, FiniNames DEF Alone
<1>6. Unstarted(r, l)
  BY <1>3 DEF Local, Unstarted
<1>7. Closing(r, l)
  BY <1>2, <1>3 DEF Local, Closing
<1>8. Shielded(r, l)
  BY <1>2, <1>3 DEF Local, Shielded
<1> QED
  BY <1>4, <1>5, <1>6, <1>7, <1>8 DEF Local, r

(* record_fini is set.                                                     *)
LEMMA FiniMarked ==
  ASSUME NEW s \in Seq(Frames), Len(s) > 1, s[Len(s)] = "finiSet",
         NEW l \in Locals, NEW e \in BOOLEAN, NEW h \in BOOLEAN, Local(s, l, e, h),
         NEW m \in Locals, m.initialized = l.initialized, m.maps = l.maps,
         m.record_fini, m.unsafe
  PROVE  Local([s EXCEPT ![Len(s)] = "finiSampler"], m, e, h)
<1> DEFINE n == Len(s)  r == [s EXCEPT ![n] = "finiSampler"]
<1>1. /\ s \in Seq(Frames) /\ n \in Nat /\ n > 1 /\ "finiSampler" \in Frames /\ s[n] = "finiSet"
  BY FrameKinds, FiniNames
<1>0. /\ Len(r) = n /\ r[n] = "finiSampler" /\ \A i \in 1 .. n : i # n => r[i] = s[i]
      /\ Has(r, "finiSampler") /\ (Calm(s) => Calm(r))
  BY <1>1, ReplaceFrames
<1> HIDE DEF r
<1>2. /\ Len(r) = n /\ r[n] = "finiSampler" /\ \A i \in 1 .. n : i # n => r[i] = s[i]
      /\ Freeing(r) /\ (Calm(s) => Calm(r))
  BY <1>0 DEF Freeing
<1>3. r[1] = s[1]
  BY <1>1, <1>2
<1>4. e => Early(r, m)
  <2> SUFFICES ASSUME e PROVE Early(r, m)
    OBVIOUS
  <2>1. n \in 1 .. Len(s) /\ s[n] \in Finalise /\ Early(s, l)
    BY <1>1, FiniNames DEF Local
  <2>2. s[1] = "erase"
    BY <2>1 DEF Early
  <2> QED
    BY <1>3, <2>2 DEF Early, Recording
<1>5. ~h => Alone(r, m)
  <2> SUFFICES ASSUME ~h PROVE Alone(r, m)
    OBVIOUS
  <2>1. Alone(s, l)
    BY DEF Local
  <2>2. n = 2 /\ l.maps = "live"
    <3>1. n \in 1 .. Len(s) /\ s[n] \in Finalise
      BY <1>1, FiniNames
    <3>2. n = 2
      BY <2>1, <3>1 DEF Alone
    <3> QED
      BY <1>1, <2>1, <3>1, <3>2 DEF Alone
  <2>3. r[2] = "finiSampler" /\ Len(r) = 2 /\ 1 .. Len(r) = {1, 2}
    BY <1>2, <2>2
  <2> QED
    BY <1>1, <1>2, <1>3, <2>1, <2>2, <2>3, FiniNames DEF Alone
<1>6. s[1] \notin Unborn
  BY <1>1, FiniNames DEF Local, Unstarted
<1>7. Unstarted(r, m) /\ Closing(r, m) /\ Shielded(r, m)
  BY <1>2, <1>3, <1>6 DEF Unstarted, Closing, Shielded, Local
<1> QED
  BY <1>4, <1>5, <1>7 DEF Local, r

(* The sampler is deleted.                                                 *)
LEMMA FiniIgnored ==
  ASSUME NEW s \in Seq(Frames), Len(s) > 1, s[Len(s)] = "finiSampler",
         NEW l \in Locals, NEW e \in BOOLEAN, NEW h \in BOOLEAN, Local(s, l, e, h),
         NEW m \in Locals, SameLife(l, m), MemoryCollect => m.unsafe = l.unsafe
  PROVE  Local([s EXCEPT ![Len(s)] = "finiFree"], m, e, h)
<1> DEFINE n == Len(s)  r == [s EXCEPT ![n] = "finiFree"]
<1>1. /\ s \in Seq(Frames) /\ n \in Nat /\ n > 1 /\ "finiFree" \in Frames
      /\ s[n] = "finiSampler"
  BY FrameKinds, FiniNames
<1>2. /\ Len(r) = n /\ r[n] = "finiFree" /\ \A i \in 1 .. n : i # n => r[i] = s[i]
      /\ Freeing(r) /\ (Calm(s) => Calm(r))
  BY <1>1, ReplaceFrames DEF Freeing
<1>3. Freeing(s)
  BY <1>1 DEF Freeing, Has
<1> HIDE DEF r
<1>4. r[1] = s[1]
  BY <1>1, <1>2
<1>5. e => Early(r, m)
  <2> SUFFICES ASSUME e PROVE Early(r, m)
    OBVIOUS
  <2>1. n \in 1 .. Len(s) /\ s[n] \in Finalise /\ Early(s, l)
    BY <1>1, FiniNames DEF Local
  <2>2. s[1] = "erase"
    BY <2>1 DEF Early
  <2> QED
    BY <1>4, <2>2 DEF Early, Recording
<1>6. ~h => Alone(r, m)
  <2> SUFFICES ASSUME ~h PROVE Alone(r, m)
    OBVIOUS
  <2>1. Alone(s, l)
    BY DEF Local
  <2>2. n = 2
    <3>1. n \in 1 .. Len(s) /\ s[n] \in Finalise
      BY <1>1, FiniNames
    <3> QED
      BY <2>1, <3>1 DEF Alone
  <2>3. r[2] = "finiFree" /\ Len(r) = 2 /\ 1 .. Len(r) = {1, 2}
    BY <1>2, <2>2
  <2>4. l.maps = "live" /\ l.record_fini /\ (MemoryCollect /\ l.initialized => l.unsafe)
    BY <1>1, <2>1, <2>2 DEF Alone
  <2> QED
    BY <1>1, <1>2, <1>4, <2>1, <2>2, <2>3, <2>4, FiniNames DEF Alone, SameLife
<1>7. s[1] \notin Unborn
  BY <1>1, FiniNames DEF Local, Unstarted
<1>8. Unstarted(r, m) /\ Closing(r, m) /\ Shielded(r, m)
  BY <1>2, <1>3, <1>4, <1>7 DEF Unstarted, Closing, Shielded, Local, SameLife
<1> QED
  BY <1>5, <1>6, <1>8 DEF Local, r

(* The maps are deleted.                                                   *)
LEMMA FiniFreed ==
  ASSUME NEW s \in Seq(Frames), Len(s) > 1, s[Len(s)] = "finiFree",
         NEW l \in Locals, NEW e \in BOOLEAN, NEW h \in BOOLEAN, Local(s, l, e, h),
         NEW m \in Locals, m.initialized = l.initialized, m.maps = "freed",
         m.record_fini = l.record_fini, MemoryCollect => m.unsafe = l.unsafe
  PROVE  Local([s EXCEPT ![Len(s)] = "finiEnd"], m, e, h)
<1> DEFINE n == Len(s)  r == [s EXCEPT ![n] = "finiEnd"]
<1>1. /\ s \in Seq(Frames) /\ n \in Nat /\ n > 1 /\ "finiEnd" \in Frames /\ s[n] = "finiFree"
  BY FrameKinds, FiniNames
<1>2. /\ Len(r) = n /\ r[n] = "finiEnd" /\ \A i \in 1 .. n : i # n => r[i] = s[i]
      /\ Freeing(s) /\ (Calm(s) => Calm(r))
  BY <1>1, ReplaceFrames DEF Freeing, Has
<1> HIDE DEF r
<1>3. r[1] = s[1]
  BY <1>1, <1>2
<1>4. e => Early(r, m)
  <2> SUFFICES ASSUME e PROVE Early(r, m)
    OBVIOUS
  <2>1. n \in 1 .. Len(s) /\ s[n] \in Finalise /\ Early(s, l)
    BY <1>1, FiniNames DEF Local
  <2>2. s[1] = "erase"
    BY <2>1 DEF Early
  <2> QED
    BY <1>3, <2>2 DEF Early, Recording
<1>5. ~h => Alone(r, m)
  <2> SUFFICES ASSUME ~h PROVE Alone(r, m)
    OBVIOUS
  <2>1. Alone(s, l)
    BY DEF Local
  <2>2. n = 2 /\ l.record_fini /\ s[1] \in Program \cup {"erase", "exitBackend"}
    <3>1. n \in 1 .. Len(s) /\ s[n] \in Finalise
      BY <1>1, FiniNames
    <3>2. n = 2
      BY <2>1, <3>1 DEF Alone
    <3> QED
      BY <1>1, <2>1, <3>1, <3>2 DEF Alone
  <2>3. r[2] = "finiEnd" /\ Len(r) = 2 /\ 1 .. Len(r) = {1, 2}
    BY <1>2, <2>2
  <2>4. \A i \in 1 .. 2 : r[i] \notin Recording \cup Marking
    BY <1>3, <2>2, <2>3 DEF Recording, Marking, Program
  <2> QED
    BY <1>1, <1>2, <1>3, <2>1, <2>2, <2>3, <2>4, FiniNames DEF Alone
<1>6. s[1] \notin Unborn
  BY <1>1, FiniNames DEF Local, Unstarted
<1>7. Unstarted(r, m) /\ Closing(r, m) /\ Shielded(r, m)
  BY <1>2, <1>3, <1>6 DEF Unstarted, Closing, Shielded, Local
<1> QED
  BY <1>4, <1>5, <1>7 DEF Local, r

(* A finalisation that finds nothing initialised returns at once; one that *)
(* is complete declares the thread not initialised.                        *)
LEMMA FiniReturns ==
  ASSUME NEW s, NEW b \in BOOLEAN, Guarded(s, b), s[Len(s)] \in {"fini", "finiEnd"},
         NEW l \in Locals, NEW e \in BOOLEAN, NEW h \in BOOLEAN, Local(s, l, e, h),
         s[Len(s)] = "fini" => ~l.initialized,
         NEW m \in Locals, ~m.initialized, m.maps = l.maps, m.record_fini = l.record_fini
  PROVE  Local(SubSeq(s, 1, Len(s) - 1), m, e, h)
<1> DEFINE n == Len(s)  r == SubSeq(s, 1, n - 1)
<1>1. s \in Seq(Frames) /\ n \in Nat /\ n > 1 /\ s[n] \in {"fini", "finiEnd"}
  BY FiniNames DEF Guarded
<1>2. /\ Len(r) = n - 1 /\ \A i \in 1 .. n - 1 : r[i] = s[i]
      /\ \A f : Has(s, f) /\ f # s[n] => Has(r, f)
      /\ \A f : Has(r, f) => Has(s, f)
      /\ Calm(s) => Calm(r)
  BY <1>1, PopFrames
<1> HIDE DEF r
<1>3. r[1] = s[1] /\ Has(s, s[n])
  BY <1>1, <1>2 DEF Has
<1>4. e => Early(r, m)
  <2> SUFFICES ASSUME e PROVE Early(r, m)
    OBVIOUS
  <2>1. n \in 1 .. Len(s) /\ s[n] \in Finalise /\ Early(s, l)
    BY <1>1, FiniNames DEF Local
  <2>2. s[1] = "erase"
    BY <2>1 DEF Early
  <2> QED
    BY <1>3, <2>2 DEF Early, Recording
<1>5. ~h => Alone(r, m)
  <2> SUFFICES ASSUME ~h PROVE Alone(r, m)
    OBVIOUS
  <2>1. Alone(s, l)
    BY DEF Local
  <2>2. n = 2
    <3>1. n \in 1 .. Len(s) /\ s[n] \in Finalise
      BY <1>1, FiniNames
    <3> QED
      BY <2>1, <3>1 DEF Alone
  <2>3. Len(r) = 1 /\ 1 .. Len(r) = {1} /\ s[1] \notin Finalise
    BY <1>2, <2>1, <2>2 DEF Alone
  <2> QED
    BY <1>3, <2>1, <2>2, <2>3 DEF Alone
<1>6. Unstarted(r, m)
  BY <1>1, <1>2, <1>3 DEF Local, Unstarted
<1>7. Closing(r, m)
  <2> SUFFICES ASSUME m.maps = "live" PROVE Freeing(r)
    BY DEF Closing
  <2>1. Freeing(s)
    BY <1>1, <1>3 DEF Local, Closing
  <2> QED
    BY <1>1, <1>2, <2>1 DEF Freeing
<1>8. Shielded(r, m)
  BY <1>2 DEF Local, Shielded
<1> QED
  BY <1>4, <1>5, <1>6, <1>7, <1>8 DEF Local, r

LEMMA SampleReturns ==
  ASSUME NEW s, NEW b \in BOOLEAN, Guarded(s, b), s[Len(s)] = "sampling",
         NEW l \in Locals, NEW e \in BOOLEAN, NEW h \in BOOLEAN, Local(s, l, e, h),
         NEW m \in Locals, SameLife(l, m), m.unsafe = l.unsafe
  PROVE  Local(SubSeq(s, 1, Len(s) - 1), m, e, h)
<1> DEFINE n == Len(s)  r == SubSeq(s, 1, n - 1)
<1>1. s \in Seq(Frames) /\ n \in Nat /\ n > 1 /\ s[n] = "sampling"
  BY FiniNames DEF Guarded
<1>2. /\ Len(r) = n - 1 /\ \A i \in 1 .. n - 1 : r[i] = s[i]
      /\ \A f : Has(s, f) /\ f # s[n] => Has(r, f)
      /\ \A f : Has(r, f) => Has(s, f)
      /\ Calm(s) => Calm(r)
  BY <1>1, PopFrames
<1> HIDE DEF r
<1>3. r[1] = s[1]
  BY <1>1, <1>2
<1>4. e => Early(r, m)
  BY <1>1, <1>2, <1>3 DEF Local, Early, SameLife
<1>5. ~h => Alone(r, m)
  <2> SUFFICES ASSUME ~h PROVE Alone(r, m)
    OBVIOUS
  <2>1. Alone(s, l)
    BY DEF Local
  <2>2. l.initialized /\ l.record_fini => ~MemoryCollect /\ Len(r) > 1
    <3> SUFFICES ASSUME l.initialized, l.record_fini PROVE ~MemoryCollect /\ Len(r) > 1
      OBVIOUS
    <3>1. s[2] \in {"finiSampler", "finiFree", "finiEnd"} /\ (MemoryCollect => n = 2)
      BY <2>1 DEF Alone
    <3>2. n # 2
      BY <1>1, <3>1
    <3> QED
      BY <1>1, <1>2, <3>1, <3>2
  <2>3. Len(r) > 1 => r[2] = s[2]
    BY <1>1, <1>2
  <2>4. \A i \in 1 .. Len(r) : i > 2 => Len(r) > 1
    BY <1>1, <1>2
  <2> QED
    BY <1>1, <1>2, <1>3, <2>1, <2>2, <2>3, <2>4 DEF Alone, SameLife
<1>6. Unstarted(r, m)
  BY <1>1, <1>2, <1>3 DEF Local, Unstarted, SameLife
<1>7. Closing(r, m)
  BY <1>1, <1>2, <1>3 DEF Local, Closing, Freeing, SameLife
<1>8. Shielded(r, m)
  BY <1>2, <1>3 DEF Local, Shielded, Freeing, SameLife
<1> QED
  BY <1>4, <1>5, <1>6, <1>7, <1>8 DEF Local, r

(* The guard lets a sample in: the thread has its maps, or is deleting     *)
(* them.                                                                   *)
LEMMA SampleEnters ==
  ASSUME NEW s, NEW b \in BOOLEAN, Guarded(s, b),
         NEW l \in Locals, NEW e \in BOOLEAN, NEW h \in BOOLEAN, Local(s, l, e, h),
         l.initialized, ~l.unsafe,
         NEW m \in Locals, SameLife(l, m), m.unsafe = l.unsafe
  PROVE  Local(Append(s, "sampling"), m, e, h)
<1> DEFINE n == Len(s)  r == Append(s, "sampling")
<1>1. s \in Seq(Frames) /\ n \in Nat /\ n > 0 /\ "sampling" \in Frames
  BY FrameKinds DEF Guarded
<1>2. /\ Len(r) = n + 1 /\ r[n + 1] = "sampling" /\ \A i \in 1 .. n : r[i] = s[i]
      /\ \A g : Has(s, g) => Has(r, g)
      /\ \A g : Has(r, g) /\ g # "sampling" => Has(s, g)
      /\ Calm(s) /\ s[n] \notin Unguarded => Calm(r)
  BY <1>1, PushFrames
<1> HIDE DEF r
<1>3. r[1] = s[1]
  BY <1>1, <1>2
<1>4. e => Early(r, m)
  BY <1>1, <1>2, <1>3, FiniNames DEF Local, Early, SameLife
<1>5. ~h => Alone(r, m)
  <2> SUFFICES ASSUME ~h PROVE Alone(r, m)
    OBVIOUS
  <2>1. Alone(s, l)
    BY DEF Local
  <2>2. \/ ~l.record_fini /\ l.maps = "live"
        \/ /\ l.record_fini /\ ~MemoryCollect /\ n > 1
           /\ s[2] \in {"finiSampler", "finiFree", "finiEnd"}
           /\ l.maps = "live" \/ s[2] = "finiEnd"
    BY <2>1 DEF Alone
  <2>3. \A i \in 1 .. n + 1 : r[i] \in Finalise => i \in 1 .. n /\ s[i] \in Finalise
    BY <1>1, <1>2, FiniNames
  <2>4. r[2] \in Finalise => n > 1 /\ r[2] = s[2]
    BY <1>1, <1>2, FiniNames
  <2>5. n > 1 => r[2] = s[2]
    BY <1>1, <1>2
  <2>6. \A i \in 1 .. n + 1 : r[i] \in Recording \cup Marking =>
          l.maps = "live" \/ (i > 2 /\ r[2] = "finiEnd" /\ ~MemoryCollect)
    <3> SUFFICES ASSUME NEW i \in 1 .. n + 1, r[i] \in Recording \cup Marking, l.maps # "live"
                 PROVE  i > 2 /\ r[2] = "finiEnd" /\ ~MemoryCollect
      OBVIOUS
    <3>1. r[2] = "finiEnd" /\ ~MemoryCollect /\ n > 1
      BY <2>2, <2>5
    <3>2. i = n + 1 \/ (i \in 1 .. n /\ s[i] \in Recording \cup Marking)
      BY <1>1, <1>2
    <3>3. i \in 1 .. n /\ s[i] \in Recording \cup Marking => i > 2
      BY <2>1 DEF Alone
    <3> QED
      BY <1>1, <3>1, <3>2, <3>3
  <2> QED
    BY <1>1, <1>2, <1>3, <2>1, <2>2, <2>3, <2>4, <2>5, <2>6, FiniNames DEF Alone, SameLife
<1>6. Unstarted(r, m)
  BY <1>3 DEF Local, Unstarted, SameLife
<1>7. Closing(r, m)
  BY <1>2, <1>3 DEF Local, Closing, Freeing, SameLife
<1>8. Shielded(r, m)
  <2> SUFFICES ASSUME MemoryCollect PROVE Shielded(r, m)
    BY DEF Shielded
  <2>1. s[1] \notin Shutdown \ {"exitMark"} /\ ~Freeing(s) /\ Calm(s)
    BY DEF Local, Shielded
  <2>2. s[n] \notin Unguarded
    <3>1. s[n] # "finiFree"
      BY <1>1, <2>1 DEF Freeing, Has
    <3>2. n \in 1 .. Len(s) /\ \A i \in 1 .. Len(s) : s[i] \in Upper <=> i # 1
      BY <1>1 DEF Guarded
    <3>3. n = 1 \/ s[n] \in Upper
      BY <3>2
    <3> QED
      BY <2>1, <3>1, <3>3, FiniNames DEF Unguarded, Shutdown
  <2>3. ~Freeing(r)
    BY <1>2, <2>1 DEF Freeing
  <2> QED
    BY <1>2, <1>3, <2>1, <2>2, <2>3 DEF Shielded
<1> QED
  BY <1>4, <1>5, <1>6, <1>7, <1>8 DEF Local, r

(* The exit signal arrives, after exit: in the tool's code (g), or where   *)
(* nothing has interrupted the program.                                    *)
LEMMA ExitArrives ==
  ASSUME NEW s, NEW b \in BOOLEAN, Guarded(s, b), s[Len(s)] \notin {"new", "dead"},
         NEW l \in Locals, NEW h \in BOOLEAN, Local(s, l, FALSE, h),
         NEW g \in BOOLEAN, g <=> h \/ s[Len(s)] \in Tool
  PROVE  Local(Append(s, "fini"), l, FALSE, g)
<1> DEFINE n == Len(s)  r == Append(s, "fini")
<1>1. s \in Seq(Frames) /\ n \in Nat /\ n > 0 /\ "fini" \in Frames
  BY FrameKinds, FiniNames DEF Guarded
<1>2. /\ Len(r) = n + 1 /\ r[n + 1] = "fini" /\ \A i \in 1 .. n : r[i] = s[i]
      /\ \A f : Has(s, f) => Has(r, f)
      /\ \A f : Has(r, f) /\ f # "fini" => Has(s, f)
      /\ Calm(s) => Calm(r)
  BY <1>1, PushFrames
<1> HIDE DEF r
<1>3. r[1] = s[1]
  BY <1>1, <1>2
<1>4. ~g => Alone(r, l)
  <2> SUFFICES ASSUME ~g PROVE Alone(r, l)
    OBVIOUS
  <2>1. Alone(s, l)
    BY DEF Local
  <2>2. n = 1 /\ s[1] \in Program
    <3>1. /\ n \in 1 .. Len(s) /\ s[n] \in Frames
          /\ \A i \in 1 .. Len(s) : s[i] \in Upper <=> i # 1
      BY <1>1 DEF Guarded
    <3>2. s[n] \in Program /\ s[n] \notin Upper
      BY <3>1 DEF Frames, Upper, Tool, Recording
    <3> QED
      BY <3>1, <3>2
  <2>3. /\ r[1] = s[1] /\ r[2] = "fini" /\ Len(r) = 2 /\ 1 .. Len(r) = {1, 2}
        /\ s[1] \notin Finalise /\ s[1] \notin Recording \cup Marking
    BY <1>2, <1>3, <2>2, FiniNames DEF Program, Recording, Marking
  <2> QED
    BY <2>1, <2>2, <2>3, FiniNames DEF Alone
<1>5. Unstarted(r, l)
  BY <1>1, <1>2, <1>3 DEF Local, Unstarted
<1>6. Closing(r, l)
  BY <1>2, <1>3 DEF Local, Closing, Freeing
<1>7. Shielded(r, l)
  BY <1>2, <1>3 DEF Local, Shielded, Freeing
<1> QED
  BY <1>4, <1>5, <1>6, <1>7 DEF Local, r

(* The first frame calls jsi_thread_finalize and closes the sections.      *)
LEMMA FiniCalled ==
  ASSUME NEW from, from \notin Upper, NEW l \in Locals, NEW e \in BOOLEAN, NEW h \in BOOLEAN,
         Local(<<from>>, l, e, h), NEW next \in {"erase", "exitBackend"},
         e => next = "erase", next = "exitBackend" => from \in Shutdown \ {"exitMark"}
  PROVE  Local(<<next, "fini">>, l, e, h)
<1> DEFINE r == <<next, "fini">>
<1>1. Len(r) = 2 /\ r[1] = next /\ r[2] = "fini" /\ 1 .. Len(r) = {1, 2}
  OBVIOUS
<1> HIDE DEF r
<1>2. next \notin Recording \cup Marking \cup Unborn \cup Finalise \cup {"run", "wait"}
  BY DEF Recording, Marking, Unborn, Finalise
<1>3. e => Early(r, l)
  BY <1>1, <1>2 DEF Early
<1>4. ~h => Alone(r, l)
  <2> SUFFICES ASSUME ~h PROVE Alone(r, l)
    OBVIOUS
  <2>1. /\ l.initialized /\ ~l.record_fini => l.maps = "live"
        /\ ~(l.initialized /\ l.record_fini)
    BY OneLocal
  <2> QED
    BY <1>1, <1>2, <2>1, FiniNames DEF Alone
<1>5. Unstarted(r, l)
  BY <1>1, <1>2 DEF Unstarted
<1>6. Closing(r, l)
  <2>1. l.maps = "live" => l.initialized /\ ~l.record_fini
    BY OneLocal
  <2>2. Has(r, "fini") /\ ~Has(r, "finiEnd")
    BY <1>1 DEF Has
  <2> QED
    BY <1>1, <2>1, <2>2 DEF Closing
<1>7. Shielded(r, l)
  <2>1. ~Freeing(r) /\ Calm(r)
    BY <1>1 DEF Freeing, Has, Calm
  <2>2. MemoryCollect /\ l.initialized /\ next = "exitBackend" => l.unsafe
    BY OneLocal
  <2>3. "erase" \notin Shutdown
    BY DEF Shutdown
  <2> QED
    BY <1>1, <2>1, <2>2, <2>3 DEF Shielded
<1> QED
  BY <1>3, <1>4, <1>5, <1>6, <1>7 DEF Local, r

-----------------------------------------------------------------------------
(* At most two finalisations of a thread at a time, and only one (c) as    *)
(* long as the exit signal may still arrive.                               *)
Deep(s, c) ==
  /\ \A i, j, k \in 1 .. Len(s) :
       s[i] \in Finalise /\ s[j] \in Finalise /\ s[k] \in Finalise => i = j \/ j = k \/ i = k
  /\ c => \A i, j \in 1 .. Len(s) : s[i] \in Finalise /\ s[j] \in Finalise => i = j

LEMMA DeepOne ==
  ASSUME NEW f, f \notin Finalise, NEW c
  PROVE  Deep(<<f>>, c) /\ \A g : Deep(<<g, f>>, c) /\ Deep(<<f, g>>, c)
<1>1. /\ Len(<<f>>) = 1 /\ <<f>>[1] = f
      /\ \A g : /\ Len(<<g, f>>) = 2 /\ <<g, f>>[2] = f
                /\ Len(<<f, g>>) = 2 /\ <<f, g>>[1] = f
  OBVIOUS
<1> QED
  BY <1>1 DEF Deep

LEMMA DeepReplace ==
  ASSUME NEW s, NEW b \in BOOLEAN, Guarded(s, b), NEW c, Deep(s, c),
         NEW to \in Frames, s[Len(s)] \in Finalise <=> to \in Finalise
  PROVE  Deep([s EXCEPT ![Len(s)] = to], c)
<1> DEFINE r == [s EXCEPT ![Len(s)] = to]
<1>1. s \in Seq(Frames) /\ Len(s) > 0
  BY DEF Guarded
<1>2. /\ Len(r) = Len(s)
      /\ \A i \in 1 .. Len(s) : r[i] \in Finalise <=> s[i] \in Finalise
  BY <1>1, ReplaceFrames
<1> HIDE DEF r
<1> QED
  BY <1>2 DEF Deep, r

LEMMA DeepPop ==
  ASSUME NEW s, NEW b \in BOOLEAN, Guarded(s, b), Len(s) > 1, NEW c, Deep(s, c)
  PROVE  Deep(SubSeq(s, 1, Len(s) - 1), c)
<1> DEFINE r == SubSeq(s, 1, Len(s) - 1)
<1>1. s \in Seq(Frames) /\ Len(s) \in Nat
  BY DEF Guarded
<1>2. Len(r) = Len(s) - 1 /\ \A i \in 1 .. Len(s) - 1 : r[i] = s[i]
  BY <1>1, PopFrames
<1> HIDE DEF r
<1> QED
  BY <1>1, <1>2 DEF Deep, r

LEMMA DeepPush ==
  ASSUME NEW s, NEW b \in BOOLEAN, Guarded(s, b), NEW c \in BOOLEAN, Deep(s, c),
         NEW f \in Frames, NEW d \in BOOLEAN,
         \/ f \notin Finalise /\ (d => c)
         \/ f \in Finalise /\ c /\ ~d
  PROVE  Deep(Append(s, f), d)
<1> DEFINE r == Append(s, f)  n == Len(s)
<1>1. s \in Seq(Frames) /\ n \in Nat
  BY DEF Guarded
<1>2. Len(r) = n + 1 /\ r[n + 1] = f /\ \A i \in 1 .. n : r[i] = s[i]
  BY <1>1, PushFrames
<1> HIDE DEF r
<1>3. CASE f \notin Finalise /\ (d => c)
  <2>1. \A i \in 1 .. n + 1 : r[i] \in Finalise => i \in 1 .. n /\ s[i] \in Finalise
    BY <1>1, <1>2, <1>3
  <2> QED
    BY <1>2, <1>3, <2>1 DEF Deep, r
<1>4. CASE f \in Finalise /\ c /\ ~d
  <2>1. \A i \in 1 .. n + 1 : r[i] \in Finalise => i = n + 1 \/ (i \in 1 .. n /\ s[i] \in Finalise)
    BY <1>1, <1>2
  <2>2. \A i, j \in 1 .. n : s[i] \in Finalise /\ s[j] \in Finalise => i = j
    BY <1>4 DEF Deep
  <2> QED
    BY <1>2, <1>4, <2>1, <2>2 DEF Deep, r
<1> QED
  BY <1>3, <1>4

(* The same of two frames, and of the second.                              *)
LEMMA PopTwo ==
  ASSUME NEW s \in Seq(Frames), Len(s) = 2
  PROVE  Len(SubSeq(s, 1, Len(s) - 1)) = 1
  OBVIOUS

LEMMA ReplaceTwo ==
  ASSUME NEW s \in Seq(Frames), NEW to \in Frames, Len(s) = 2
  PROVE  LET r == [s EXCEPT ![Len(s)] = to] IN Len(r) = 2 /\ r[2] = to
  OBVIOUS

LEMMA PushSecond ==
  ASSUME NEW s \in Seq(Frames), NEW f \in Frames, NEW S, Len(s) > 0,
         Len(s) > 1 => s[2] \notin S, f \notin S
  PROVE  Append(s, f)[1] = s[1] /\ Append(s, f)[2] \notin S
<1>1. CASE Len(s) = 1
  <2>1. Append(s, f)[1] = s[1] /\ Append(s, f)[1 + 1] = f
    BY <1>1, PushFrames
  <2> QED
    BY <2>1
<1>2. CASE Len(s) > 1
  BY <1>2
<1> QED
  BY <1>1, <1>2

LEMMA BehindThird ==
  ASSUME NEW n \in Nat, n > 2, n # 3
  PROVE  3 \in 1 .. n
  OBVIOUS

(* The first frame, two finalisations and a sample are all there can be.   *)
LEMMA DeepEnough ==
  ASSUME NEW s, NEW b \in BOOLEAN, Guarded(s, b), NEW c, Deep(s, c)
  PROVE  Len(s) \in 1 .. 4
<1>1. s \in Seq(Frames) /\ Len(s) \in Nat /\ Len(s) > 0
  BY DEF Guarded
<1>2. ASSUME Len(s) > 4 PROVE FALSE
  <2>1. \A i \in {2, 3, 4, 5} : i \in 1 .. Len(s) /\ (s[i] \in Finalise \/ s[i] = "sampling")
    BY <1>1, <1>2 DEF Guarded, Upper
  <2>2. \A i, j \in {2, 3, 4, 5} : s[i] = "sampling" /\ s[j] = "sampling" => i = j
    BY <2>1 DEF Guarded, Recording
  <2>3. \A i, j, k \in {2, 3, 4, 5} :
          s[i] \in Finalise /\ s[j] \in Finalise /\ s[k] \in Finalise => i = j \/ j = k \/ i = k
    BY <2>1 DEF Deep
  <2>4. \/ s[2] \in Finalise /\ s[3] \in Finalise /\ s[4] \in Finalise
        \/ s[2] \in Finalise /\ s[3] \in Finalise /\ s[5] \in Finalise
        \/ s[2] \in Finalise /\ s[4] \in Finalise /\ s[5] \in Finalise
        \/ s[3] \in Finalise /\ s[4] \in Finalise /\ s[5] \in Finalise
    BY <2>1, <2>2
  <2> QED
    BY <2>3, <2>4
<1>3. \A n \in Nat : n > 0 /\ ~(n > 4) => n \in 1 .. 4
  OBVIOUS
<1>4. Len(s) \in Nat /\ Len(s) > 0 /\ ~(Len(s) > 4)
  BY <1>1, <1>2
<1> QED
  BY <1>3, <1>4, Zenon

-----------------------------------------------------------------------------
(* The exit signal may still be sent to w: exit has not been called, or    *)
(* the iteration has not passed w.                                         *)
Await(w) ==
  \/ fini = {}
  \/ \E t \in Threads : \/ Base(t) = "exitMark"
                        \/ Base(t) = "exitKill" /\ cursor # End /\ cursor <= w

DepthInv ==
  /\ Deep(stack[Main], TRUE)
  /\ \A w \in Workers : /\ Deep(stack[w], Await(w) \/ "exit" \in pending[w])
                        /\ "exit" \in pending[w] => ~Await(w)

(* The types of what is not the thread's own.                              *)
Globals ==
  /\ child \in [Threads -> Threads]
  /\ reap \in [Workers -> {"joinable", "joining", "joined", "detached"}]
  /\ threads \subseteq Workers /\ lock \in Threads \cup {Free}
  /\ pending \in [Workers -> SUBSET {"sample", "exit"}]
  /\ timer \in BOOLEAN /\ handler \in BOOLEAN /\ ticks \in 0 .. MaxTicks
  /\ cursor \in Threads /\ fini \subseteq {"wrapper", "writer", "backend", "set"}
  /\ fault \in Faults /\ hit \in BOOLEAN /\ odd \subseteq Workers /\ quiet \in BOOLEAN
  /\ known \subseteq Workers /\ made \in 0 .. MaxCreated

(* What the destructors have done when the shutdown is at a frame.         *)
FiniOf(b) ==
  {"wrapper"}
  \cup (IF b \in {"exitMark", "exitKill", "exitJoin"} THEN {} ELSE {"writer"})
  \cup (IF b \in {"exitSet", "exited"} THEN {"backend"} ELSE {})
  \cup (IF b = "exited" THEN {"set"} ELSE {})

(* What the first frames say of the shared state.                          *)
BaseInv ==
  /\ Base(Main) \in Recording \cup Shutdown \cup {"run", "wait"}
  /\ \A t \in Threads : Base(t) \in {"new", "dead", "exited"} => Len(stack[t]) = 1
  /\ \A t \in Threads : Base(t) \in Shutdown => fini = FiniOf(Base(t))
  /\ \A t, u \in Threads : Base(t) \in Shutdown /\ Base(u) \in Shutdown => t = u
  /\ \A t \in Threads : Base(t) \in Creating \cup {"join", "wait"} => child[t] \in Workers
  /\ \A t \in Threads : Base(t) \in Creating => Base(child[t]) # "new"
  /\ lock # Free => Base(lock) \in {"erasing", "inserting"}
  /\ fini = {} => ~hit /\ cursor = End
  /\ MemoryFaultsNeedSignals
  /\ \A t \in Threads : Base(t) = "exited" => fault = "none"

(* The faults of all steps but those of the samples.                       *)
Sound(h) == (fault' \in {"freed", "doubleFree"} => h) /\ fault' # "nested"
USE DEF Sound

(* Who is in the set.                                                      *)
SetInv ==
  /\ \A w \in Workers : Base(w) \notin {"new", "dead", "plain"} =>
       w \in threads \/ \E t \in Threads : child[t] = w /\ Base(t) \in Creating
  /\ \A w \in threads : w \in odd \/ Base(w) \notin {"new", "dead", "plain"}
  /\ fault = "none" =>
       \A w \in Workers : Base(w) = "plain" /\ (Len(stack[w]) > 1 \/ "exit" \in pending[w]) =>
         w \in threads

(* No sample while main deletes its maps, nor after that.                  *)
Unsampled ==
  /\ Base(Main) \in {"exitSet", "exited"} => Len(stack[Main]) = 1
  /\ Len(stack[Main]) > 1 /\ stack[Main][2] \in {"finiFree", "finiEnd"} =>
       Len(stack[Main]) = 2 /\ ~timer

(* Main shuts down alone.                                                  *)
QuietInv ==
  quiet =>
    /\ threads = {} /\ lock = Free /\ ~hit /\ cursor = End /\ QuietExitIsClean
    /\ \A w \in Workers : Base(w) \in {"new", "dead"}
    /\ Base(Main) \in Shutdown
    /\ Unsampled

(* The shutdown has awaited w, or visited all threads.                     *)
Awaited(w) ==
  \/ Base(Main) = "exitJoin" /\ (cursor = End \/ w < cursor)
  \/ Base(Main) \in {"exitStore", "exitFini", "exitBackend", "exitSet", "exited"}

KnownInv ==
  /\ \A w \in known : w \in threads \/ (Base(w) = "dead" /\ tls[w].maps # "live")
  /\ fault = "none" => \A w \in known \cap threads : Awaited(w) => Base(w) = "dead"

KInv ==
  /\ IInv /\ Globals
  /\ LocalInv /\ DepthInv
  /\ BaseInv /\ SetInv /\ QuietInv /\ KnownInv

-----------------------------------------------------------------------------
LEMMA InitKInv == Init => KInv
<1> SUFFICES ASSUME Init PROVE KInv
  OBVIOUS
<1>1. /\ stack[Main] = <<"run">> /\ \A w \in Workers : stack[w] = <<"new">>
      /\ Threads = {Main} \cup Workers /\ Main \notin Workers /\ Main \in Threads
  BY ThreadLifecycleAssumption DEF Init, Threads, Main
<1>2. /\ Base(Main) = "run" /\ \A w \in Workers : Base(w) = "new"
      /\ \A t \in Threads : Len(stack[t]) = 1
  BY <1>1 DEF Base
<1>3. IInv
  BY InitIInv
<1>4. Globals
  <2>1. child \in [Threads -> Threads] /\ cursor \in Threads
    BY <1>1 DEF Init, End, Main
  <2>2. /\ reap \in [Workers -> {"joinable", "joining", "joined", "detached"}]
        /\ pending \in [Workers -> SUBSET {"sample", "exit"}]
    BY DEF Init
  <2>3. timer \in BOOLEAN /\ handler \in BOOLEAN
    BY ThreadLifecycleAssumption, Zenon DEF Init
  <2>4. ticks \in 0 .. MaxTicks /\ made \in 0 .. MaxCreated
    BY ThreadLifecycleAssumption DEF Init
  <2> QED
    BY <2>1, <2>2, <2>3, <2>4 DEF Globals, Init, Faults
<1>5. LocalInv
  <2>1. Fresh \in Locals
    BY DEF Fresh, Locals
  <2>2. \A t \in Threads : tls[t] \in Locals
    BY <1>3 DEF IInv
  <2>3. /\ tls[Main].initialized /\ ~tls[Main].record_fini /\ tls[Main].maps = "live"
        /\ \A w \in Workers : tls[w] = Fresh
    BY <1>1 DEF Init, Fresh
  <2>4. Local(<<"run">>, tls[Main], TRUE, FALSE)
    BY <1>1, <2>2, <2>3, OneLocal, FiniNames
       DEF Recording, Marking, Unborn, Closed, Shutdown
  <2>5. Local(<<"new">>, Fresh, TRUE, FALSE)
    <3>1. ~Fresh.initialized /\ ~Fresh.record_fini /\ Fresh.maps = "none"
      BY DEF Fresh
    <3>2. /\ "new" \notin Upper /\ "new" \notin Recording \cup {"run", "wait"} \cup Marking
          /\ "new" \notin Shutdown
      BY FiniNames DEF Recording, Marking, Shutdown
    <3> HIDE DEF Fresh
    <3> DEFINE l == Fresh  f == "new"
    <3>3. l \in Locals /\ ~l.initialized /\ ~l.record_fini /\ l.maps = "none" /\ f \notin Upper
          /\ f \notin Recording \cup {"run", "wait"} /\ f \notin Recording \cup Marking
          /\ f \notin Shutdown
      BY <2>1, <3>1, <3>2
    <3> HIDE DEF l, f
    <3>4. Local(<<f>>, l, TRUE, FALSE)
      BY <3>3, OneLocal
    <3> QED
      BY <3>4 DEF l, f
  <2>6. fini = {} /\ hit = FALSE
    BY DEF Init
  <2> QED
    BY <1>1, <2>3, <2>4, <2>5, <2>6 DEF LocalInv
<1>6. DepthInv
  <2>1. Deep(<<"run">>, TRUE) /\ Deep(<<"new">>, TRUE)
    BY DeepOne, FiniNames
  <2>2. \A w \in Workers : pending[w] = {}
    BY DEF Init
  <2>3. fini = {}
    BY DEF Init
  <2> QED
    BY <1>1, <2>1, <2>2, <2>3 DEF DepthInv, Await
<1>7. BaseInv
  BY <1>1, <1>2 DEF BaseInv, MemoryFaultsNeedSignals, Init, Recording, Shutdown, Creating
<1>8. SetInv
  BY <1>1, <1>2 DEF SetInv, Init
<1>9. QuietInv /\ KnownInv
  BY DEF QuietInv, KnownInv, Init
<1> QED
  BY <1>3, <1>4, <1>5, <1>6, <1>7, <1>8, <1>9 DEF KInv

-----------------------------------------------------------------------------
(* What a step does to the stacks: the first frame of a thread moves, or   *)
(* what interrupts it does.                                                *)
Others(t) == \A u \in Threads \ {t} : stack'[u] = stack[u]

LEMMA Apart ==
  /\ Main \in Threads /\ Main \notin Workers /\ Workers \subseteq Threads
  /\ Workers \subseteq Nat \ {0} /\ Threads \subseteq Nat
  /\ \A t \in Threads : t # Main => t \in Workers
  BY ThreadLifecycleAssumption DEF Threads, Main

LEMMA TopIsBase ==
  ASSUME IInv, NEW t \in Threads
  PROVE  /\ Len(stack[t]) \in Nat /\ Len(stack[t]) > 0 /\ stack[t] \in Seq(Frames)
         /\ Base(t) \in Frames /\ Base(t) \notin Upper
         /\ Len(stack[t]) = 1 => Top(t) = Base(t) /\ stack[t] = <<Base(t)>>
         /\ Len(stack[t]) > 1 => Top(t) \in Upper
         /\ Top(t) \notin Upper => Len(stack[t]) = 1 /\ Top(t) = Base(t) /\ stack[t] = <<Base(t)>>
         /\ Top(t) \in Upper => Len(stack[t]) > 1
<1> DEFINE s == stack[t]
<1>1. /\ s \in Seq(Frames) /\ Len(s) \in Nat /\ Len(s) > 0
      /\ \A i \in 1 .. Len(s) : s[i] \in Upper <=> i # 1
  BY DEF IInv, Guarded
<1>2. s[1] \in Frames /\ s[1] \notin Upper /\ (Len(s) > 1 => s[Len(s)] \in Upper)
  BY <1>1
<1>3. Len(s) = 1 => s = <<s[1]>>
  BY <1>1
<1>4. Top(t) = s[Len(s)] /\ Base(t) = s[1]
  BY DEF Top, Base
<1>5. Len(s) = 1 \/ Len(s) > 1
  <2>1. \A n \in Nat : n > 0 => n = 1 \/ n > 1
    OBVIOUS
  <2> QED
    BY <1>1, <2>1, Zenon
<1> HIDE DEF s
<1>6. /\ Base(t) \in Frames /\ Base(t) \notin Upper
      /\ Len(s) = 1 => Top(t) = Base(t) /\ s = <<Base(t)>>
      /\ Len(s) > 1 => Top(t) \in Upper
  BY <1>1, <1>2, <1>3, <1>4
<1> QED
  BY <1>1, <1>5, <1>6 DEF s

LEMMA BaseGoto ==
  ASSUME IInv, NEW t \in Threads, NEW from, NEW to, Goto(t, from, to), from \notin Upper
  PROVE  /\ stack[t] = <<from>> /\ Base(t) = from /\ Len(stack[t]) = 1
         /\ stack'[t] = <<to>> /\ stack'[t][1] = to /\ Len(stack'[t]) = 1
         /\ Others(t)
<1>1. Len(stack[t]) = 1 /\ stack[t] = <<from>> /\ Base(t) = from
  BY TopIsBase DEF Goto
<1>2. stack'[t] = [<<from>> EXCEPT ![1] = to] /\ Others(t)
  BY <1>1 DEF Goto, Others, IInv
<1>3. [<<from>> EXCEPT ![1] = to] = <<to>>
  OBVIOUS
<1> QED
  BY <1>1, <1>2, <1>3

LEMMA BaseCall ==
  ASSUME IInv, NEW t \in Threads, NEW from, NEW to \in Frames, NEW f \in Frames,
         Call(t, from, to, f),
         from \notin Upper
  PROVE  /\ stack[t] = <<from>> /\ Base(t) = from /\ Len(stack[t]) = 1
         /\ stack'[t] = <<to, f>> /\ stack'[t][1] = to /\ Len(stack'[t]) = 2
         /\ Others(t)
<1>1. Len(stack[t]) = 1 /\ stack[t] = <<from>> /\ Base(t) = from
  BY TopIsBase DEF Call
<1>2. stack'[t] = Append([<<from>> EXCEPT ![1] = to], f) /\ Others(t)
  BY <1>1 DEF Call, Others, IInv
<1>3. [<<from>> EXCEPT ![1] = to] = <<to>>
  OBVIOUS
<1>4. Append(<<to>>, f) = <<to, f>>
  <2> DEFINE r == Append(<<to>>, f)
  <2>1. r \in Seq(Frames) /\ Len(r) = 2 /\ r[1] = to /\ r[2] = f
    OBVIOUS
  <2> HIDE DEF r
  <2>2. r = <<to, f>>
    BY <2>1
  <2> QED
    BY <2>2 DEF r
<1> QED
  BY <1>1, <1>2, <1>3, <1>4

LEMMA BaseCreate ==
  ASSUME IInv, NEW t \in Threads, NEW w \in Workers, NEW from, NEW to, NEW start,
         RealCreate(t, w, from, to, start), from \notin Upper, from \notin {"new", "dead"}
  PROVE  /\ w # t /\ w \in Threads
         /\ stack[t] = <<from>> /\ Base(t) = from /\ Len(stack[t]) = 1
         /\ stack'[t] = <<to>> /\ stack'[t][1] = to /\ Len(stack'[t]) = 1
         /\ Base(w) \in {"new", "dead"} /\ Len(stack[w]) = 1
         /\ stack'[w] = <<start>> /\ stack'[w][1] = start /\ Len(stack'[w]) = 1
         /\ \A u \in Threads \ {t, w} : stack'[u] = stack[u]
<1>1. w # t /\ w \in Threads /\ Top(w) \in {"new", "dead"} /\ Top(t) = from
  BY Apart DEF RealCreate, Unused
<1>2. Len(stack[t]) = 1 /\ stack[t] = <<from>> /\ Base(t) = from
  BY <1>1, TopIsBase
<1>3. Top(w) = Base(w) /\ Len(stack[w]) = 1
  BY <1>1, TopIsBase DEF Upper, Finalise
<1>4. /\ stack'[t] = [<<from>> EXCEPT ![1] = to] /\ stack'[w] = <<start>>
      /\ \A u \in Threads \ {t, w} : stack'[u] = stack[u]
  BY <1>1, <1>2 DEF RealCreate, IInv
<1>5. [<<from>> EXCEPT ![1] = to] = <<to>>
  OBVIOUS
<1> QED
  BY <1>1, <1>2, <1>3, <1>4, <1>5

(* ... above the first frame.                                              *)
LEMMA UpperGoto ==
  ASSUME IInv, NEW t \in Threads, NEW from \in Upper, NEW to \in Frames, Goto(t, from, to)
  PROVE  /\ stack[t][Len(stack[t])] = from /\ Len(stack[t]) > 1
         /\ stack'[t] = [stack[t] EXCEPT ![Len(stack[t])] = to]
         /\ stack'[t][1] = Base(t) /\ Len(stack'[t]) > 1
         /\ Others(t)
<1>0. Top(t) = from /\ stack[t][Len(stack[t])] = from
  BY DEF Goto, Top
<1>1. /\ stack[t] \in Seq(Frames) /\ Len(stack[t]) \in Nat /\ Len(stack[t]) > 1
      /\ stack[t][Len(stack[t])] = from
  BY <1>0, TopIsBase
<1>2. stack'[t] = [stack[t] EXCEPT ![Len(stack[t])] = to] /\ Others(t)
  BY DEF Goto, Others, IInv
<1>3. LET r == [stack[t] EXCEPT ![Len(stack[t])] = to] IN r[1] = stack[t][1] /\ Len(r) > 1
  BY <1>1
<1> QED
  BY <1>1, <1>2, <1>3 DEF Base

LEMMA UpperPop ==
  ASSUME IInv, NEW t \in Threads, Pop(t), Top(t) \in Upper
  PROVE  /\ stack[t][Len(stack[t])] = Top(t) /\ Len(stack[t]) > 1
         /\ stack'[t] = SubSeq(stack[t], 1, Len(stack[t]) - 1)
         /\ stack'[t][1] = Base(t)
         /\ Others(t)
<1>1. stack[t] \in Seq(Frames) /\ Len(stack[t]) \in Nat /\ Len(stack[t]) > 1
  BY TopIsBase
<1>2. stack'[t] = SubSeq(stack[t], 1, Len(stack[t]) - 1) /\ Others(t)
  BY DEF Pop, Others, IInv
<1>3. SubSeq(stack[t], 1, Len(stack[t]) - 1)[1] = stack[t][1]
  BY <1>1, PopFrames
<1> QED
  BY <1>1, <1>2, <1>3 DEF Base, Top

LEMMA UpperPush ==
  ASSUME IInv, NEW t \in Threads, NEW f \in Frames, Push(t, f)
  PROVE  /\ stack'[t] = Append(stack[t], f)
         /\ stack'[t][1] = Base(t)
         /\ Others(t)
<1>1. stack[t] \in Seq(Frames) /\ Len(stack[t]) \in Nat /\ Len(stack[t]) > 0
  BY TopIsBase
<1>2. stack'[t] = Append(stack[t], f) /\ Others(t)
  BY DEF Push, Others, IInv
<1>3. Append(stack[t], f)[1] = stack[t][1]
  BY <1>1, PushFrames
<1> QED
  BY <1>2, <1>3 DEF Base

LEMMA SoundFaults == ASSUME Sound(hit') PROVE MemoryFaultsNeedSignals'
  BY DEF MemoryFaultsNeedSignals

-----------------------------------------------------------------------------
(* What has to be shown of a step for each part of KInv about the shared   *)
(* state. C holds the threads whose stack or child it changes.             *)
Same(C) ==
  \A u \in Threads \ C : stack'[u] = stack[u] /\ child'[u] = child[u] /\ tls'[u] = tls[u]

Idle == {"new", "dead", "plain"}

(* The new first frame of u, and what it needs.                            *)
BaseFits(u) ==
  LET b == stack'[u][1] IN
  /\ b # "new"
  /\ u = Main => b \in Recording \cup Shutdown \cup {"run", "wait"}
  /\ b \in {"dead", "exited"} => Len(stack'[u]) = 1
  /\ b \in Shutdown => fini' = FiniOf(b) /\ (Base(u) \in Shutdown \/ fini = {})
  /\ b \in Creating \cup {"join", "wait"} => child'[u] \in Workers
  /\ b \in Creating => stack'[child'[u]][1] # "new"
  /\ b = "exited" => fault' = "none"

LEMMA BaseKeeps ==
  ASSUME Globals, Globals', BaseInv, NEW C \in SUBSET Threads, Same(C),
         \A u \in C : BaseFits(u),
         \A u, v \in C : stack'[u][1] \in Shutdown /\ stack'[v][1] \in Shutdown => u = v,
         fini' = fini \/ fini = {} \/ \E u \in C : Base(u) \in Shutdown,
         \/ lock' = Free
         \/ lock' \in C /\ stack'[lock'][1] \in {"erasing", "inserting"}
         \/ lock' = lock /\ lock \notin C,
         fini' = {} => fini = {} /\ ~hit' /\ cursor' = cursor,
         MemoryFaultsNeedSignals',
         \A u \in Threads : Base(u) # "exited"
  PROVE  BaseInv'
<1> USE Apart
<1>1. \A u \in Threads \ C : stack'[u] = stack[u] /\ child'[u] = child[u]
  BY DEF Same
<1>2. (Base(Main) \in Recording \cup Shutdown \cup {"run", "wait"})'
  BY <1>1 DEF BaseInv, Base, BaseFits
<1>3. (\A t \in Threads : Base(t) \in {"new", "dead", "exited"} => Len(stack[t]) = 1)'
  BY <1>1 DEF BaseInv, Base, BaseFits
<1>4. (\A t \in Threads : Base(t) \in Shutdown => fini = FiniOf(Base(t)))'
  <2> SUFFICES ASSUME NEW t \in Threads, stack'[t][1] \in Shutdown
               PROVE  fini' = FiniOf(stack'[t][1])
    BY DEF Base
  <2>1. CASE t \in C
    BY <2>1 DEF BaseFits
  <2>2. CASE t \notin C
    <3>1. Base(t) \in Shutdown /\ fini = FiniOf(Base(t)) /\ stack'[t][1] = Base(t)
      BY <1>1, <2>2 DEF BaseInv, Base
    <3>2. fini # {}
      BY <3>1 DEF FiniOf
    <3>3. \A u \in C : Base(u) \notin Shutdown
      BY <2>2, <3>1 DEF BaseInv
    <3> QED
      BY <3>1, <3>2, <3>3
  <2> QED
    BY <2>1, <2>2
<1>5. (\A t, u \in Threads : Base(t) \in Shutdown /\ Base(u) \in Shutdown => t = u)'
  <2> SUFFICES ASSUME NEW t \in Threads, NEW u \in Threads,
                      stack'[t][1] \in Shutdown, stack'[u][1] \in Shutdown
               PROVE  t = u
    BY DEF Base
  <2>1. \A x \in Threads : stack'[x][1] \in Shutdown =>
          Base(x) \in Shutdown \/ (x \in C /\ fini = {})
    BY <1>1 DEF BaseFits, Base
  <2>2. \A x \in Threads : Base(x) \in Shutdown => fini # {}
    BY DEF BaseInv, FiniOf
  <2> QED
    BY <2>1, <2>2 DEF BaseInv
<1>6. (\A t \in Threads : Base(t) \in Creating \cup {"join", "wait"} => child[t] \in Workers)'
  BY <1>1 DEF BaseInv, Base, BaseFits
<1>7. (\A t \in Threads : Base(t) \in Creating => Base(child[t]) # "new")'
  <2> SUFFICES ASSUME NEW t \in Threads, stack'[t][1] \in Creating
               PROVE  stack'[child'[t]][1] # "new"
    BY DEF Base
  <2>1. CASE t \in C
    BY <2>1 DEF BaseFits
  <2>2. CASE t \notin C
    <3>1. Base(t) \in Creating /\ child'[t] = child[t]
      BY <1>1, <2>2 DEF Base
    <3>2. child[t] \in Threads /\ Base(child[t]) # "new"
      BY <3>1 DEF BaseInv, Globals
    <3>3. stack'[child[t]][1] # "new"
      <4>1. CASE child[t] \in C
        BY <4>1 DEF BaseFits
      <4>2. CASE child[t] \notin C
        BY <1>1, <3>2, <4>2 DEF Base
      <4> QED
        BY <4>1, <4>2
    <3> QED
      BY <3>1, <3>3
  <2> QED
    BY <2>1, <2>2
<1>8. (lock # Free => Base(lock) \in {"erasing", "inserting"})'
  <2> SUFFICES ASSUME lock' # Free PROVE stack'[lock'][1] \in {"erasing", "inserting"}
    BY DEF Base
  <2>1. CASE lock' = lock /\ lock \notin C
    BY <1>1, <2>1 DEF BaseInv, Base, Globals
  <2> QED
    BY <2>1
<1>9. (fini = {} => ~hit /\ cursor = End)'
  BY DEF BaseInv, End
<1>10. (\A t \in Threads : Base(t) = "exited" => fault = "none")'
  BY <1>1 DEF BaseFits, Base
<1> QED
  BY <1>2, <1>3, <1>4, <1>5, <1>6, <1>7, <1>8, <1>9, <1>10 DEF BaseInv

LEMMA SetKeeps ==
  ASSUME Globals, SetInv, fault = "none", NEW C \in SUBSET Threads, Same(C),
         \A u \in C : stack'[u][1] \notin Idle =>
           \/ Base(u) \notin Idle
           \/ u \in threads' \/ \E t \in Threads : child'[t] = u /\ stack'[t][1] \in Creating,
         \A w \in threads : w \in threads' \/ stack'[w][1] \in Idle \ {"plain"},
         \A u \in C : Base(u) \in Creating =>
           child[u] \in threads' \/ (child'[u] = child[u] /\ stack'[u][1] \in Creating),
         \A w \in threads' :
           \/ w \in odd' \/ stack'[w][1] \notin Idle
           \/ w \in threads /\ w \notin C /\ (w \in odd => w \in odd'),
         \A w \in Workers \ threads' :
           /\ fault' = "none" /\ stack'[w][1] = "plain"
           /\ Len(stack'[w]) > 1 \/ "exit" \in pending'[w]
           => Base(w) = "plain" /\ (Len(stack[w]) > 1 \/ "exit" \in pending[w])
  PROVE  SetInv'
<1> USE Apart
<1>1. \A u \in Threads \ C : stack'[u] = stack[u] /\ child'[u] = child[u]
  BY DEF Same
<1>2. (\A w \in Workers : Base(w) \notin Idle =>
         w \in threads \/ \E t \in Threads : child[t] = w /\ Base(t) \in Creating)'
  <2> SUFFICES ASSUME NEW w \in Workers, stack'[w][1] \notin Idle, w \notin threads'
               PROVE  \E t \in Threads : child'[t] = w /\ stack'[t][1] \in Creating
    BY DEF Base
  <2>1. CASE Base(w) \notin Idle
    <3>1. w \notin threads
      OBVIOUS
    <3>2. PICK t \in Threads : child[t] = w /\ Base(t) \in Creating
      BY <2>1, <3>1 DEF SetInv, Idle
    <3>3. child'[t] = w /\ stack'[t][1] \in Creating
      BY <1>1, <3>2 DEF Base
    <3> QED
      BY <3>3
  <2>2. CASE Base(w) \in Idle
    BY <1>1, <2>2 DEF Base
  <2> QED
    BY <2>1, <2>2
<1>3. (\A w \in threads : w \in odd \/ Base(w) \notin Idle)'
  <2> SUFFICES ASSUME NEW w \in threads', w \notin odd', stack'[w][1] \in Idle PROVE FALSE
    BY DEF Base
  <2>1. w \in threads /\ w \notin C /\ w \notin odd
    OBVIOUS
  <2>2. w \in Threads /\ Base(w) \in Idle
    BY <1>1, <2>1 DEF Base, Globals
  <2> QED
    BY <2>1, <2>2 DEF SetInv, Idle
<1>4. (fault = "none" =>
         \A w \in Workers : Base(w) = "plain" /\ (Len(stack[w]) > 1 \/ "exit" \in pending[w]) =>
           w \in threads)'
  <2> SUFFICES ASSUME fault' = "none", NEW w \in Workers, stack'[w][1] = "plain",
                      Len(stack'[w]) > 1 \/ "exit" \in pending'[w], w \notin threads'
               PROVE  FALSE
    BY DEF Base
  <2>1. Base(w) = "plain" /\ (Len(stack[w]) > 1 \/ "exit" \in pending[w])
    OBVIOUS
  <2>2. w \in threads
    BY <2>1 DEF SetInv
  <2> QED
    BY <2>2
<1> QED
  BY <1>2, <1>3, <1>4 DEF SetInv, Idle

LEMMA KnownKeeps ==
  ASSUME Globals, KnownInv, fault = "none", NEW C \in SUBSET Threads, Same(C),
         known' \subseteq known,
         \A w \in known' \cap threads :
           w \in threads' \/ (stack'[w][1] = "dead" /\ tls'[w].maps # "live"),
         \A w \in known' \cap C : Base(w) = "dead" =>
           stack'[w][1] = "dead" /\ (tls'[w].maps = "live" => tls[w].maps = "live"),
         fault' = "none" =>
           \A w \in known' \cap threads : Awaited(w)' => Awaited(w) \/ stack'[w][1] = "dead"
  PROVE  KnownInv'
<1>1. \A u \in Threads \ C : stack'[u] = stack[u] /\ tls'[u] = tls[u]
  BY DEF Same
<1>2. known \subseteq Threads
  BY Apart DEF Globals
<1>3. \A w \in known' : Base(w) = "dead" =>
        stack'[w][1] = "dead" /\ (tls'[w].maps = "live" => tls[w].maps = "live")
  BY <1>1, <1>2 DEF Base
<1>4. (\A w \in known : w \in threads \/ (Base(w) = "dead" /\ tls[w].maps # "live"))'
  BY <1>3 DEF KnownInv, Base
<1>5. (fault = "none" => \A w \in known \cap threads : Awaited(w) => Base(w) = "dead")'
  <2> SUFFICES ASSUME fault' = "none", NEW w \in known' \cap threads', Awaited(w)'
               PROVE  stack'[w][1] = "dead"
    BY DEF Base
  <2>1. CASE w \in threads
    <3>1. Awaited(w) => Base(w) = "dead"
      BY <2>1 DEF KnownInv
    <3> QED
      BY <1>3, <2>1, <3>1
  <2>2. CASE w \notin threads
    BY <1>3, <2>2 DEF KnownInv
  <2> QED
    BY <2>1, <2>2
<1> QED
  BY <1>4, <1>5 DEF KnownInv

(* The shutdown of main stands still, or main is not at it.                *)
LEMMA AwaitedStays ==
  ASSUME cursor' = cursor,
         stack'[Main][1] = Base(Main) \/ stack'[Main][1] \notin Shutdown
  PROVE  \A w : Awaited(w)' => Awaited(w)
  BY DEF Awaited, Base, Shutdown

LEMMA NoneExited ==
  ASSUME IInv, BaseInv, ~Gone
  PROVE  \A t \in Threads : Base(t) # "exited"
<1> SUFFICES ASSUME NEW t \in Threads, Base(t) = "exited" PROVE FALSE
  OBVIOUS
<1>1. Len(stack[t]) = 1
  BY DEF BaseInv
<1>2. Top(t) = "exited"
  BY <1>1, TopIsBase
<1> QED
  BY <1>2 DEF Gone

LEMMA NotQuiet ==
  ASSUME QuietInv, NEW t \in Threads, Base(t) \notin {"new", "dead"} \cup Shutdown
  PROVE  ~quiet
  BY Apart DEF QuietInv

(* The program goes on, from and to frames that say nothing of the set.    *)
Moves(t) ==
  /\ Others(t) /\ Base(t) \notin Idle \cup Shutdown
  /\ LET b == stack'[t][1] IN
     /\ b \notin Idle \cup Shutdown
     /\ t = Main => b \in Recording \cup {"run", "wait"}
     /\ b \in {"join", "wait"} => child'[t] \in Workers
     /\ b \in Creating <=> Base(t) \in Creating
     /\ b \in Creating => child'[t] = child[t]
     /\ \/ lock' = lock /\ Base(t) \notin {"erasing", "inserting"}
        \/ lock' = t /\ b \in {"erasing", "inserting"}
  /\ \A u \in Threads \ {t} : child'[u] = child[u] /\ tls'[u] = tls[u]
  /\ UNCHANGED <<threads, pending, exiting, history>>

LEMMA MovesKeep ==
  ASSUME KInv, Globals', fault = "none", ~Gone, NEW t \in Threads, Moves(t),
         Sound(hit)
  PROVE  BaseInv' /\ SetInv' /\ QuietInv' /\ KnownInv'
<1> DEFINE b == stack'[t][1]
<1> USE Apart
<1>1. /\ Globals /\ BaseInv /\ SetInv /\ QuietInv /\ KnownInv
      /\ \A u \in Threads : Base(u) # "exited"
  BY NoneExited DEF KInv
<1>2. {t} \in SUBSET Threads /\ Same({t})
  BY DEF Same, Moves, Others
<1>3. UNCHANGED <<threads, pending, cursor, fini, hit, odd, quiet, known>>
  BY DEF Moves, exiting, history
<1>4. BaseInv'
  <2>1. BaseFits(t)
    <3>1. b \in Creating => stack'[child'[t]][1] # "new"
      <4>1. CASE b \in Creating
        <5>1. child'[t] = child[t] /\ child[t] \in Threads /\ Base(child[t]) # "new"
          BY <1>1, <4>1 DEF Moves, BaseInv, Globals
        <5>2. stack'[t][1] # "new"
          BY DEF Moves, Idle
        <5> QED
          BY <5>1, <5>2 DEF Moves, Others, Base
      <4> QED
        BY <4>1
    <3>2. b \in Creating \cup {"join", "wait"} => child'[t] \in Workers
      BY <1>1 DEF Moves, BaseInv
    <3> QED
      BY <3>1, <3>2 DEF BaseFits, Moves, Idle, Shutdown
  <2>2. \/ lock' = t /\ stack'[lock'][1] \in {"erasing", "inserting"}
        \/ lock' = lock /\ lock # t
        \/ lock' = Free
    BY <1>1 DEF Moves, BaseInv
  <2>3. /\ fini' = {} => fini = {} /\ ~hit' /\ cursor' = cursor
        /\ MemoryFaultsNeedSignals'
    BY <1>1, <1>3, SoundFaults DEF BaseInv
  <2>4. \/ lock' = Free
        \/ lock' \in {t} /\ stack'[lock'][1] \in {"erasing", "inserting"}
        \/ lock' = lock /\ lock \notin {t}
    BY <2>2
  <2>5. \A u \in {t} : BaseFits(u)
    BY <2>1
  <2> HIDE DEF b
  <2> QED
    BY <1>1, <1>2, <1>3, <2>3, <2>4, <2>5, BaseKeeps
<1>5. SetInv'
  <2>1. \A u \in {t} : Base(u) \in Creating =>
          child'[u] = child[u] /\ stack'[u][1] \in Creating
    BY DEF Moves
  <2>2. \A w \in Workers : stack'[w][1] = "plain" => w # t /\ stack'[w] = stack[w]
    BY DEF Moves, Others, Idle
  <2> QED
    BY <1>1, <1>2, <1>3, <2>1, <2>2, SetKeeps DEF Moves, Base, Idle
<1>6. QuietInv'
  <2>1. ~quiet
    BY <1>1, NotQuiet DEF Moves, Idle
  <2> QED
    BY <1>3, <2>1 DEF QuietInv
<1>7. KnownInv'
  <2>1. stack'[Main][1] = Base(Main) \/ stack'[Main][1] \notin Shutdown
    BY DEF Moves, Others, Base
  <2>2. \A w : Awaited(w)' => Awaited(w)
    BY <1>3, <2>1, AwaitedStays
  <2>3. Base(t) # "dead"
    BY DEF Moves, Idle
  <2> QED
    BY <1>1, <1>2, <1>3, <2>2, <2>3, KnownKeeps
<1> QED
  BY <1>4, <1>5, <1>6, <1>7

-----------------------------------------------------------------------------
(* What interrupts the program goes on, arrives or returns.                *)
Above(t) ==
  /\ Others(t) /\ stack'[t][1] = Base(t) /\ Base(t) \notin {"new", "dead", "exited"}
  /\ t \in Workers /\ Base(t) = "plain" /\ Len(stack'[t]) > 1 =>
       Len(stack[t]) > 1 \/ "exit" \in pending[t]
  /\ \A u \in Threads \ {t} : tls'[u] = tls[u]
  /\ \A w \in Workers : "exit" \in pending'[w] => "exit" \in pending[w]
  /\ UNCHANGED <<child, threads, lock, exiting, odd, quiet, known>>

LEMMA AboveKeeps ==
  ASSUME KInv, Globals', fault = "none", ~Gone, NEW t \in Threads, Above(t),
         MemoryFaultsNeedSignals',
         fini = {} => ~hit',
         quiet => ~hit' /\ QuietExitIsClean' /\ Unsampled'
  PROVE  BaseInv' /\ SetInv' /\ QuietInv' /\ KnownInv'
<1> USE Apart
<1>1. /\ Globals /\ BaseInv /\ SetInv /\ QuietInv /\ KnownInv
      /\ \A u \in Threads : Base(u) # "exited"
  BY NoneExited DEF KInv
<1>2. {t} \in SUBSET Threads /\ Same({t})
  BY DEF Same, Above, Others
<1>3. UNCHANGED <<child, threads, lock, cursor, fini, odd, quiet, known>>
  BY DEF Above, exiting
<1>4. \A u \in Threads : stack'[u][1] = Base(u)
  BY DEF Above, Others, Base
<1>5. BaseInv'
  <2>1. (\A u \in Threads : Base(u) \in {"new", "dead", "exited"} => Len(stack[u]) = 1)'
    <3>1. ASSUME NEW u \in Threads, stack'[u][1] \in {"new", "dead", "exited"}
          PROVE  Len(stack'[u]) = 1
      <4>1. Base(u) \in {"new", "dead", "exited"} /\ u # t
        BY <1>4, <3>1 DEF Above
      <4>2. stack'[u] = stack[u]
        BY <4>1 DEF Above, Others
      <4> QED
        BY <1>1, <4>1, <4>2 DEF BaseInv
    <3> QED
      BY <3>1 DEF Base
  <2>2. (Base(Main) \in Recording \cup Shutdown \cup {"run", "wait"})'
    BY <1>1, <1>4 DEF BaseInv, Base
  <2>3. (\A u \in Threads : Base(u) \in Shutdown => fini = FiniOf(Base(u)))'
    <3>1. \A u \in Threads : Base(u) \in Shutdown => fini = FiniOf(Base(u))
      BY <1>1 DEF BaseInv
    <3>2. ASSUME NEW u \in Threads, Base(u)' \in Shutdown PROVE fini' = FiniOf(Base(u))'
      <4>1. Base(u)' = Base(u)
        BY <1>4 DEF Base
      <4>2. fini = FiniOf(Base(u))
        BY <3>1, <3>2, <4>1
      <4>3. FiniOf(Base(u))' = FiniOf(Base(u))
        BY <4>1 DEF FiniOf
      <4> QED
        BY <1>3, <4>2, <4>3
    <3> QED
      BY <3>2
  <2>4. (\A u, v \in Threads : Base(u) \in Shutdown /\ Base(v) \in Shutdown => u = v)'
    BY <1>1, <1>4 DEF BaseInv, Base
  <2>5. (\A u \in Threads : Base(u) \in Creating \cup {"join", "wait"} => child[u] \in Workers)'
    BY <1>1, <1>3, <1>4 DEF BaseInv, Base
  <2>6. (\A u \in Threads : Base(u) \in Creating => Base(child[u]) # "new")'
    BY <1>1, <1>3, <1>4 DEF BaseInv, Base
  <2>7. (lock # Free => Base(lock) \in {"erasing", "inserting"})'
    BY <1>1, <1>3, <1>4 DEF BaseInv, Base, Globals
  <2>8. (fini = {} => ~hit /\ cursor = End)'
    BY <1>1, <1>3 DEF BaseInv, End
  <2>9. (\A u \in Threads : Base(u) = "exited" => fault = "none")'
    BY <1>1, <1>4 DEF Base
  <2> QED
    BY <2>1, <2>2, <2>3, <2>4, <2>5, <2>6, <2>7, <2>8, <2>9 DEF BaseInv
<1>6. SetInv'
  <2>1. (\A w \in Workers : Base(w) \notin {"new", "dead", "plain"} =>
           w \in threads \/ \E u \in Threads : child[u] = w /\ Base(u) \in Creating)'
    BY <1>1, <1>3, <1>4 DEF SetInv, Base
  <2>2. (\A w \in threads : w \in odd \/ Base(w) \notin {"new", "dead", "plain"})'
    BY <1>1, <1>3, <1>4 DEF SetInv, Base, Globals
  <2>3. ASSUME NEW w \in Workers, stack'[w][1] = "plain",
               Len(stack'[w]) > 1 \/ "exit" \in pending'[w]
        PROVE  w \in threads
    <3>1. Base(w) = "plain" /\ (Len(stack[w]) > 1 \/ "exit" \in pending[w])
      BY <1>4, <2>3 DEF Above, Others
    <3> QED
      BY <1>1, <3>1 DEF SetInv
  <2> QED
    BY <1>3, <2>1, <2>2, <2>3 DEF SetInv, Base
<1>7. QuietInv'
  BY <1>1, <1>3, <1>4 DEF QuietInv, Base, Free, End
<1>8. KnownInv'
  <2>1. \A w : Awaited(w)' => Awaited(w)
    BY <1>3, <1>4, AwaitedStays
  <2>2. Base(t) # "dead"
    BY DEF Above
  <2> QED
    BY <1>1, <1>2, <1>3, <2>1, <2>2, KnownKeeps
<1> QED
  BY <1>5, <1>6, <1>7, <1>8

-----------------------------------------------------------------------------
(* What has to be shown for the parts about the threads.                   *)
LEMMA LocalStep ==
  ASSUME LocalInv, NEW C \in SUBSET Threads, Same(C), fini' = {} => fini = {}, hit => hit',
         \A u \in C : Local(stack'[u], tls'[u], fini' = {}, hit')
  PROVE  LocalInv'
<1> SUFFICES ASSUME NEW u \in Threads PROVE Local(stack'[u], tls'[u], fini' = {}, hit')
  BY DEF LocalInv
<1>1. CASE u \in C
  BY <1>1
<1>2. CASE u \notin C
  <2>1. Local(stack[u], tls[u], fini = {}, hit) /\ stack'[u] = stack[u] /\ tls'[u] = tls[u]
    BY <1>2 DEF LocalInv, Same
  <2> QED
    BY <2>1 DEF Local
<1> QED
  BY <1>1, <1>2

(* The exit signal that may be sent could be sent before.                  *)
LEMMA AwaitFades ==
  ASSUME fini' = {} => fini = {}, cursor \in Nat, cursor' \in Nat,
         \A u \in Threads : stack'[u][1] = "exitMark" => Base(u) = "exitMark" \/ fini = {},
         \A u \in Threads : stack'[u][1] = "exitKill" /\ cursor' # End =>
           \/ Base(u) = "exitMark" \/ fini = {}
           \/ Base(u) = "exitKill" /\ cursor # End /\ cursor <= cursor'
  PROVE  \A w \in Nat : Await(w)' => Await(w)
<1> SUFFICES ASSUME NEW w \in Nat, Await(w)', fini # {} PROVE Await(w)
  BY DEF Await
<1>1. PICK u \in Threads :
        \/ stack'[u][1] = "exitMark"
        \/ stack'[u][1] = "exitKill" /\ cursor' # End /\ cursor' <= w
  BY DEF Await, Base
<1>2. \/ Base(u) = "exitMark"
      \/ Base(u) = "exitKill" /\ cursor # End /\ cursor <= w
  BY <1>1
<1> QED
  BY <1>2 DEF Await

(* ... by steps of others than the shutdown.                               *)
LEMMA AwaitStays ==
  ASSUME Globals, UNCHANGED exiting,
         \A u \in Threads : stack'[u][1] \in {"exitMark", "exitKill"} => Base(u) = stack'[u][1]
  PROVE  \A w \in Nat : Await(w)' => Await(w)
<1>1. cursor \in Nat /\ cursor' = cursor /\ fini' = fini
  BY Apart DEF Globals, exiting
<1>2. cursor <= cursor'
  BY <1>1
<1> QED
  BY <1>1, <1>2, AwaitFades

LEMMA DepthStep ==
  ASSUME DepthInv, NEW C \in SUBSET Threads, \A u \in Threads \ C : stack'[u] = stack[u],
         \A w \in Workers : Await(w)' => Await(w),
         \A w \in Workers : "exit" \in pending'[w] =>
           "exit" \in pending[w] \/ (Await(w) /\ ~Await(w)'),
         Main \in C => Deep(stack'[Main], TRUE),
         \A w \in C \cap Workers : Deep(stack'[w], Await(w)' \/ "exit" \in pending'[w])
  PROVE  DepthInv'
<1>1. Deep(stack'[Main], TRUE)
  BY Apart DEF DepthInv
<1>2. ASSUME NEW w \in Workers
      PROVE  Deep(stack'[w], Await(w)' \/ "exit" \in pending'[w])
  <2>1. CASE w \in C
    BY <2>1
  <2>2. CASE w \notin C
    <3>1. stack'[w] = stack[w] /\ Deep(stack[w], Await(w) \/ "exit" \in pending[w])
      BY <2>2, Apart DEF DepthInv
    <3>2. Await(w)' \/ "exit" \in pending'[w] => Await(w) \/ "exit" \in pending[w]
      OBVIOUS
    <3> QED
      BY <3>1, <3>2 DEF Deep
  <2> QED
    BY <2>1, <2>2
<1>3. \A w \in Workers : "exit" \in pending'[w] => ~Await(w)'
  BY DEF DepthInv
<1> QED
  BY <1>1, <1>2, <1>3 DEF DepthInv

-----------------------------------------------------------------------------
(* The iteration over the ordered set.                                     *)
Less == {p \in Nat \X Nat : p[1] < p[2]}

LEMMA LeastElement ==
  ASSUME NEW S \in SUBSET Nat, S # {}
  PROVE  \E m \in S : \A n \in S : m <= n
<1>1. IsWellFoundedOn(Less, Nat)
  BY NatLessThanWellFounded DEF OpToRel, Less
<1>2. PICK m \in S : \A n \in S : ~(<<n, m>> \in Less)
  BY <1>1, WFMin
<1>3. ASSUME NEW n \in S PROVE m <= n
  <2>1. <<n, m>> \in Nat \X Nat /\ <<n, m>>[1] = n /\ <<n, m>>[2] = m
    OBVIOUS
  <2>2. ~(n < m)
    BY <1>2, <2>1 DEF Less
  <2> QED
    BY <2>2
<1> QED
  BY <1>3

LEMMA MinOfNaturals ==
  ASSUME NEW S \in SUBSET Nat, S # {}
  PROVE  Min(S) \in S /\ \A n \in S : Min(S) <= n
  BY LeastElement DEF Min

LEMMA NextIsNext ==
  ASSUME Globals, NEW c \in Threads
  PROVE  /\ Next1(c) \in Threads
         /\ Next1(c) # End => Next1(c) \in threads /\ Next1(c) > c
         /\ \A w \in threads : w > c => Next1(c) # End /\ Next1(c) <= w
<1> DEFINE after == {w \in threads : w > c}
<1>1. /\ after \in SUBSET Nat /\ after \subseteq threads /\ threads \subseteq Workers
      /\ End \in Threads /\ End \notin Workers
  BY Apart DEF Globals, End, Main
<1>2. after # {} => Min(after) \in after /\ \A n \in after : Min(after) <= n
  BY <1>1, MinOfNaturals
<1>3. Next1(c) = IF after = {} THEN End ELSE Min(after)
  BY DEF Next1
<1> HIDE DEF after
<1>4. CASE after = {}
  BY <1>1, <1>3, <1>4 DEF after
<1>5. CASE after # {}
  <2>1. Next1(c) \in after /\ \A n \in after : Next1(c) <= n
    BY <1>2, <1>3, <1>5
  <2>2. Next1(c) \in threads /\ Next1(c) > c /\ Next1(c) # End /\ Next1(c) \in Threads
    BY <1>1, <2>1, Apart DEF after
  <2> QED
    BY <2>1, <2>2 DEF after
<1> QED
  BY <1>4, <1>5

-----------------------------------------------------------------------------
(* The types of the shared state.                                          *)
LEMMA CreateGlobals ==
  ASSUME Globals, NEW t \in Threads, NEW w \in Workers, NEW from, NEW to, NEW start,
         RealCreate(t, w, from, to, start),
         UNCHANGED <<set, timer, handler, ticks, exiting, fault, hit, quiet>>
  PROVE  Globals'
<1>1. child' \in [Threads -> Threads] /\ pending' \in [Workers -> SUBSET {"sample", "exit"}]
  BY Apart DEF Globals, RealCreate
<1>2. reap' \in [Workers -> {"joinable", "joining", "joined", "detached"}]
  BY DEF Globals, RealCreate
<1>3. odd' \subseteq Workers /\ known' \subseteq Workers
  BY DEF Globals, RealCreate
<1>4. made' \in 0 .. MaxCreated
  BY ThreadLifecycleAssumption DEF Globals, RealCreate
<1> QED
  BY <1>1, <1>2, <1>3, <1>4 DEF Globals, set, exiting

LEMMA GlobalsStep ==
  ASSUME Globals, IInv, BaseInv, Next
  PROVE  Globals'
<1> USE Apart DEF locals, set, signals, exiting, history, Faults
<1>1. ASSUME NEW t \in Threads, ProgramStep(t) PROVE Globals'
  <2>1. CASE EnterWrapper(t)
    BY <2>1 DEF EnterWrapper, Globals
  <2>2. CASE EnterCreate(t)
    BY <2>2 DEF EnterCreate, Globals
  <2>3. ASSUME NEW w \in Workers, CreateUnguarded(t, w) \/ CreateLate(t, w) \/ Create(t, w)
        PROVE  Globals'
    BY <2>3, CreateGlobals DEF CreateUnguarded, CreateLate, Create
  <2>4. CASE Exit(t)
    <3>1. quiet' \in BOOLEAN
      BY <2>4 DEF Exit
    <3> QED
      BY <2>4, <3>1 DEF Exit, Globals
  <2>5. ASSUME NEW w \in Workers, EnterJoin(t, w) PROVE Globals'
    <3>1. reap' \in [Workers -> {"joinable", "joining", "joined", "detached"}]
      BY <2>5 DEF EnterJoin, Globals
    <3> QED
      BY <2>5, <3>1 DEF EnterJoin, Globals
  <2>6. ASSUME NEW w \in Workers, Detach(t, w) PROVE Globals'
    <3>1. /\ reap' \in [Workers -> {"joinable", "joining", "joined", "detached"}]
          /\ child' \in [Threads -> Threads]
      BY <2>6 DEF Detach, Globals
    <3> QED
      BY <2>6, <3>1 DEF Detach, Globals
  <2> QED
    BY <1>1, <2>1, <2>2, <2>3, <2>4, <2>5, <2>6 DEF ProgramStep, CreateStep
<1>2. ASSUME NEW t \in Threads, FiniStep(t) \/ StoreSample(t) \/ WrapperStep(t) PROVE Globals'
  <2>1. CASE FiniTest(t)
    BY <2>1 DEF FiniTest, Globals
  <2>2. CASE FiniSet(t)
    BY <2>2 DEF FiniSet, Globals
  <2>3. CASE FiniFree(t)
    BY <2>3 DEF FiniFree, Globals
  <2>4. CASE FiniEnd(t)
    BY <2>4 DEF FiniEnd, Globals
  <2>5. CASE Store(t)
    BY <2>5 DEF Store, UseMaps, Globals
  <2>6. CASE StoreCreate(t)
    BY <2>6 DEF StoreCreate, UseMaps, Globals
  <2>7. CASE LockToInsert(t)
    BY <2>7 DEF LockToInsert, Globals
  <2>8. CASE Insert(t)
    <3>1. child[t] \in Workers
      BY <2>8, BaseGoto, FiniNames DEF Insert, BaseInv, Creating
    <3> QED
      BY <2>8, <3>1 DEF Insert, UseSet, Globals
  <2>9. CASE Join(t)
    BY <2>9 DEF Join, Globals
  <2>10. CASE StoreSample(t)
    BY <2>10 DEF StoreSample, UseMaps, Globals
  <2>11. CASE FiniSampler(t)
    BY <2>11 DEF FiniSampler, Globals
  <2> QED
    BY <1>2, <2>1, <2>2, <2>3, <2>4, <2>5, <2>6, <2>7, <2>8, <2>9, <2>10, <2>11
       DEF FiniStep, WrapperStep
<1>3. ASSUME NEW t \in Threads, ExitStep(t) PROVE Globals'
  <2>0. End \in Threads /\ Next1(End) \in Threads /\ Next1(cursor) \in Threads
    BY NextIsNext DEF Globals, End, Main
  <2>1. CASE ExitMark(t)
    BY <2>0, <2>1 DEF ExitMark, UseSet, Globals
  <2>2. CASE ExitKill(t)
    BY <2>0, <2>2 DEF ExitKill, UseSet, Globals
  <2>3. CASE ExitKilled(t)
    BY <2>0, <2>3 DEF ExitKilled, UseSet, Globals
  <2>4. CASE ExitJoin(t)
    BY <2>0, <2>4 DEF ExitJoin, UseSet, Globals
  <2>5. CASE ExitJoined(t)
    BY <2>5 DEF ExitJoined, Globals
  <2>6. CASE ExitStore(t)
    BY <2>6 DEF ExitStore, UseMaps, Globals
  <2>7. CASE ExitFini(t)
    BY <2>7 DEF ExitFini, Globals
  <2>8. CASE ExitBackend(t)
    BY <2>8 DEF ExitBackend, Globals
  <2>9. CASE ExitSet(t)
    BY <2>9 DEF ExitSet, Globals
  <2> QED
    BY <1>3, <2>1, <2>2, <2>3, <2>4, <2>5, <2>6, <2>7, <2>8, <2>9 DEF ExitStep
<1>4. ASSUME NEW w \in Workers,
             ThreadStep(w) \/ Return(w) \/ ExitThread(w) \/ ExitUnrecorded(w)
      PROVE  Globals'
  <2>1. CASE StartThread(w)
    BY <2>1, ThreadLifecycleAssumption DEF StartThread, Globals
  <2>2. CASE ReturnPlain(w)
    BY <2>2 DEF ReturnPlain, Dies, Globals
  <2>3. CASE LockToErase(w)
    BY <2>3 DEF LockToErase, Globals
  <2>4. CASE Erase(w)
    BY <2>4 DEF Erase, Dies, UseSet, Globals
  <2>5. CASE Return(w)
    BY <2>5 DEF Return, Globals
  <2>6. CASE ExitThread(w)
    BY <2>6 DEF ExitThread, Globals
  <2>7. CASE ExitUnrecorded(w)
    BY <2>7 DEF ExitUnrecorded, Dies, Globals
  <2>8. CASE StoreExit(w)
    BY <2>8 DEF StoreExit, Dies, UseMaps, Globals
  <2> QED
    BY <1>4, <2>1, <2>2, <2>3, <2>4, <2>5, <2>6, <2>7, <2>8 DEF ThreadStep
<1>5. CASE Signal
  <2>1. ASSUME NEW t \in Threads, Timer(t) PROVE Globals'
    <3>1. ticks' \in 0 .. MaxTicks
      <4>1. ticks < MaxTicks /\ ticks' = ticks + 1
        BY <2>1 DEF Timer
      <4>2. ticks \in 0 .. MaxTicks /\ MaxTicks \in Nat
        BY ThreadLifecycleAssumption DEF Globals
      <4> QED
        BY <4>1, <4>2
    <3>2. pending' \in [Workers -> SUBSET {"sample", "exit"}]
      BY <2>1 DEF Timer, Globals
    <3> QED
      BY <2>1, <3>1, <3>2 DEF Timer, Globals
  <2>2. ASSUME NEW w \in Workers, DeliverSample(w) PROVE Globals'
    BY <2>2 DEF DeliverSample, Globals
  <2>3. ASSUME NEW w \in Workers, DeliverExit(w) PROVE Globals'
    <3>1. pending' \in [Workers -> SUBSET {"sample", "exit"}] /\ hit' \in BOOLEAN
      BY <2>3 DEF DeliverExit, Globals
    <3> QED
      BY <2>3, <3>1 DEF DeliverExit, Globals
  <2> QED
    BY <1>5, <2>1, <2>2, <2>3 DEF Signal
<1> QED
  BY <1>1, <1>2, <1>3, <1>4, <1>5 DEF Next, ToolStep

-----------------------------------------------------------------------------
(* The steps of the program and of the wrappers. IInv and the types aside, *)
(* KInv consists of the parts below.                                       *)
Parts == LocalInv /\ DepthInv /\ BaseInv /\ SetInv /\ QuietInv /\ KnownInv

Going == KInv /\ Globals' /\ tls' \in [Threads -> Locals] /\ fault = "none" /\ ~Gone

LEMMA ByMoves ==
  ASSUME Going, NEW t \in Threads, Moves(t), Deep(stack'[t], TRUE),
         Local(stack'[t], tls'[t], fini = {}, hit),
         Sound(hit)
  PROVE  Parts'
<1>1. Same({t}) /\ {t} \in SUBSET Threads
  BY DEF Moves, Same, Others
<1>2. UNCHANGED <<threads, pending, cursor, fini, hit>>
  BY DEF Moves, exiting, history
<1>3. LocalInv'
  BY <1>1, <1>2, LocalStep DEF Going, KInv
<1>4. DepthInv'
  <2>1. \A u \in Threads : stack'[u][1] \in {"exitMark", "exitKill"} => Base(u) = stack'[u][1]
    BY DEF Moves, Others, Base, Shutdown
  <2>2. \A w \in Workers : Await(w)' => Await(w)
    BY <1>2, <2>1, AwaitStays, Apart DEF Going, KInv, exiting
  <2>3. \A c : Deep(stack'[t], c)
    BY DEF Deep
  <2> QED
    BY <1>1, <1>2, <2>2, <2>3, DepthStep DEF Going, KInv, Same
<1>5. BaseInv' /\ SetInv' /\ QuietInv' /\ KnownInv'
  BY MovesKeep DEF Going
<1> QED
  BY <1>3, <1>4, <1>5 DEF Parts

(* What the thread knows of itself while nothing interrupts it.            *)
LEMMA Undisturbed ==
  ASSUME KInv, NEW t \in Threads, NEW f, f \notin Upper, Top(t) = f
  PROVE  /\ stack[t] = <<f>> /\ Base(t) = f /\ tls[t] \in Locals
         /\ Local(<<f>>, tls[t], fini = {}, hit)
         /\ fini = {} /\ f \in Recording \cup {"run", "wait"} =>
              tls[t].initialized /\ ~tls[t].record_fini
         /\ ~hit => /\ tls[t].initialized /\ ~tls[t].record_fini => tls[t].maps = "live"
                    /\ ~(tls[t].initialized /\ tls[t].record_fini)
                    /\ f \in Recording \cup Marking => tls[t].maps = "live"
         /\ f \in Unborn => ~tls[t].initialized /\ ~tls[t].record_fini
         /\ tls[t].maps = "live" =>
              tls[t].initialized /\ ~tls[t].record_fini /\ f \notin Closed
<1>1. stack[t] = <<f>> /\ Base(t) = f /\ tls[t] \in Locals /\ hit \in BOOLEAN
  BY TopIsBase DEF KInv, IInv, Globals
<1>2. Local(<<f>>, tls[t], fini = {}, hit)
  BY <1>1 DEF KInv, LocalInv
<1> DEFINE e == fini = {}
<1>3. e \in BOOLEAN /\ Local(<<f>>, tls[t], e, hit)
  BY <1>2
<1> HIDE DEF e
<1>4. /\ e /\ f \in Recording \cup {"run", "wait"} => tls[t].initialized /\ ~tls[t].record_fini
      /\ ~hit => /\ tls[t].initialized /\ ~tls[t].record_fini => tls[t].maps = "live"
                 /\ ~(tls[t].initialized /\ tls[t].record_fini)
                 /\ f \in Recording \cup Marking => tls[t].maps = "live"
      /\ f \in Unborn => ~tls[t].initialized /\ ~tls[t].record_fini
      /\ tls[t].maps = "live" =>
           tls[t].initialized /\ ~tls[t].record_fini /\ f \notin Closed
  BY <1>1, <1>3, OneLocal
<1> QED
  BY <1>1, <1>2, <1>4 DEF e

LEMMA LocalMoves ==
  ASSUME KInv, tls' \in [Threads -> Locals], NEW t \in Threads, NEW from, from \notin Upper,
         Top(t) = from, NEW to, to \notin Upper, SameLife(tls[t], tls'[t]),
         fini' = {} => fini = {}, hit' = hit, to \notin Unborn,
         fini' = {} /\ to \in Recording \cup {"run", "wait"} =>
           from \in Recording \cup {"run", "wait"},
         to \in Recording \cup Marking =>
           \/ from \in Recording \cup Marking
           \/ tls[t].initialized /\ (~tls[t].unsafe \/ ~tls[t].record_fini),
         to \in Closed => from \in Closed,
         to \in Shutdown \ {"exitMark"} => Stays(from, tls[t], tls'[t])
  PROVE  Local(<<to>>, tls'[t], fini' = {}, hit')
<1> DEFINE e == fini = {}  d == fini' = {}  l == tls[t]  m == tls'[t]
<1>1. /\ e \in BOOLEAN /\ d \in BOOLEAN /\ hit \in BOOLEAN /\ l \in Locals /\ m \in Locals
      /\ Local(<<from>>, l, e, hit)
  BY Undisturbed DEF KInv, Globals
<1>2. /\ d => e
      /\ d /\ to \in Recording \cup {"run", "wait"} => from \in Recording \cup {"run", "wait"}
      /\ to \in Recording \cup Marking =>
           from \in Recording \cup Marking \/ (l.initialized /\ (~l.unsafe \/ ~l.record_fini))
      /\ SameLife(l, m) /\ (to \in Shutdown \ {"exitMark"} => Stays(from, l, m))
  OBVIOUS
<1> HIDE DEF e, d, l, m
<1>3. Local(<<to>>, m, d, hit)
  BY <1>1, <1>2, FirstMoves
<1> QED
  BY <1>3 DEF m, d

(* A move that changes nothing the thread knows of itself but in_tool.     *)
PlainMove(t, from, to) ==
  /\ from \notin Upper \cup Idle \cup Shutdown
  /\ to \notin Upper \cup Idle \cup Shutdown \cup {"start"}
  /\ t = Main => to \in Recording \cup {"run", "wait"}
  /\ to \in {"join", "wait"} => child'[t] \in Workers
  /\ to \in Creating <=> from \in Creating
  /\ to \in Creating => child'[t] = child[t]
  /\ \/ lock' = lock /\ from \notin {"erasing", "inserting"}
     \/ lock' = t /\ to \in {"erasing", "inserting"}
  /\ \A u \in Threads \ {t} : child'[u] = child[u] /\ tls'[u] = tls[u]
  /\ UNCHANGED <<threads, pending, exiting, history>>
  /\ SameLife(tls[t], tls'[t])
  /\ to \in Recording \cup {"run", "wait"} => from \in Recording \cup {"run", "wait"}
  /\ to \in Recording => from \in Recording \/ (tls[t].initialized /\ ~tls[t].unsafe)
  /\ to \in Closed => from \in Closed
  /\ Sound(hit)

LEMMA ByPlainMove ==
  ASSUME Going, NEW t \in Threads, NEW from, NEW to, Goto(t, from, to),
         PlainMove(t, from, to)
  PROVE  Parts'
<1>0. Top(t) = from /\ IInv /\ KInv /\ from \notin Upper /\ to \notin Upper
  BY DEF Goto, Going, KInv, PlainMove
<1>1. stack'[t] = <<to>> /\ stack'[t][1] = to /\ Base(t) = from /\ Others(t)
  BY <1>0, BaseGoto
<1>2. Moves(t)
  BY <1>1 DEF Moves, PlainMove
<1>3. Deep(stack'[t], TRUE)
  <2>1. to \notin Finalise
    BY <1>0 DEF Upper
  <2>2. Deep(<<to>>, TRUE)
    BY <2>1, DeepOne
  <2> QED
    BY <1>1, <2>2
<1>4. UNCHANGED <<fini, hit>>
  BY DEF exiting, history, PlainMove
<1>5. /\ to \notin Unborn /\ to \notin Shutdown
      /\ to \in Recording \cup Marking => to \in Recording
  BY DEF Unborn, Idle, Marking, Shutdown, PlainMove
<1>6. Local(<<to>>, tls'[t], fini' = {}, hit')
  BY <1>0, <1>4, <1>5, LocalMoves DEF Going, PlainMove
<1>7. Local(stack'[t], tls'[t], fini = {}, hit)
  BY <1>1, <1>4, <1>6
<1>8. Sound(hit)
  BY DEF PlainMove
<1> QED
  BY <1>2, <1>3, <1>7, <1>8, ByMoves

LEMMA InToolOnly ==
  ASSUME IInv, NEW t \in Threads, Enter(t) \/ Leave(t)
  PROVE  /\ SameLife(tls[t], tls'[t]) /\ tls'[t].unsafe = tls[t].unsafe
         /\ \A u \in Threads \ {t} : tls'[u] = tls[u]
<1>1. tls \in [Threads -> Locals] /\ tls[t] \in Locals
  BY DEF IInv
<1>2. \E b : tls' = [tls EXCEPT ![t].in_tool = b]
  BY DEF Enter, Leave
<1>3. PICK b : tls' = [tls EXCEPT ![t].in_tool = b]
  BY <1>2
<1> QED
  BY <1>1, <1>3 DEF SameLife, Locals

LEMMA SameLocals ==
  ASSUME UNCHANGED tls
  PROVE  \A t : SameLife(tls[t], tls'[t]) /\ tls'[t].unsafe = tls[t].unsafe
  BY DEF SameLife

LEMMA RecordingHasMaps ==
  ASSUME KInv, NEW t \in Threads, NEW f \in Recording \cup Marking, f \notin Upper, Top(t) = f,
         UseMaps(t)
  PROVE  Sound(hit)
<1>1. ~hit => tls[t].maps = "live"
  BY Undisturbed
<1> QED
  BY <1>1 DEF UseMaps

LEMMA EnterWrapperKeeps ==
  ASSUME Going, NEW t \in Threads,
         EnterWrapper(t) \/ EnterCreate(t) \/ (t \in Workers /\ ExitThread(t))
  PROVE  Parts'
<1>1. PICK to \in {"store", "create", "leaving"} :
        /\ to = "leaving" => t # Main
        /\ Goto(t, "run", to) /\ Enter(t) /\ Guard(t)
        /\ UNCHANGED <<child, reap, set, signals, exiting, fault, history>>
  BY Apart DEF EnterWrapper, EnterCreate, ExitThread
<1>2. IInv
  BY DEF Going, KInv
<1>3. /\ SameLife(tls[t], tls'[t]) /\ \A u \in Threads \ {t} : tls'[u] = tls[u]
      /\ tls[t].initialized /\ ~tls[t].unsafe /\ fault = "none"
  BY <1>1, <1>2, InToolOnly DEF Guard, Going
<1>4. PlainMove(t, "run", to)
  BY <1>1, <1>3 DEF PlainMove, Upper, Finalise, Idle, Shutdown, Recording, Closed, Creating,
     set, signals
<1> QED
  BY <1>1, <1>4, ByPlainMove

LEMMA StoreKeeps ==
  ASSUME Going, NEW t \in Threads, Store(t)
  PROVE  Parts'
<1>1. /\ IInv /\ KInv /\ Top(t) = "store" /\ Goto(t, "store", "run") /\ UseMaps(t)
      /\ UNCHANGED <<child, reap, set, signals, exiting, history>>
  BY DEF Going, KInv, Store, Goto
<1>2. SameLife(tls[t], tls'[t]) /\ \A u \in Threads \ {t} : tls'[u] = tls[u]
  BY <1>1, InToolOnly DEF Store
<1>3. Sound(hit)
  BY <1>1, RecordingHasMaps DEF Recording, Upper, Finalise
<1>4. PlainMove(t, "store", "run")
  BY <1>1, <1>2, <1>3 DEF PlainMove, Upper, Finalise, Idle, Shutdown, Recording, Closed, Creating,
     set, signals
<1> QED
  BY <1>1, <1>4, ByPlainMove

LEMMA StoreCreateKeeps ==
  ASSUME Going, NEW t \in Threads, StoreCreate(t)
  PROVE  Parts'
<1>1. /\ IInv /\ KInv /\ Top(t) = "created" /\ Goto(t, "created", "insert") /\ UseMaps(t)
      /\ UNCHANGED <<child, reap, tls, set, signals, exiting, history>>
  BY DEF Going, KInv, StoreCreate, Goto, locals
<1>2. SameLife(tls[t], tls'[t])
  BY <1>1, SameLocals
<1>3. Sound(hit)
  BY <1>1, RecordingHasMaps DEF Recording, Upper, Finalise
<1>4. PlainMove(t, "created", "insert")
  BY <1>1, <1>2, <1>3 DEF PlainMove, Upper, Finalise, Idle, Shutdown, Recording, Closed, Creating,
     set, signals
<1> QED
  BY <1>1, <1>4, ByPlainMove

LEMMA LockKeeps ==
  ASSUME Going, NEW t \in Threads, LockToInsert(t) \/ (LockToErase(t) /\ t \in Workers)
  PROVE  Parts'
<1>1. /\ IInv /\ KInv /\ fault = "none"
      /\ lock' = t /\ UNCHANGED <<child, tls, threads, pending, exiting, fault, history>>
  BY DEF Going, KInv, LockToInsert, LockToErase, locals, signals
<1>2. SameLife(tls[t], tls'[t])
  BY <1>1, SameLocals
<1>3. CASE LockToInsert(t)
  <2>1. PlainMove(t, "insert", "inserting")
    BY <1>1, <1>2 DEF PlainMove, Upper, Finalise, Idle, Shutdown, Recording, Closed, Creating
  <2> QED
    BY <1>3, <2>1, ByPlainMove DEF LockToInsert
<1>4. CASE LockToErase(t) /\ t \in Workers
  <2>1. PlainMove(t, "erase", "erasing")
    BY <1>1, <1>2, <1>4, Apart
       DEF PlainMove, Upper, Finalise, Idle, Shutdown, Recording, Closed, Creating
  <2> QED
    BY <1>4, <2>1, ByPlainMove DEF LockToErase
<1> QED
  BY <1>3, <1>4

LEMMA JoinKeeps ==
  ASSUME Going, NEW t \in Threads, Join(t) \/ \E w \in Workers : EnterJoin(t, w)
  PROVE  Parts'
<1>1. IInv /\ KInv /\ fault = "none"
  BY DEF Going, KInv
<1>2. CASE Join(t)
  <2>1. PICK from \in {"join", "wait"}, to \in {"store", "run"} :
          /\ Goto(t, from, to) /\ (to = "store" => from = "join")
          /\ UNCHANGED tls \/ Leave(t)
    BY <1>2 DEF Join
  <2>2. SameLife(tls[t], tls'[t]) /\ \A u \in Threads \ {t} : tls'[u] = tls[u]
    BY <1>1, <2>1, InToolOnly, SameLocals
  <2>3. \A u \in Threads \ {t} : child'[u] = child[u]
    BY <1>1, <1>2 DEF Join, KInv, Globals
  <2>4. UNCHANGED <<set, signals, exiting, fault, history>>
    BY <1>2 DEF Join
  <2>5. PlainMove(t, from, to)
    BY <1>1, <2>1, <2>2, <2>3, <2>4
       DEF PlainMove, Upper, Finalise, Idle, Shutdown, Recording, Closed, Creating, set, signals
  <2> QED
    BY <2>1, <2>5, ByPlainMove
<1>3. ASSUME NEW w \in Workers, EnterJoin(t, w) PROVE Parts'
  <2>1. PICK to \in {"join", "wait"} :
          Goto(t, "run", to) /\ (to = "join" => Guard(t)) /\ (Enter(t) \/ UNCHANGED tls)
    BY <1>3 DEF EnterJoin
  <2>2. SameLife(tls[t], tls'[t]) /\ \A u \in Threads \ {t} : tls'[u] = tls[u]
    BY <1>1, <2>1, InToolOnly, SameLocals
  <2>3. child' = child /\ child[t] \in Workers /\ UNCHANGED <<set, signals, exiting, fault, history>>
    BY <1>3 DEF EnterJoin, MayReap
  <2>4. to = "join" => tls[t].initialized /\ ~tls[t].unsafe
    BY <2>1 DEF Guard
  <2>5. PlainMove(t, "run", to)
    BY <1>1, <2>1, <2>2, <2>3, <2>4
       DEF PlainMove, Upper, Finalise, Idle, Shutdown, Recording, Closed, Creating, set, signals
  <2> QED
    BY <2>1, <2>5, ByPlainMove
<1> QED
  BY <1>2, <1>3

LEMMA DetachKeeps ==
  ASSUME Going, NEW t \in Threads, NEW w \in Workers, Detach(t, w)
  PROVE  Parts'
<1>1. /\ IInv /\ KInv /\ fault = "none"
      /\ UNCHANGED <<threads, lock, pending, exiting, fault, history>>
      /\ \A u \in Threads \ {t} : child'[u] = child[u]
  BY DEF Going, KInv, Detach, set, signals, Globals
<1>2. CASE Guard(t) /\ Goto(t, "run", "store") /\ Enter(t)
  <2>1. SameLife(tls[t], tls'[t]) /\ \A u \in Threads \ {t} : tls'[u] = tls[u]
    BY <1>1, <1>2, InToolOnly
  <2>2. tls[t].initialized /\ ~tls[t].unsafe
    BY <1>2 DEF Guard
  <2>3. PlainMove(t, "run", "store")
    BY <1>1, <2>1, <2>2
       DEF PlainMove, Upper, Finalise, Idle, Shutdown, Recording, Closed, Creating
  <2> QED
    BY <1>2, <2>3, ByPlainMove
<1>3. CASE Top(t) = "run" /\ UNCHANGED <<stack, tls>>
  <2>1. stack[t] = <<"run">> /\ Base(t) = "run" /\ Local(<<"run">>, tls[t], fini = {}, hit)
    BY <1>1, <1>3, Undisturbed DEF Upper, Finalise
  <2>2. Moves(t)
    BY <1>1, <1>3, <2>1 DEF Moves, Others, Idle, Shutdown, Creating, Recording, Base
  <2>3. Deep(<<"run">>, TRUE)
    BY DeepOne, FiniNames
  <2>4. Deep(stack'[t], TRUE) /\ Local(stack'[t], tls'[t], fini = {}, hit)
    BY <1>3, <2>1, <2>3
  <2> QED
    BY <1>1, <2>2, <2>4, ByMoves
<1> QED
  BY <1>2, <1>3 DEF Detach

LEMMA StartKeeps ==
  ASSUME Going, NEW w \in Workers, StartThread(w)
  PROVE  Parts'
<1> w \in Threads /\ w # Main
  BY Apart
<1>1. /\ IInv /\ KInv /\ fault = "none" /\ Goto(w, "start", "run") /\ Top(w) = "start"
      /\ UNCHANGED <<child, threads, lock, pending, exiting, fault, history>>
  BY DEF Going, KInv, StartThread, set, Goto
<1>2. stack'[w] = <<"run">> /\ stack'[w][1] = "run" /\ Base(w) = "start" /\ Others(w)
  BY <1>1, BaseGoto, FiniNames
<1>3. ~tls[w].record_fini /\ tls[w] \in Locals /\ hit \in BOOLEAN
  BY <1>1, Undisturbed, FiniNames DEF Unborn, KInv, Globals
<1>4. /\ tls'[w].initialized /\ ~tls'[w].record_fini /\ tls'[w].maps = "live"
      /\ tls'[w] \in Locals /\ \A u \in Threads \ {w} : tls'[u] = tls[u]
  BY <1>1, <1>3 DEF StartThread, IInv, Locals, Going
<1>5. Moves(w)
  BY <1>1, <1>2, <1>4 DEF Moves, Idle, Shutdown, Creating, Base
<1>6. Local(<<"run">>, tls'[w], fini = {}, hit)
  <2> DEFINE e == fini = {}
  <2>1. e \in BOOLEAN
    OBVIOUS
  <2> HIDE DEF e
  <2>2. Local(<<"run">>, tls'[w], e, hit)
    BY <1>3, <1>4, <2>1, OneLocal, FiniNames DEF Unborn, Closed, Shutdown
  <2> QED
    BY <2>2 DEF e
<1>7. Deep(<<"run">>, TRUE)
  BY DeepOne, FiniNames
<1> QED
  BY <1>1, <1>2, <1>5, <1>6, <1>7, ByMoves

LEMMA ReturnKeeps ==
  ASSUME Going, NEW w \in Workers, Return(w)
  PROVE  Parts'
<1> w \in Threads /\ w # Main
  BY Apart
<1>1. /\ IInv /\ KInv /\ fault = "none" /\ Call(w, "run", "erase", "fini") /\ Top(w) = "run"
      /\ UNCHANGED <<tls, child, threads, lock, pending, exiting, fault, history>>
  BY DEF Going, KInv, Return, set, Call, locals, signals
<1>2. /\ stack'[w] = <<"erase", "fini">> /\ stack'[w][1] = "erase" /\ Base(w) = "run"
      /\ Others(w)
  <2>1. "run" \notin Upper /\ "erase" \in Frames /\ "fini" \in Frames
    BY FiniNames, FrameKinds
  <2> QED
    BY <1>1, <2>1, BaseCall
<1>3. /\ Local(<<"run">>, tls[w], fini = {}, hit) /\ tls[w] \in Locals /\ hit \in BOOLEAN
  BY <1>1, Undisturbed, FiniNames DEF KInv, Globals
<1>4. Moves(w)
  BY <1>1, <1>2 DEF Moves, Idle, Shutdown, Creating, Base
<1>5. Local(<<"erase", "fini">>, tls[w], fini = {}, hit)
  <2> DEFINE e == fini = {}
  <2>1. e \in BOOLEAN /\ Local(<<"run">>, tls[w], e, hit)
    BY <1>3
  <2> HIDE DEF e
  <2>2. Local(<<"erase", "fini">>, tls[w], e, hit)
    BY <1>3, <2>1, FiniCalled, FiniNames
  <2> QED
    BY <2>2 DEF e
<1>6. Deep(<<"erase", "fini">>, TRUE)
  <2>1. /\ Len(<<"erase", "fini">>) = 2 /\ <<"erase", "fini">>[1] = "erase"
        /\ "erase" \notin Finalise
    BY DEF Finalise
  <2> QED
    BY <2>1 DEF Deep
<1>7. Deep(stack'[w], TRUE) /\ Local(stack'[w], tls'[w], fini = {}, hit)
  BY <1>1, <1>2, <1>5, <1>6
<1> QED
  BY <1>1, <1>4, <1>7, ByMoves

-----------------------------------------------------------------------------
(* A thread ends.                                                          *)
Ends(w, from) ==
  /\ Dies(w, from) /\ UNCHANGED <<tls, child, exiting, hit, quiet, known>>
  /\ Sound(hit)
  /\ lock' = Free \/ (lock' = lock /\ from # "erasing")
  /\ threads' \subseteq threads /\ threads \ {w} \subseteq threads'
  /\ odd \ {w} \subseteq odd'
  /\ w \in threads' => w \in odd'
  /\ w \in threads \ threads' => tls[w].maps # "live"

LEMMA ByEnds ==
  ASSUME Going, NEW w \in Workers, NEW from \in {"plain", "leaving", "run", "erasing"},
         Ends(w, from)
  PROVE  Parts'
<1>1. w \in Threads /\ w # Main
  BY Apart
<1>2. /\ IInv /\ KInv /\ Globals /\ Globals' /\ BaseInv /\ SetInv /\ QuietInv /\ KnownInv
      /\ LocalInv /\ DepthInv /\ fault = "none" /\ tls' \in [Threads -> Locals]
      /\ \A u \in Threads : Base(u) # "exited"
  BY NoneExited DEF Going, KInv
<1>3. /\ UNCHANGED <<tls, child, cursor, fini, hit, quiet, known, exiting>>
      /\ MemoryFaultsNeedSignals'
  BY SoundFaults DEF Ends, exiting
<1>4. Goto(w, from, "dead") /\ Top(w) = from /\ pending' = [pending EXCEPT ![w] = {}]
  BY DEF Ends, Dies, Goto
<1>5. from \notin Upper /\ "dead" \notin Upper \cup Finalise
  BY FiniNames
<1>6. /\ Base(w) = from /\ stack'[w] = <<"dead">> /\ stack'[w][1] = "dead"
      /\ Len(stack'[w]) = 1 /\ Others(w)
  BY <1>1, <1>2, <1>4, <1>5, BaseGoto
<1>7. Same({w}) /\ {w} \in SUBSET Threads
  BY <1>1, <1>3, <1>6 DEF Same, Others
<1>8. \A u \in Workers : "exit" \in pending'[u] => "exit" \in pending[u]
  BY <1>2, <1>4 DEF Globals
<1>9. LocalInv'
  <2>1. SameLife(tls[w], tls'[w])
    BY <1>3, SameLocals
  <2>2. /\ "dead" \notin Unborn \cup Recording \cup Marking \cup Closed \cup {"run", "wait"}
        /\ "dead" \notin Shutdown
    BY DEF Unborn, Recording, Marking, Closed, Shutdown
  <2>3. Local(<<"dead">>, tls'[w], fini' = {}, hit')
    BY <1>1, <1>2, <1>3, <1>4, <1>5, <2>1, <2>2, LocalMoves
  <2>4. \A u \in {w} : Local(stack'[u], tls'[u], fini' = {}, hit')
    BY <1>6, <2>3
  <2> QED
    BY <1>2, <1>3, <1>7, <2>4, LocalStep
<1>10. DepthInv'
  <2>1. \A u \in Threads : stack'[u][1] \in {"exitMark", "exitKill"} => Base(u) = stack'[u][1]
    BY <1>6 DEF Others, Base
  <2>2. \A u \in Workers : Await(u)' => Await(u)
    BY <1>2, <1>3, <2>1, AwaitStays, Apart
  <2>3. \A c : Deep(<<"dead">>, c)
    BY <1>5, DeepOne
  <2>4. \A u \in {w} \cap Workers : Deep(stack'[u], Await(u)' \/ "exit" \in pending'[u])
    BY <1>6, <2>3
  <2> QED
    BY <1>1, <1>2, <1>6, <1>7, <1>8, <2>2, <2>4, DepthStep DEF Others
<1>11. BaseInv'
  <2>1. \A u \in {w} : BaseFits(u)
    BY <1>1, <1>6 DEF BaseFits, Shutdown, Creating
  <2>2. \A u, v \in {w} : stack'[u][1] \in Shutdown /\ stack'[v][1] \in Shutdown => u = v
    OBVIOUS
  <2>3. \/ lock' = Free
        \/ lock' = lock /\ lock \notin {w}
    <3>1. lock = w => from = "erasing" \/ lock = Free
      BY <1>2, <1>6 DEF BaseInv
    <3> QED
      BY <3>1 DEF Ends
  <2>4. fini' = {} => fini = {} /\ ~hit' /\ cursor' = cursor
    BY <1>2, <1>3 DEF BaseInv
  <2> QED
    BY <1>2, <1>3, <1>7, <2>1, <2>2, <2>3, <2>4, BaseKeeps
<1>12. SetInv'
  <2>1. \A u \in {w} : stack'[u][1] \in Idle
    BY <1>6 DEF Idle
  <2>2. \A u \in threads : u \in threads' \/ stack'[u][1] \in Idle \ {"plain"}
    BY <1>6 DEF Ends, Idle
  <2>3. \A u \in {w} : Base(u) \notin Creating
    BY <1>6 DEF Creating
  <2>4. \A u \in threads' :
          \/ u \in odd' \/ stack'[u][1] \notin Idle
          \/ u \in threads /\ u \notin {w} /\ (u \in odd => u \in odd')
    BY DEF Ends
  <2>5. \A u \in Workers \ threads' :
          /\ fault' = "none" /\ stack'[u][1] = "plain"
          /\ Len(stack'[u]) > 1 \/ "exit" \in pending'[u]
          => Base(u) = "plain" /\ (Len(stack[u]) > 1 \/ "exit" \in pending[u])
    BY <1>6, <1>8, Apart DEF Others, Base
  <2> QED
    BY <1>2, <1>7, <2>1, <2>2, <2>3, <2>4, <2>5, SetKeeps
<1>13. QuietInv'
  <2>1. ~quiet
    BY <1>1, <1>2, <1>6, NotQuiet DEF Shutdown
  <2> QED
    BY <1>3, <2>1 DEF QuietInv
<1>14. KnownInv'
  <2>1. \A u : Awaited(u)' => Awaited(u)
    BY <1>1, <1>3, <1>6, Apart, AwaitedStays DEF Others, Base
  <2>2. \A u \in known' \cap threads :
          u \in threads' \/ (stack'[u][1] = "dead" /\ tls'[u].maps # "live")
    BY <1>3, <1>6 DEF Ends
  <2>3. \A u \in known' \cap {w} : Base(u) = "dead" =>
          stack'[u][1] = "dead" /\ (tls'[u].maps = "live" => tls[u].maps = "live")
    BY <1>3, <1>6
  <2> QED
    BY <1>2, <1>3, <1>7, <2>1, <2>2, <2>3, KnownKeeps
<1> QED
  BY <1>9, <1>10, <1>11, <1>12, <1>13, <1>14 DEF Parts

LEMMA EndKeeps ==
  ASSUME Going, NEW w \in Workers, ReturnPlain(w) \/ ExitUnrecorded(w) \/ StoreExit(w) \/ Erase(w)
  PROVE  Parts'
<1> USE DEF locals, set, exiting
<1>1. w \in Threads /\ KInv /\ SetInv /\ Globals /\ IInv /\ fault = "none"
  BY Apart DEF Going, KInv
<1>2. CASE ReturnPlain(w)
  <2>1. Base(w) = "plain"
    BY <1>1, <1>2, BaseGoto, FiniNames DEF ReturnPlain, Dies
  <2>2. w \in threads => w \in odd
    BY <1>1, <2>1 DEF SetInv
  <2>3. Ends(w, "plain")
    BY <1>1, <1>2, <2>2 DEF ReturnPlain, Ends, history
  <2> QED
    BY <2>3, ByEnds
<1>3. CASE ExitUnrecorded(w)
  <2>1. Ends(w, "run")
    BY <1>1, <1>3 DEF ExitUnrecorded, Ends
  <2> QED
    BY <2>1, ByEnds
<1>5. CASE StoreExit(w)
  <2>1. Top(w) = "leaving" /\ UseMaps(w)
    BY <1>5 DEF StoreExit, Dies, Goto
  <2>2. Sound(hit)
    BY <1>1, <2>1, RecordingHasMaps, FiniNames DEF Recording
  <2>3. Ends(w, "leaving")
    BY <1>1, <1>5, <2>2 DEF StoreExit, Ends
  <2> QED
    BY <2>3, ByEnds
<1>4. CASE Erase(w)
  <2>1. Top(w) = "erasing"
    BY <1>4 DEF Erase, Dies, Goto
  <2>2. tls[w].maps # "live"
    BY <1>1, <2>1, Undisturbed, FiniNames DEF Closed
  <2>3. Sound(hit)
    BY <1>4 DEF Erase, UseSet
  <2>4. Ends(w, "erasing")
    BY <1>1, <1>4, <2>2, <2>3 DEF Erase, Ends
  <2> QED
    BY <2>4, ByEnds
<1> QED
  BY <1>2, <1>3, <1>4, <1>5

-----------------------------------------------------------------------------
(* A thread is created.                                                    *)
Creates(t, w, from, to, start) ==
  /\ RealCreate(t, w, from, to, start)
  /\ UNCHANGED <<threads, lock, exiting, fault, hit, quiet>>
  /\ tls'[w] = Fresh /\ \A u \in Threads \ {t, w} : tls'[u] = tls[u]
  /\ SameLife(tls[t], tls'[t])
  /\ \/ from = "run" /\ to = "run" /\ start = "plain"
     \/ /\ from = "run" /\ to = "insert" /\ start = "plain"
        /\ fini # {} /\ tls[t].initialized /\ ~tls[t].unsafe
     \/ from = "create" /\ to = "created" /\ start = "start"

LEMMA ByCreates ==
  ASSUME Going, NEW t \in Threads, NEW w \in Workers, NEW from, NEW to, NEW start,
         Creates(t, w, from, to, start)
  PROVE  Parts'
<1>1. /\ IInv /\ KInv /\ Globals /\ Globals' /\ BaseInv /\ SetInv /\ QuietInv /\ KnownInv
      /\ LocalInv /\ DepthInv /\ fault = "none" /\ tls' \in [Threads -> Locals]
      /\ \A u \in Threads : Base(u) # "exited"
  BY NoneExited DEF Going, KInv
<1>2. UNCHANGED <<threads, lock, cursor, fini, fault, hit, quiet, exiting>>
  BY DEF Creates, exiting
<1>3. /\ from \in {"run", "create"} /\ to \in {"run", "insert", "created"}
      /\ start \in {"start", "plain"} /\ from \notin Upper /\ from \notin {"new", "dead"}
      /\ to \notin Upper \cup Finalise /\ start \notin Upper \cup Finalise /\ to \notin Idle
  BY FiniNames DEF Creates, Idle
<1>4. RealCreate(t, w, from, to, start) /\ Top(t) = from
  BY DEF Creates, RealCreate
<1>5. /\ w # t /\ w \in Threads /\ w # Main
      /\ Base(t) = from /\ stack'[t] = <<to>> /\ stack'[t][1] = to /\ Len(stack'[t]) = 1
      /\ Base(w) \in {"new", "dead"}
      /\ stack'[w] = <<start>> /\ stack'[w][1] = start /\ Len(stack'[w]) = 1
      /\ \A u \in Threads \ {t, w} : stack'[u] = stack[u]
  BY <1>1, <1>3, <1>4, BaseCreate, Apart
<1>6. /\ child'[t] = w /\ child'[w] = Main
      /\ \A u \in Threads \ {t, w} : child'[u] = child[u]
      /\ pending' = [pending EXCEPT ![w] = {}]
      /\ odd' = odd \ ({w} \ threads) /\ known' = known \ {w}
  BY <1>1, <1>4, <1>5 DEF RealCreate, Globals
<1>7. Same({t, w}) /\ {t, w} \in SUBSET Threads
  BY <1>5, <1>6 DEF Same, Creates
<1>8. /\ "exit" \notin pending'[w]
      /\ \A u \in Workers : "exit" \in pending'[u] => "exit" \in pending[u]
  BY <1>1, <1>6 DEF Globals
<1>9. LocalInv'
  <2>1. Local(<<to>>, tls'[t], fini' = {}, hit')
    <3>1. /\ fini' = {} => fini = {} /\ hit' = hit
          /\ to \notin Unborn \cup Closed /\ to \notin Shutdown
          /\ fini' = {} /\ to \in Recording \cup {"run", "wait"} =>
               from \in Recording \cup {"run", "wait"}
          /\ to \in Recording \cup Marking =>
               \/ from \in Recording \cup Marking
               \/ tls[t].initialized /\ (~tls[t].unsafe \/ ~tls[t].record_fini)
      BY <1>2 DEF Creates, Unborn, Closed, Recording, Marking, Shutdown
    <3>2. SameLife(tls[t], tls'[t]) /\ to \notin Upper /\ hit' = hit
      BY <1>2, <1>3 DEF Creates
    <3> QED
      BY <1>1, <1>3, <1>4, <3>1, <3>2, LocalMoves
  <2>2. Local(<<start>>, Fresh, fini' = {}, hit')
    <3> DEFINE d == fini' = {}
    <3>1. d \in BOOLEAN /\ hit' \in BOOLEAN /\ Fresh \in Locals /\ ~Fresh.initialized
          /\ ~Fresh.record_fini /\ Fresh.maps = "none"
      BY <1>1 DEF Globals, Fresh, Locals
    <3>2. start \notin Recording \cup Marking \cup Closed \cup {"run", "wait"}
      BY <1>3 DEF Recording, Marking, Closed
    <3> HIDE DEF d
    <3>3. Local(<<start>>, Fresh, d, hit')
      BY <1>3, <3>1, <3>2, OneLocal
    <3> QED
      BY <3>3 DEF d
  <2>3. \A u \in {t, w} : Local(stack'[u], tls'[u], fini' = {}, hit')
    BY <1>5, <2>1, <2>2 DEF Creates
  <2> QED
    BY <1>1, <1>2, <1>7, <2>3, LocalStep
<1>10. DepthInv'
  <2>1. \A u \in Threads : stack'[u][1] \in {"exitMark", "exitKill"} => Base(u) = stack'[u][1]
    BY <1>3, <1>5 DEF Base
  <2>2. \A u \in Workers : Await(u)' => Await(u)
    BY <1>1, <1>2, <2>1, AwaitStays, Apart
  <2>3. \A c : Deep(<<to>>, c) /\ Deep(<<start>>, c)
    BY <1>3, DeepOne
  <2>4. \A u \in {t, w} : \A c : Deep(stack'[u], c)
    BY <1>5, <2>3
  <2> QED
    BY <1>5, <1>7, <1>8, <1>1, <2>2, <2>4, DepthStep
<1>11. BaseInv'
  <2>1. BaseFits(t)
    BY <1>1, <1>3, <1>5, <1>6 DEF BaseFits, Recording, Shutdown
  <2>2. BaseFits(w)
    BY <1>3, <1>5 DEF BaseFits, Shutdown, Creating
  <2>3. \A u, v \in {t, w} : stack'[u][1] \in Shutdown /\ stack'[v][1] \in Shutdown => u = v
    BY <1>3, <1>5 DEF Shutdown
  <2>4. \/ lock' = Free
        \/ lock' = lock /\ lock \notin {t, w}
    BY <1>1, <1>2, <1>3, <1>5 DEF BaseInv
  <2>5. fini' = {} => fini = {} /\ ~hit' /\ cursor' = cursor
    BY <1>1, <1>2 DEF BaseInv
  <2>6. \A u \in {t, w} : BaseFits(u)
    BY <2>1, <2>2
  <2>7. MemoryFaultsNeedSignals'
    BY <1>1, <1>2, SoundFaults
  <2> QED
    BY <1>1, <1>2, <1>7, <2>3, <2>4, <2>5, <2>6, <2>7, BaseKeeps
<1>12. SetInv'
  <2>1. \A u \in {t, w} : stack'[u][1] \notin Idle =>
          \/ Base(u) \notin Idle
          \/ u \in threads' \/ \E v \in Threads : child'[v] = u /\ stack'[v][1] \in Creating
    <3>1. Base(t) \notin Idle
      BY <1>3, <1>5 DEF Idle
    <3>2. start \notin Idle => child'[t] = w /\ stack'[t][1] \in Creating
      BY <1>5, <1>6 DEF Creates, Idle, Creating
    <3> QED
      BY <1>5, <3>1, <3>2
  <2>2. \A u \in {t, w} : Base(u) \notin Creating
    BY <1>3, <1>5 DEF Creating
  <2>3. \A u \in threads' :
          \/ u \in odd' \/ stack'[u][1] \notin Idle
          \/ u \in threads /\ u \notin {t, w} /\ (u \in odd => u \in odd')
    BY <1>1, <1>2, <1>3, <1>5, <1>6 DEF SetInv
  <2>4. \A u \in Workers \ threads' :
          /\ fault' = "none" /\ stack'[u][1] = "plain"
          /\ Len(stack'[u]) > 1 \/ "exit" \in pending'[u]
          => Base(u) = "plain" /\ (Len(stack[u]) > 1 \/ "exit" \in pending[u])
    <3> SUFFICES ASSUME NEW u \in Workers, stack'[u][1] = "plain",
                        Len(stack'[u]) > 1 \/ "exit" \in pending'[u]
                 PROVE  Base(u) = "plain" /\ (Len(stack[u]) > 1 \/ "exit" \in pending[u])
      OBVIOUS
    <3>1. u # t
      BY <1>3, <1>5 DEF Idle
    <3>2. ~(Len(stack'[w]) > 1) /\ "exit" \notin pending'[w]
      <4>1. Len(stack'[w]) = 1 /\ ~(1 > 1)
        BY <1>5
      <4> QED
        BY <1>8, <4>1, Zenon
    <3>3. u # w
      BY <3>2, Zenon
    <3> QED
      BY <1>5, <1>8, <3>1, <3>3, Apart DEF Base
  <2> QED
    BY <1>1, <1>2, <1>7, <2>1, <2>2, <2>3, <2>4, SetKeeps
<1>13. QuietInv'
  <2>1. ~quiet
    BY <1>1, <1>3, <1>5, NotQuiet DEF Shutdown
  <2> QED
    BY <1>2, <2>1 DEF QuietInv
<1>14. KnownInv'
  <2>1. \A u : Awaited(u)' => Awaited(u)
    <3>1. stack'[Main][1] = Base(Main) \/ stack'[Main][1] \notin Shutdown
      BY <1>3, <1>5, Apart DEF Base, Shutdown
    <3> QED
      BY <1>2, <3>1, AwaitedStays
  <2>2. \A u \in known' \cap {t, w} : Base(u) # "dead"
    BY <1>3, <1>5, <1>6
  <2> QED
    BY <1>1, <1>2, <1>6, <1>7, <2>1, <2>2, KnownKeeps
<1> QED
  BY <1>9, <1>10, <1>11, <1>12, <1>13, <1>14 DEF Parts

LEMMA CreateStepKeeps ==
  ASSUME Going, NEW t \in Threads, NEW w \in Workers,
         CreateUnguarded(t, w) \/ CreateLate(t, w) \/ Create(t, w)
  PROVE  Parts'
<1> USE DEF set
<1>0. IInv /\ KInv
  BY DEF Going, KInv
<1>1. PICK from, to, start :
        /\ RealCreate(t, w, from, to, start)
        /\ \/ from = "run" /\ to = "run" /\ start = "plain"
           \/ from = "run" /\ to = "insert" /\ start = "plain" /\ Guard(t) /\ ~Collecting
           \/ from = "create" /\ to = "created" /\ start = "start"
  BY Zenon DEF CreateUnguarded, CreateLate, Create
<1>2. w # t /\ w \in Threads
  BY <1>0, <1>1, BaseCreate, FiniNames
<1>3. \E b : \/ tls' = [tls EXCEPT ![t].unsafe = FALSE, ![w] = Fresh]
             \/ tls' = [tls EXCEPT ![t].in_tool = TRUE, ![t].unsafe = FALSE, ![w] = Fresh]
  BY DEF CreateUnguarded, CreateLate, Create
<1>4. tls \in [Threads -> Locals] /\ tls[t] \in Locals
  BY <1>0 DEF IInv
<1>5. /\ tls'[w] = Fresh /\ \A u \in Threads \ {t, w} : tls'[u] = tls[u]
      /\ SameLife(tls[t], tls'[t])
  BY <1>2, <1>3, <1>4 DEF SameLife, Locals
<1>6. UNCHANGED <<threads, lock, exiting, fault, hit, quiet>>
  BY DEF CreateUnguarded, CreateLate, Create
<1>7. Creates(t, w, from, to, start)
  BY <1>1, <1>5, <1>6 DEF Creates, Guard, Collecting
<1> QED
  BY <1>7, ByCreates

(* The creator inserts the thread, whatever has become of it.              *)
LEMMA InsertKeeps ==
  ASSUME Going, NEW t \in Threads, Insert(t)
  PROVE  Parts'
<1> DEFINE c == child[t]
<1>1. /\ IInv /\ KInv /\ Globals /\ Globals' /\ BaseInv /\ SetInv /\ QuietInv /\ KnownInv
      /\ LocalInv /\ DepthInv /\ fault = "none" /\ tls' \in [Threads -> Locals]
      /\ \A u \in Threads : Base(u) # "exited"
  BY NoneExited DEF Going, KInv
<1>2. /\ Goto(t, "inserting", "run") /\ Leave(t) /\ Top(t) = "inserting"
      /\ UNCHANGED <<child, pending, cursor, fini, hit, quiet, known, exiting>>
      /\ threads' = threads \cup {c} /\ lock' = Free
      /\ odd' = IF Top(c) \in {"dead", "plain"} THEN odd \cup {c} ELSE odd
  BY DEF Insert, Goto, signals, exiting
<1>3. /\ Base(t) = "inserting" /\ stack'[t] = <<"run">> /\ stack'[t][1] = "run"
      /\ Len(stack'[t]) = 1 /\ Others(t)
  BY <1>1, <1>2, BaseGoto, FiniNames
<1>4. SameLife(tls[t], tls'[t]) /\ \A u \in Threads \ {t} : tls'[u] = tls[u]
  BY <1>1, <1>2, InToolOnly
<1>5. Same({t}) /\ {t} \in SUBSET Threads
  BY <1>2, <1>3, <1>4 DEF Same, Others
<1>6. c \in Workers /\ Base(c) # "new" /\ c \in Threads
  BY <1>1, <1>3, Apart DEF BaseInv, Creating
<1>7. Base(c) \in Idle => c \in odd'
  <2>1. CASE Base(c) = "dead"
    <3>1. Top(c) = "dead"
      BY <1>1, <1>6, <2>1, TopIsBase DEF BaseInv
    <3> QED
      BY <1>2, <3>1
  <2>2. CASE Base(c) = "plain" /\ Len(stack[c]) = 1
    <3>1. Top(c) = "plain"
      BY <1>1, <1>6, <2>2, TopIsBase
    <3> QED
      BY <1>2, <3>1
  <2>3. CASE Base(c) = "plain" /\ Len(stack[c]) > 1
    <3>1. c \in odd
      BY <1>1, <1>6, <2>3 DEF SetInv
    <3> QED
      BY <1>2, <3>1
  <2>4. Len(stack[c]) = 1 \/ Len(stack[c]) > 1
    <3>1. \A n \in Nat : n > 0 => n = 1 \/ n > 1
      OBVIOUS
    <3>2. Len(stack[c]) \in Nat /\ Len(stack[c]) > 0
      BY <1>1, <1>6, TopIsBase
    <3> QED
      BY <3>1, <3>2, Zenon
  <2> QED
    BY <1>6, <2>1, <2>2, <2>3, <2>4 DEF Idle
<1> HIDE DEF c
<1>8. MemoryFaultsNeedSignals'
  <2>1. Sound(hit')
    BY <1>1 DEF Insert, UseSet
  <2> QED
    BY <2>1, SoundFaults
<1>9. LocalInv'
  <2>1. Local(<<"run">>, tls'[t], fini' = {}, hit')
    BY <1>1, <1>2, <1>4, LocalMoves, FiniNames DEF Unborn, Recording, Closed, Marking, Shutdown
  <2>2. \A u \in {t} : Local(stack'[u], tls'[u], fini' = {}, hit')
    BY <1>3, <2>1
  <2> QED
    BY <1>1, <1>2, <1>5, <2>2, LocalStep
<1>10. DepthInv'
  <2>1. \A u \in Threads : stack'[u][1] \in {"exitMark", "exitKill"} => Base(u) = stack'[u][1]
    BY <1>3 DEF Others, Base
  <2>2. \A u \in Workers : Await(u)' => Await(u)
    BY <1>1, <1>2, <2>1, AwaitStays, Apart
  <2>3. \A d : Deep(<<"run">>, d)
    BY DeepOne, FiniNames
  <2>4. \A u \in {t} : \A d : Deep(stack'[u], d)
    BY <1>3, <2>3
  <2> QED
    BY <1>1, <1>2, <1>3, <1>5, <2>2, <2>4, DepthStep DEF Others
<1>11. BaseInv'
  <2>1. \A u \in {t} : BaseFits(u)
    BY <1>3 DEF BaseFits, Shutdown, Creating
  <2>2. \A u, v \in {t} : stack'[u][1] \in Shutdown /\ stack'[v][1] \in Shutdown => u = v
    OBVIOUS
  <2>3. fini' = {} => fini = {} /\ ~hit' /\ cursor' = cursor
    BY <1>1, <1>2 DEF BaseInv
  <2> QED
    BY <1>1, <1>2, <1>5, <1>8, <2>1, <2>2, <2>3, BaseKeeps
<1>12. SetInv'
  <2>1. \A u \in {t} : Base(u) \notin Idle /\ stack'[u][1] \notin Idle
    BY <1>3 DEF Idle
  <2>2. \A u \in {t} : Base(u) \in Creating => child[u] \in threads'
    BY <1>2 DEF c
  <2>3. \A u \in threads' :
          \/ u \in odd' \/ stack'[u][1] \notin Idle
          \/ u \in threads /\ u \notin {t} /\ (u \in odd => u \in odd')
    <3> SUFFICES ASSUME NEW u \in threads', u \notin odd', stack'[u][1] \in Idle
                 PROVE  u \in threads /\ u \notin {t} /\ u \notin odd
      OBVIOUS
    <3>1. u # t /\ u \notin odd
      BY <1>2, <2>1
    <3>2. u # c
      BY <1>3, <1>6, <1>7, <3>1 DEF Others, Base
    <3> QED
      BY <1>2, <3>1, <3>2
  <2>4. \A u \in Workers : stack'[u][1] = "plain" => u # t /\ stack'[u] = stack[u]
    BY <1>3, Apart DEF Others
  <2> QED
    BY <1>1, <1>2, <1>5, <2>1, <2>2, <2>3, <2>4, SetKeeps DEF Base
<1>13. QuietInv'
  <2>1. ~quiet
    BY <1>1, <1>3, NotQuiet DEF Shutdown
  <2> QED
    BY <1>2, <2>1 DEF QuietInv
<1>14. KnownInv'
  <2>1. \A u : Awaited(u)' => Awaited(u)
    <3>1. stack'[Main][1] = Base(Main) \/ stack'[Main][1] \notin Shutdown
      BY <1>3, Apart DEF Base, Shutdown, Others
    <3> QED
      BY <1>2, <3>1, AwaitedStays
  <2> QED
    BY <1>1, <1>2, <1>3, <1>5, <2>1, KnownKeeps
<1> QED
  BY <1>9, <1>10, <1>11, <1>12, <1>13, <1>14 DEF Parts

-----------------------------------------------------------------------------
(* Finalisations and samples.                                              *)
LEMMA ByAbove ==
  ASSUME Going, NEW t \in Threads, Above(t), hit => hit',
         Local(stack'[t], tls'[t], fini = {}, hit'),
         \/ \A c : Deep(stack[t], c) => Deep(stack'[t], c)
         \/ t \in Workers /\ Deep(stack'[t], FALSE) /\ ~Await(t) /\ "exit" \notin pending'[t],
         MemoryFaultsNeedSignals',
         fini = {} => ~hit',
         quiet => ~hit' /\ QuietExitIsClean' /\ Unsampled'
  PROVE  Parts'
<1>1. /\ LocalInv /\ DepthInv /\ Globals
      /\ BaseInv' /\ SetInv' /\ QuietInv' /\ KnownInv'
  BY AboveKeeps DEF Going, KInv
<1>2. Same({t}) /\ {t} \in SUBSET Threads
  BY DEF Same, Above, Others
<1>3. fini' = fini /\ cursor' = cursor
  BY DEF Above, exiting
<1>4. LocalInv'
  BY <1>1, <1>2, <1>3, LocalStep
<1>5. DepthInv'
  <2>1. \A u \in Threads : stack'[u][1] \in {"exitMark", "exitKill"} => Base(u) = stack'[u][1]
    BY DEF Above, Others, Base
  <2>2. \A w \in Workers : Await(w)' => Await(w)
    BY <1>1, <1>3, <2>1, AwaitStays, Apart DEF exiting
  <2>3. \A w \in Workers : "exit" \in pending'[w] => "exit" \in pending[w]
    BY DEF Above
  <2>4. CASE \A c : Deep(stack[t], c) => Deep(stack'[t], c)
    <3>1. Main \in {t} => Deep(stack'[Main], TRUE)
      BY <1>1, <2>4 DEF DepthInv
    <3>2. \A w \in {t} \cap Workers : Deep(stack'[w], Await(w)' \/ "exit" \in pending'[w])
      <4> SUFFICES ASSUME t \in Workers
                   PROVE  Deep(stack'[t], Await(t)' \/ "exit" \in pending'[t])
        OBVIOUS
      <4>1. Deep(stack[t], Await(t) \/ "exit" \in pending[t])
        BY <1>1 DEF DepthInv
      <4>2. Deep(stack[t], Await(t)' \/ "exit" \in pending'[t])
        BY <2>2, <2>3, <4>1 DEF Deep
      <4> QED
        BY <2>4, <4>2
    <3> QED
      BY <1>1, <1>2, <2>2, <2>3, <3>1, <3>2, DepthStep DEF Same
  <2>5. CASE t \in Workers /\ Deep(stack'[t], FALSE) /\ ~Await(t) /\ "exit" \notin pending'[t]
    <3>1. Main \notin {t}
      BY <2>5, Apart
    <3>2. \A w \in {t} \cap Workers : Deep(stack'[w], Await(w)' \/ "exit" \in pending'[w])
      BY <2>2, <2>5 DEF Deep
    <3> QED
      BY <1>1, <1>2, <2>2, <2>3, <3>1, <3>2, DepthStep DEF Same
  <2> QED
    BY <2>4, <2>5
<1> QED
  BY <1>1, <1>4, <1>5 DEF Parts

(* What the last frame knows where the threads are interrupted.            *)
LEMMA Interrupted ==
  ASSUME KInv, NEW t \in Threads, Top(t) \in Upper
  PROVE  /\ Guarded(stack[t], tls[t].in_tool) /\ tls[t] \in Locals
         /\ stack[t][Len(stack[t])] = Top(t) /\ Len(stack[t]) \in Nat /\ Len(stack[t]) > 1
         /\ Local(stack[t], tls[t], fini = {}, hit)
         /\ Base(t) \notin {"new", "dead", "exited"}
         /\ ~hit /\ Top(t) \in Finalise => Len(stack[t]) = 2 /\ stack[t][2] = Top(t)
         /\ quiet => t = Main
         /\ quiet /\ Top(t) \in Finalise =>
              Base(Main) = "exitBackend" /\ fini = {"wrapper", "writer"}
<1>1. /\ Guarded(stack[t], tls[t].in_tool) /\ tls[t] \in Locals
      /\ Local(stack[t], tls[t], fini = {}, hit)
  BY DEF KInv, IInv, LocalInv
<1>2. stack[t][Len(stack[t])] = Top(t) /\ Len(stack[t]) \in Nat /\ Len(stack[t]) > 1
  BY TopIsBase DEF Top, KInv
<1>3. Base(t) \notin {"new", "dead", "exited"}
  <2>1. Top(t) # Base(t)
    BY TopIsBase DEF KInv
  <2>2. Base(t) \in {"new", "dead", "exited"} => Len(stack[t]) = 1
    BY DEF KInv, BaseInv
  <2>3. Len(stack[t]) = 1 => Top(t) = Base(t)
    BY TopIsBase DEF KInv
  <2> QED
    BY <2>1, <2>2, <2>3
<1>4. ~hit /\ Top(t) \in Finalise => Len(stack[t]) = 2 /\ stack[t][2] = Top(t)
  <2> SUFFICES ASSUME ~hit, Top(t) \in Finalise
               PROVE  Len(stack[t]) = 2 /\ stack[t][2] = Top(t)
    OBVIOUS
  <2>1. Len(stack[t]) \in 1 .. Len(stack[t]) /\ stack[t][Len(stack[t])] \in Finalise
    BY <1>2
  <2>2. \A i \in 1 .. Len(stack[t]) : stack[t][i] \in Finalise => i = 2
    BY <1>1 DEF Local, Alone
  <2>3. Len(stack[t]) = 2
    BY <2>1, <2>2
  <2> QED
    BY <1>2, <2>3
<1>5. quiet => t = Main /\ ~hit
  BY <1>3, Apart DEF KInv, QuietInv
<1>6. ASSUME quiet, Top(t) \in Finalise
      PROVE  Base(Main) = "exitBackend" /\ fini = {"wrapper", "writer"}
  <2>1. t = Main /\ Len(stack[Main]) = 2 /\ stack[Main][2] \in Finalise /\ Base(Main) \in Shutdown
    BY <1>4, <1>5, <1>6 DEF KInv, QuietInv
  <2>2. Base(Main) \in Program \cup {"erase", "exitBackend"}
    <3>1. Len(stack[Main]) > 1
      BY <1>2, <2>1
    <3>2. Alone(stack[Main], tls[Main])
      BY <1>1, <1>5, <1>6, <2>1 DEF Local
    <3> QED
      BY <2>1, <3>1, <3>2 DEF Alone, Base
  <2>3. Base(Main) = "exitBackend"
    BY <2>1, <2>2 DEF Program, Shutdown
  <2>4. fini = FiniOf("exitBackend")
    BY <2>1, <2>3, Apart DEF KInv, BaseInv
  <2>5. fini = {"wrapper", "writer"}
    BY <2>4 DEF FiniOf
  <2> QED
    BY <2>3, <2>5
<1> QED
  BY <1>1, <1>2, <1>3, <1>4, <1>5, <1>6

(* ... and does to them when it goes on or returns.                        *)
LEMMA UpperMoves ==
  ASSUME Going, NEW t \in Threads, Top(t) \in Upper,
         \/ Pop(t)
         \/ \E from, to \in Finalise : Goto(t, from, to),
         \A u \in Threads \ {t} : tls'[u] = tls[u],
         UNCHANGED <<child, threads, lock, pending, exiting, odd, quiet, known>>
  PROVE  /\ Above(t)
         /\ \A c : Deep(stack[t], c) => Deep(stack'[t], c)
<1> DEFINE s == stack[t]  r == stack'[t]
<1>1. /\ IInv /\ KInv /\ s \in Seq(Frames) /\ Len(s) \in Nat /\ Len(s) > 1
      /\ Guarded(s, tls[t].in_tool) /\ tls[t].in_tool \in BOOLEAN /\ s[Len(s)] = Top(t)
      /\ Base(t) \notin {"new", "dead", "exited"}
  BY Interrupted DEF Going, KInv, Guarded, Locals
<1>2. /\ Others(t) /\ r[1] = Base(t)
      /\ \A c : Deep(s, c) => Deep(r, c)
  <2>1. CASE Pop(t)
    <3>1. r = SubSeq(s, 1, Len(s) - 1) /\ r[1] = Base(t) /\ Others(t)
      BY <1>1, <2>1, UpperPop
    <3> HIDE DEF s, r
    <3>2. \A c : Deep(s, c) => Deep(r, c)
      BY <1>1, <3>1, DeepPop
    <3> QED
      BY <3>1, <3>2
  <2>2. ASSUME NEW from \in Finalise, NEW to \in Finalise, Goto(t, from, to)
        PROVE  /\ Others(t) /\ r[1] = Base(t)
               /\ \A c : Deep(s, c) => Deep(r, c)
    <3>0. to \in Frames /\ from \in Upper /\ Top(t) = from
      BY <2>2, FrameKinds, FiniNames DEF Goto
    <3>1. r = [s EXCEPT ![Len(s)] = to] /\ r[1] = Base(t) /\ Others(t)
      BY <1>1, <2>2, <3>0, UpperGoto
    <3> HIDE DEF s, r
    <3>2. \A c : Deep(s, c) => Deep(r, c)
      BY <1>1, <3>0, <3>1, DeepReplace
    <3> QED
      BY <3>1, <3>2
  <2> QED
    BY <2>1, <2>2
<1>3. Above(t)
  BY <1>1, <1>2 DEF Above
<1> QED
  BY <1>2, <1>3

(* A step of jsi_thread_finalize.                                          *)
LEMMA ByFini ==
  ASSUME Going, NEW t \in Threads, Top(t) \in Finalise,
         \/ Pop(t)
         \/ \E from, to \in Finalise :
              Goto(t, from, to) /\ (quiet /\ to \in {"finiFree", "finiEnd"} => ~timer'),
         \A u \in Threads \ {t} : tls'[u] = tls[u],
         UNCHANGED <<child, threads, lock, pending, exiting, history>>,
         Local(stack'[t], tls'[t], fini = {}, hit),
         Sound(hit),
         ~hit /\ "backend" \notin fini => fault' = "none"
  PROVE  Parts'
<1>1. Top(t) \in Upper /\ KInv /\ UNCHANGED <<odd, quiet, known, hit, exiting>>
  BY FrameKinds DEF Going, history
<1>2. /\ Above(t)
      /\ \A c : Deep(stack[t], c) => Deep(stack'[t], c)
  BY <1>1, UpperMoves
<1>3. fini = {} => ~hit'
  BY <1>1 DEF KInv, BaseInv
<1>4. ASSUME quiet PROVE ~hit' /\ QuietExitIsClean' /\ Unsampled'
  <2>1. ~hit
    BY <1>1, <1>4 DEF KInv, QuietInv
  <2>2. /\ t = Main /\ Base(Main) = "exitBackend" /\ fini = {"wrapper", "writer"}
        /\ Len(stack[t]) = 2 /\ IInv /\ stack[t] \in Seq(Frames)
    BY <1>1, <1>4, <2>1, Interrupted DEF KInv, Guarded
  <2>3. stack'[Main][1] = "exitBackend"
    BY <1>2, <2>2 DEF Above
  <2>4. \/ Len(stack'[Main]) = 1
        \/ /\ Len(stack'[Main]) = 2
           /\ stack'[Main][2] \in {"finiFree", "finiEnd"} => ~timer'
    <3> DEFINE s == stack[t]  r == stack'[t]
    <3>0. s \in Seq(Frames) /\ Len(s) = 2 /\ r = stack'[Main] /\ IInv
      BY <2>2
    <3>1. CASE Pop(t)
      <4>1. r = SubSeq(s, 1, Len(s) - 1)
        BY <1>1, <3>0, <3>1, UpperPop
      <4> HIDE DEF s, r
      <4>2. Len(r) = 1
        BY <3>0, <4>1, PopTwo, Zenon
      <4> QED
        BY <3>0, <4>2
    <3>2. ASSUME NEW f \in Finalise, NEW g \in Finalise, Goto(t, f, g),
                 quiet /\ g \in {"finiFree", "finiEnd"} => ~timer'
          PROVE  /\ Len(stack'[Main]) = 2
                 /\ stack'[Main][2] \in {"finiFree", "finiEnd"} => ~timer'
      <4>1. g \in Frames /\ f \in Upper
        BY FrameKinds, FiniNames
      <4>2. r = [s EXCEPT ![Len(s)] = g]
        <5>1. stack'[t] = [stack[t] EXCEPT ![Len(stack[t])] = g]
          BY <2>2, <3>2, <4>1, UpperGoto
        <5> QED
          BY <2>2, <5>1, Zenon
      <4> HIDE DEF s, r
      <4>3. Len(r) = 2 /\ r[2] = g
        <5>1. s \in Seq(Frames) /\ Len(s) = 2 /\ g \in Frames
          BY <3>0, <4>1, Zenon
        <5>2. LET p == [s EXCEPT ![Len(s)] = g] IN Len(p) = 2 /\ p[2] = g
          BY <5>1, ReplaceTwo, Zenon
        <5> QED
          BY <4>2, <5>2, Zenon
      <4> QED
        BY <1>4, <3>0, <3>2, <4>3
    <3> QED
      BY <3>1, <3>2
  <2>5. Unsampled'
    <3> DEFINE r == stack'[Main]
    <3>1. r[1] = "exitBackend" /\ (Len(r) = 1 \/ Len(r) = 2)
          /\ (Len(r) = 2 /\ r[2] \in {"finiFree", "finiEnd"} => ~timer')
      BY <2>3, <2>4
    <3>2. Unsampled' <=>
            /\ r[1] \in {"exitSet", "exited"} => Len(r) = 1
            /\ Len(r) > 1 /\ r[2] \in {"finiFree", "finiEnd"} => Len(r) = 2 /\ ~timer'
      BY DEF Unsampled, Base
    <3>3. r[1] \notin {"exitSet", "exited"}
      BY <3>1
    <3>0. ~(1 > 1)
      OBVIOUS
    <3> HIDE DEF r
    <3>4. CASE Len(r) = 1
      BY <3>0, <3>2, <3>3, <3>4, Zenon
    <3>5. CASE Len(r) = 2
      BY <3>1, <3>2, <3>3, <3>5, Zenon
    <3> QED
      BY <3>1, <3>4, <3>5
  <2>6. fault' = "none"
    BY <2>1, <2>2
  <2> QED
    BY <1>1, <2>1, <2>5, <2>6 DEF QuietExitIsClean
<1>5. MemoryFaultsNeedSignals'
  BY <1>1, SoundFaults
<1> QED
  BY <1>1, <1>2, <1>3, <1>4, <1>5, ByAbove

LEMMA FiniTestKeeps ==
  ASSUME Going, NEW t \in Threads, FiniTest(t)
  PROVE  Parts'
<1> DEFINE e == fini = {}
<1>1. /\ IInv /\ KInv /\ fault = "none" /\ Top(t) = "fini" /\ hit \in BOOLEAN
      /\ UNCHANGED <<tls, child, threads, lock, pending, exiting, fault, history>>
  BY DEF Going, KInv, Globals, FiniTest, locals, set, signals
<1>2. Top(t) \in Upper /\ Top(t) \in Finalise /\ "fini" \in Upper
  BY <1>1, FiniNames
<1>3. /\ Guarded(stack[t], tls[t].in_tool) /\ tls[t] \in Locals /\ tls[t].in_tool \in BOOLEAN
      /\ stack[t][Len(stack[t])] = "fini" /\ Local(stack[t], tls[t], e, hit) /\ e \in BOOLEAN
  BY <1>1, <1>2, Interrupted DEF Locals
<1> HIDE DEF e
<1>4. CASE ~tls[t].initialized /\ Pop(t)
  <2>1. stack'[t] = SubSeq(stack[t], 1, Len(stack[t]) - 1)
    BY <1>1, <1>2, <1>4, UpperPop
  <2>2. Local(SubSeq(stack[t], 1, Len(stack[t]) - 1), tls[t], e, hit)
    BY <1>1, <1>3, <1>4, FiniReturns
  <2>3. Local(stack'[t], tls'[t], fini = {}, hit)
    BY <1>1, <2>1, <2>2 DEF e
  <2> QED
    BY <1>1, <1>2, <1>4, <2>3, ByFini
<1>5. ASSUME NEW to \in {"finiEnd", "finiSet"}, Goto(t, "fini", to), tls[t].initialized,
             tls[t].record_fini <=> to = "finiEnd"
      PROVE  Parts'
  <2>1. to \in Finalise /\ "fini" \in Finalise /\ to \in Frames
    BY FiniNames, FrameKinds
  <2>2. stack'[t] = [stack[t] EXCEPT ![Len(stack[t])] = to]
    BY <1>1, <1>2, <1>5, <2>1, UpperGoto
  <2>3. Local([stack[t] EXCEPT ![Len(stack[t])] = to], tls[t], e, hit)
    <3> DEFINE s == stack[t]  l == tls[t]  r == [s EXCEPT ![Len(s)] = to]
    <3>1. \/ to = "finiEnd" /\ l.record_fini
          \/ to = "finiSet" /\ ~l.record_fini
      BY <1>5
    <3>2. /\ l.initialized /\ hit \in BOOLEAN /\ Guarded(s, l.in_tool) /\ s[Len(s)] = "fini"
          /\ l \in Locals /\ l.in_tool \in BOOLEAN /\ e \in BOOLEAN /\ Local(s, l, e, hit)
      BY <1>1, <1>3, <1>5
    <3>3. s \in Seq(Frames) /\ Len(s) > 1 /\ to \in Frames
      BY <2>1, <3>2, FiniNames DEF Guarded
    <3> HIDE DEF s, l
    <3>4. CASE to = "finiEnd"
      <4>1. Local([s EXCEPT ![Len(s)] = "finiEnd"], l, e, hit)
        BY <3>1, <3>2, <3>3, <3>4, FiniTested
      <4> QED
        BY <3>4, <4>1 DEF s, l
    <3>5. CASE to = "finiSet"
      <4>1. Local([s EXCEPT ![Len(s)] = "finiSet"], l, e, hit)
        BY <3>1, <3>2, <3>3, <3>5, FiniTested
      <4> QED
        BY <3>5, <4>1 DEF s, l
    <3> QED
      BY <3>4, <3>5
  <2>4. Local(stack'[t], tls'[t], fini = {}, hit)
    BY <1>1, <2>2, <2>3 DEF e
  <2>5. quiet => to = "finiSet"
    <3> SUFFICES ASSUME quiet PROVE ~tls[t].record_fini
      BY <1>5
    <3>1. ~hit
      BY <1>1 DEF KInv, QuietInv
    <3>2. Alone(stack[t], tls[t]) /\ stack[t][2] = "fini"
      BY <1>1, <1>2, <1>3, <3>1, Interrupted DEF Local
    <3> QED
      BY <1>5, <3>2 DEF Alone
  <2>6. \E from, new \in Finalise :
          Goto(t, from, new) /\ (quiet /\ new \in {"finiFree", "finiEnd"} => ~timer')
    BY <1>5, <2>1, <2>5
  <2> QED
    BY <1>1, <1>2, <2>4, <2>6, ByFini
<1> QED
  BY <1>4, <1>5 DEF FiniTest

LEMMA FiniSetKeeps ==
  ASSUME Going, NEW t \in Threads, FiniSet(t)
  PROVE  Parts'
<1> DEFINE e == fini = {}
<1>1. /\ IInv /\ KInv /\ fault = "none" /\ Top(t) = "finiSet" /\ hit \in BOOLEAN
      /\ Goto(t, "finiSet", "finiSampler") /\ tls' \in [Threads -> Locals]
      /\ UNCHANGED <<child, threads, lock, pending, exiting, fault, history>>
  BY DEF Going, KInv, Globals, FiniSet, Goto, set, signals
<1>2. /\ Top(t) \in Upper /\ Top(t) \in Finalise /\ "finiSet" \in Finalise
      /\ "finiSampler" \in Finalise /\ "finiSampler" \in Frames /\ "finiSet" \in Upper
  BY <1>1, FiniNames, FrameKinds
<1>3. /\ Guarded(stack[t], tls[t].in_tool) /\ tls[t] \in Locals /\ tls[t].in_tool \in BOOLEAN
      /\ stack[t][Len(stack[t])] = "finiSet" /\ Local(stack[t], tls[t], e, hit) /\ e \in BOOLEAN
  BY <1>1, <1>2, Interrupted DEF Locals
<1>4. /\ tls'[t].initialized = tls[t].initialized /\ tls'[t].maps = tls[t].maps
      /\ tls'[t].record_fini /\ tls'[t].unsafe /\ tls'[t] \in Locals
      /\ \A u \in Threads \ {t} : tls'[u] = tls[u]
  BY <1>1, <1>3 DEF FiniSet, IInv, Locals
<1> HIDE DEF e
<1>5. stack'[t] = [stack[t] EXCEPT ![Len(stack[t])] = "finiSampler"]
  BY <1>1, <1>2, UpperGoto
<1>6. Local([stack[t] EXCEPT ![Len(stack[t])] = "finiSampler"], tls'[t], e, hit)
  <2> DEFINE s == stack[t]  l == tls[t]  m == tls'[t]
  <2>1. /\ s \in Seq(Frames) /\ Len(s) > 1 /\ s[Len(s)] = "finiSet"
        /\ l \in Locals /\ m \in Locals /\ hit \in BOOLEAN /\ e \in BOOLEAN
    BY <1>1, <1>2, <1>3, <1>4 DEF Guarded
  <2>2. /\ Local(s, l, e, hit) /\ m.initialized = l.initialized /\ m.maps = l.maps
        /\ m.record_fini /\ m.unsafe
    BY <1>3, <1>4
  <2> HIDE DEF s, l, m
  <2>3. Local([s EXCEPT ![Len(s)] = "finiSampler"], m, e, hit)
    BY <2>1, <2>2, FiniMarked
  <2> QED
    BY <2>3 DEF s, m
<1>7. Local(stack'[t], tls'[t], fini = {}, hit)
  BY <1>5, <1>6 DEF e
<1>8. \E from, to \in Finalise :
        Goto(t, from, to) /\ (quiet /\ to \in {"finiFree", "finiEnd"} => ~timer')
  BY <1>1, <1>2
<1> QED
  BY <1>1, <1>2, <1>4, <1>7, <1>8, ByFini

LEMMA FiniSamplerKeeps ==
  ASSUME Going, NEW t \in Threads, FiniSampler(t)
  PROVE  Parts'
<1> DEFINE e == fini = {}
<1>1. /\ IInv /\ KInv /\ fault = "none" /\ Top(t) = "finiSampler" /\ hit \in BOOLEAN
      /\ Goto(t, "finiSampler", "finiFree") /\ tls' \in [Threads -> Locals] /\ ~timer'
      /\ UNCHANGED <<child, threads, lock, pending, exiting, history>>
  BY DEF Going, KInv, Globals, FiniSampler, Goto, set
<1>2. /\ Top(t) \in Upper /\ Top(t) \in Finalise /\ "finiSampler" \in Finalise
      /\ "finiFree" \in Finalise /\ "finiFree" \in Frames /\ "finiSampler" \in Upper
  BY <1>1, FiniNames, FrameKinds
<1>3. /\ Guarded(stack[t], tls[t].in_tool) /\ tls[t] \in Locals /\ tls[t].in_tool \in BOOLEAN
      /\ stack[t][Len(stack[t])] = "finiSampler" /\ Local(stack[t], tls[t], e, hit)
      /\ e \in BOOLEAN /\ Len(stack[t]) > 1
      /\ ~hit => stack[t][2] = "finiSampler" /\ Alone(stack[t], tls[t])
  BY <1>1, <1>2, Interrupted DEF Locals, Local
<1>4. /\ SameLife(tls[t], tls'[t]) /\ (MemoryCollect => tls'[t].unsafe = tls[t].unsafe)
      /\ tls'[t] \in Locals /\ \A u \in Threads \ {t} : tls'[u] = tls[u]
  BY <1>1, <1>3 DEF FiniSampler, IInv, Locals, SameLife, Allocated
<1> HIDE DEF e
<1>5. stack'[t] = [stack[t] EXCEPT ![Len(stack[t])] = "finiFree"]
  BY <1>1, <1>2, UpperGoto
<1>6. Local([stack[t] EXCEPT ![Len(stack[t])] = "finiFree"], tls'[t], e, hit)
  <2> DEFINE s == stack[t]  l == tls[t]  m == tls'[t]
  <2>1. /\ s \in Seq(Frames) /\ Len(s) > 1 /\ s[Len(s)] = "finiSampler"
        /\ l \in Locals /\ m \in Locals /\ hit \in BOOLEAN /\ e \in BOOLEAN
    BY <1>1, <1>2, <1>3, <1>4 DEF Guarded
  <2>2. /\ Local(s, l, e, hit) /\ SameLife(l, m)
        /\ MemoryCollect => m.unsafe = l.unsafe
    BY <1>3, <1>4
  <2> HIDE DEF s, l, m
  <2>3. Local([s EXCEPT ![Len(s)] = "finiFree"], m, e, hit)
    BY <2>1, <2>2, FiniIgnored
  <2> QED
    BY <2>3 DEF s, m
<1>7. Local(stack'[t], tls'[t], fini = {}, hit)
  BY <1>5, <1>6 DEF e
<1>8. ~hit => tls[t].maps = "live"
  BY <1>3 DEF Alone
<1>9. Sound(hit) /\ (~hit => fault' = "none")
  BY <1>8 DEF FiniSampler
<1>10. \E from, to \in Finalise :
         Goto(t, from, to) /\ (quiet /\ to \in {"finiFree", "finiEnd"} => ~timer')
  BY <1>1, <1>2
<1> QED
  BY <1>1, <1>2, <1>4, <1>7, <1>9, <1>10, ByFini

LEMMA FiniFreeKeeps ==
  ASSUME Going, NEW t \in Threads, FiniFree(t)
  PROVE  Parts'
<1> DEFINE e == fini = {}
<1>1. /\ IInv /\ KInv /\ fault = "none" /\ Top(t) = "finiFree" /\ hit \in BOOLEAN
      /\ Goto(t, "finiFree", "finiEnd") /\ tls' \in [Threads -> Locals]
      /\ UNCHANGED <<child, threads, lock, pending, timer, exiting, history>>
  BY DEF Going, KInv, Globals, FiniFree, Goto, set, signals
<1>2. Top(t) \in Upper /\ Top(t) \in Finalise /\ "finiFree" \in Finalise /\ "finiEnd" \in Finalise
      /\ "finiEnd" \in Frames /\ "finiFree" \in Upper
  BY <1>1, FiniNames, FrameKinds
<1>3. /\ Guarded(stack[t], tls[t].in_tool) /\ tls[t] \in Locals /\ tls[t].in_tool \in BOOLEAN
      /\ stack[t][Len(stack[t])] = "finiFree" /\ Local(stack[t], tls[t], e, hit) /\ e \in BOOLEAN
      /\ ~hit => Len(stack[t]) = 2 /\ stack[t][2] = "finiFree" /\ Alone(stack[t], tls[t])
  BY <1>1, <1>2, Interrupted DEF Locals, Local
<1>4. /\ tls'[t].initialized = tls[t].initialized /\ tls'[t].maps = "freed"
      /\ tls'[t].record_fini = tls[t].record_fini
      /\ MemoryCollect => tls'[t].unsafe = tls[t].unsafe
      /\ tls'[t] \in Locals /\ \A u \in Threads \ {t} : tls'[u] = tls[u]
  BY <1>1, <1>3 DEF FiniFree, IInv, Locals, Allocated
<1> HIDE DEF e
<1>5. stack'[t] = [stack[t] EXCEPT ![Len(stack[t])] = "finiEnd"]
  BY <1>1, <1>2, UpperGoto
<1>6. Local([stack[t] EXCEPT ![Len(stack[t])] = "finiEnd"], tls'[t], e, hit)
  <2> DEFINE s == stack[t]  l == tls[t]  m == tls'[t]
  <2>1. /\ s \in Seq(Frames) /\ Len(s) > 1 /\ s[Len(s)] = "finiFree"
        /\ l \in Locals /\ m \in Locals /\ hit \in BOOLEAN /\ e \in BOOLEAN
    BY <1>1, <1>2, <1>3, <1>4 DEF Guarded
  <2>2. /\ Local(s, l, e, hit) /\ m.initialized = l.initialized /\ m.maps = "freed"
        /\ m.record_fini = l.record_fini /\ (MemoryCollect => m.unsafe = l.unsafe)
    BY <1>3, <1>4
  <2> HIDE DEF s, l, m
  <2>3. Local([s EXCEPT ![Len(s)] = "finiEnd"], m, e, hit)
    BY <2>1, <2>2, FiniFreed
  <2> QED
    BY <2>3 DEF s, m
<1>7. Local(stack'[t], tls'[t], fini = {}, hit)
  BY <1>5, <1>6 DEF e
<1>8. ~hit => tls[t].maps = "live"
  <2> SUFFICES ASSUME ~hit PROVE tls[t].maps = "live"
    OBVIOUS
  <2>1. Len(stack[t]) > 1
    BY <1>1, <1>2, Interrupted
  <2> QED
    BY <1>3, <2>1 DEF Alone
<1>9. /\ Sound(hit)
      /\ ~hit /\ "backend" \notin fini => fault' = "none"
  BY <1>8 DEF FiniFree
<1>10. quiet => ~timer'
  <2> SUFFICES ASSUME quiet PROVE ~timer
    BY <1>1
  <2>1. t = Main /\ ~hit /\ Unsampled
    BY <1>1, <1>2, Interrupted DEF KInv, QuietInv
  <2>2. Len(stack[Main]) > 1 /\ stack[Main][2] = "finiFree"
    BY <1>3, <2>1
  <2> QED
    BY <2>1, <2>2 DEF Unsampled
<1>11. \E from, to \in Finalise :
         Goto(t, from, to) /\ (quiet /\ to \in {"finiFree", "finiEnd"} => ~timer')
  BY <1>1, <1>2, <1>10
<1> QED
  BY <1>1, <1>2, <1>4, <1>7, <1>9, <1>11, ByFini

LEMMA FiniEndKeeps ==
  ASSUME Going, NEW t \in Threads, FiniEnd(t)
  PROVE  Parts'
<1> DEFINE e == fini = {}
<1>1. /\ IInv /\ KInv /\ fault = "none" /\ Top(t) = "finiEnd" /\ hit \in BOOLEAN
      /\ Pop(t) /\ tls' \in [Threads -> Locals]
      /\ UNCHANGED <<child, threads, lock, pending, exiting, fault, history>>
  BY DEF Going, KInv, Globals, FiniEnd, set, signals
<1>2. Top(t) \in Upper /\ Top(t) \in Finalise
  BY <1>1, FiniNames
<1>3. /\ Guarded(stack[t], tls[t].in_tool) /\ tls[t] \in Locals /\ tls[t].in_tool \in BOOLEAN
      /\ stack[t][Len(stack[t])] = "finiEnd" /\ Local(stack[t], tls[t], e, hit) /\ e \in BOOLEAN
  BY <1>1, <1>2, Interrupted DEF Locals
<1>4. /\ ~tls'[t].initialized /\ tls'[t].maps = tls[t].maps
      /\ tls'[t].record_fini = tls[t].record_fini /\ tls'[t].unsafe = tls[t].unsafe
      /\ tls'[t] \in Locals /\ \A u \in Threads \ {t} : tls'[u] = tls[u]
  BY <1>1, <1>3 DEF FiniEnd, IInv, Locals
<1> HIDE DEF e
<1>5. stack'[t] = SubSeq(stack[t], 1, Len(stack[t]) - 1)
  BY <1>1, <1>2, UpperPop
<1>6. Local(SubSeq(stack[t], 1, Len(stack[t]) - 1), tls'[t], e, hit)
  BY <1>1, <1>3, <1>4, FiniReturns
<1>7. Local(stack'[t], tls'[t], fini = {}, hit)
  BY <1>5, <1>6 DEF e
<1> QED
  BY <1>1, <1>2, <1>4, <1>7, ByFini

(* A sample is stored.                                                     *)
LEMMA StoreSampleKeeps ==
  ASSUME Going, NEW t \in Threads, StoreSample(t)
  PROVE  Parts'
<1> DEFINE e == fini = {}
<1>1. /\ IInv /\ KInv /\ fault = "none" /\ Top(t) = "sampling" /\ hit \in BOOLEAN
      /\ Pop(t) /\ Leave(t) /\ tls' \in [Threads -> Locals]
      /\ \/ UseMaps(t)
         \/ stack[t][Len(stack[t]) - 1] \in Unguarded /\ fault' = "nested"
      /\ UNCHANGED <<child, threads, lock, pending, exiting, history, hit, odd, quiet, known>>
  BY DEF Going, KInv, Globals, StoreSample, set, signals, history
<1>2. Top(t) \in Upper
  BY <1>1, FiniNames
<1>3. /\ Guarded(stack[t], tls[t].in_tool) /\ tls[t] \in Locals /\ tls[t].in_tool \in BOOLEAN
      /\ stack[t][Len(stack[t])] = "sampling" /\ Local(stack[t], tls[t], e, hit) /\ e \in BOOLEAN
      /\ Len(stack[t]) \in Nat /\ Len(stack[t]) > 1 /\ (quiet => t = Main)
  BY <1>1, <1>2, Interrupted DEF Locals
<1> HIDE DEF e
<1>4. /\ SameLife(tls[t], tls'[t]) /\ tls'[t].unsafe = tls[t].unsafe /\ tls'[t] \in Locals
      /\ \A u \in Threads \ {t} : tls'[u] = tls[u]
  BY <1>1, InToolOnly
<1>5. stack'[t] = SubSeq(stack[t], 1, Len(stack[t]) - 1)
  BY <1>1, <1>2, UpperPop
<1>6. Local(SubSeq(stack[t], 1, Len(stack[t]) - 1), tls'[t], e, hit)
  BY <1>1, <1>3, <1>4, SampleReturns
<1>7. Local(stack'[t], tls'[t], fini = {}, hit')
  BY <1>1, <1>5, <1>6 DEF e
<1>8. /\ Above(t)
      /\ \A c : Deep(stack[t], c) => Deep(stack'[t], c)
  BY <1>1, <1>2, <1>4, UpperMoves
<1>9. Len(stack[t]) \in 1 .. Len(stack[t])
  BY <1>3
<1> DEFINE n == Len(stack[t])  r == stack'[t]
<1>10. /\ stack[t] \in Seq(Frames) /\ Len(r) = n - 1 /\ \A i \in 1 .. n - 1 : r[i] = stack[t][i]
       /\ r[Len(r)] = stack[t][n - 1]
  <2>1. stack[t] \in Seq(Frames)
    BY <1>3 DEF Guarded
  <2>2. Len(r) = n - 1 /\ \A i \in 1 .. n - 1 : r[i] = stack[t][i]
    BY <1>3, <1>5, <2>1, PopFrames
  <2> QED
    BY <1>3, <2>1, <2>2
<1> HIDE DEF r
<1>11. ASSUME ~hit
       PROVE  \/ tls[t].maps = "live"
              \/ n = 3 /\ stack[t][2] = "finiEnd" /\ ~MemoryCollect
  <2>1. /\ Alone(stack[t], tls[t]) /\ "sampling" \in Recording \cup Marking
        /\ "sampling" \in Recording
    BY <1>3, <1>11 DEF Local, Recording
  <2>2. \/ tls[t].maps = "live"
        \/ n > 2 /\ stack[t][2] = "finiEnd" /\ ~MemoryCollect
    BY <1>3, <1>9, <2>1 DEF Alone
  <2>3. n > 2 => n = 3
    <3> SUFFICES ASSUME n > 2, n # 3 PROVE FALSE
      OBVIOUS
    <3>1. 3 \in 1 .. n /\ 3 # n
      BY <1>3, BehindThird, Zenon
    <3>2. stack[t][3] \in Upper /\ stack[t][3] \notin Finalise
      BY <1>3, <2>1, <3>1 DEF Guarded, Alone
    <3>3. stack[t][3] = "sampling"
      BY <3>2 DEF Upper
    <3> QED
      BY <1>3, <1>9, <2>1, <3>1, <3>3 DEF Guarded
  <2> QED
    BY <2>2, <2>3
<1>12. fault' = "nested" => ~MemoryCollect
  <2> SUFFICES ASSUME fault' = "nested", MemoryCollect PROVE FALSE
    OBVIOUS
  <2>1. stack[t][n - 1] \in Unguarded
    BY <1>1 DEF UseMaps
  <2>2. Calm(stack[t]) /\ n \in 2 .. n
    BY <1>3 DEF Local, Shielded
  <2> QED
    BY <1>3, <2>1, <2>2 DEF Calm
<1>13. MemoryFaultsNeedSignals'
  <2>1. fault' # "doubleFree"
    BY <1>1 DEF UseMaps
  <2>2. ASSUME fault' = "freed", ~hit PROVE ~MemoryCollect /\ Top(t)' = "finiEnd"
    <3>1. tls[t].maps # "live"
      BY <1>1, <2>2 DEF UseMaps
    <3>2. n - 1 = 2 /\ stack[t][2] = "finiEnd" /\ ~MemoryCollect
      BY <1>11, <2>2, <3>1
    <3>3. Top(t)' = r[Len(r)]
      BY DEF Top, r
    <3> QED
      BY <1>10, <3>2, <3>3
  <2> QED
    BY <1>1, <1>12, <2>1, <2>2 DEF MemoryFaultsNeedSignals
<1>14. ASSUME quiet PROVE ~hit' /\ QuietExitIsClean' /\ Unsampled'
  <2>1. /\ t = Main /\ ~hit /\ Unsampled /\ Base(Main) \in Shutdown
        /\ fini = FiniOf(Base(Main)) /\ Alone(stack[t], tls[t]) /\ BaseInv
    BY <1>1, <1>3, <1>14 DEF KInv, QuietInv, BaseInv, Local
  <2>2. /\ Base(Main) \notin {"exitSet", "exited"}
        /\ stack[t][2] \notin {"finiFree", "finiEnd"}
    BY <1>3, <2>1 DEF Unsampled
  <2>3. tls[t].maps = "live" /\ "backend" \notin fini
    BY <1>11, <2>1, <2>2 DEF FiniOf
  <2>4. Unsampled'
    <3>1. Base(Main)' = Base(Main) /\ (Len(r) > 1 => r[2] = stack[t][2])
      BY <1>3, <1>8, <1>10, <2>1 DEF Above, Base
    <3> QED
      BY <2>1, <2>2, <3>1 DEF Unsampled, r
  <2>5. ASSUME fault' # "none" PROVE fault' = "nested" /\ Top(Main)' \in {"exitStore", "exitFini"}
    <3>1. stack[t][n - 1] \in Unguarded /\ fault' = "nested"
      BY <1>1, <2>3, <2>5 DEF UseMaps
    <3>2. n - 1 \in 1 .. n
      BY <1>3
    <3>3. n = 2
      <4> SUFFICES ASSUME n # 2 PROVE FALSE
        OBVIOUS
      <4>0. n - 1 # 1
        BY <1>3
      <4>1. stack[t][n - 1] \in Upper
        BY <1>3, <3>2, <4>0 DEF Guarded
      <4>2. stack[t][n - 1] = "finiFree"
        BY <3>1, <4>1, FiniNames DEF Unguarded
      <4>3. n - 1 = 2
        BY <2>1, <3>2, <4>2, FiniNames DEF Alone
      <4> QED
        BY <2>2, <4>2, <4>3
    <3>4. Base(Main) \in {"exitStore", "exitFini"}
      BY <2>1, <3>1, <3>3 DEF Base, Unguarded, Shutdown
    <3>5. Top(Main)' = Base(Main)
      BY <1>10, <2>1, <3>3 DEF Top, Base, r
    <3> QED
      BY <3>1, <3>4, <3>5
  <2> QED
    BY <1>1, <1>12, <2>1, <2>4, <2>5 DEF QuietExitIsClean
<1>15. fini = {} => ~hit'
  BY <1>1 DEF KInv, BaseInv
<1> QED
  BY <1>1, <1>7, <1>8, <1>13, <1>14, <1>15, ByAbove

(* Who runs and has not exited is in between.                              *)
LEMMA RunningBase ==
  ASSUME KInv, ~Gone, NEW t \in Threads, Running(t)
  PROVE  Base(t) \notin {"new", "dead", "exited"}
<1>1. Base(t) \in {"new", "dead", "exited"} => Top(t) = Base(t)
  BY TopIsBase DEF KInv, BaseInv
<1> QED
  BY <1>1 DEF Running, Gone

(* A sampling signal arrives.                                              *)
LEMMA BySample ==
  ASSUME Going, NEW t \in Threads, Running(t), PushSample(t),
         \A w \in Workers : "exit" \in pending'[w] => "exit" \in pending[w],
         UNCHANGED <<child, threads, lock, timer, exiting, history>>,
         fault' \notin {"freed", "doubleFree", "nested"},
         quiet => timer /\ fault' = "none"
  PROVE  Parts'
<1> DEFINE e == fini = {}
<1>1. /\ IInv /\ KInv /\ fault = "none" /\ hit \in BOOLEAN /\ ~Gone
      /\ tls' \in [Threads -> Locals] /\ hit' = hit /\ fini' = fini
      /\ UNCHANGED <<odd, quiet, known>>
  BY DEF Going, KInv, Globals, history, exiting
<1>2. Base(t) \notin {"new", "dead", "exited"}
  BY <1>1, RunningBase
<1>3. /\ Guarded(stack[t], tls[t].in_tool) /\ tls[t] \in Locals /\ tls[t].in_tool \in BOOLEAN
      /\ Local(stack[t], tls[t], e, hit) /\ e \in BOOLEAN
  BY <1>1 DEF KInv, IInv, LocalInv, Locals
<1>4. quiet => t = Main /\ ~hit /\ Unsampled /\ QuietExitIsClean'
  BY <1>1, <1>2, Apart DEF KInv, QuietInv, QuietExitIsClean
<1>14. MemoryFaultsNeedSignals'
  BY SoundFaults
<1>5. fini = {} => ~hit'
  BY <1>1 DEF KInv, BaseInv
<1> HIDE DEF e
<1>6. CASE Guard(t)
  <2>1. Push(t, "sampling") /\ Enter(t) /\ tls[t].initialized /\ ~tls[t].unsafe
    BY <1>6 DEF PushSample, Guard
  <2>2. "sampling" \in Frames /\ "sampling" \notin Finalise
    BY FrameKinds, FiniNames
  <2>3. stack'[t] = Append(stack[t], "sampling") /\ stack'[t][1] = Base(t) /\ Others(t)
    BY <1>1, <2>1, <2>2, UpperPush
  <2>4. /\ SameLife(tls[t], tls'[t]) /\ tls'[t].unsafe = tls[t].unsafe /\ tls'[t] \in Locals
        /\ \A u \in Threads \ {t} : tls'[u] = tls[u]
    BY <1>1, <2>1, InToolOnly
  <2>5. Local(Append(stack[t], "sampling"), tls'[t], e, hit)
    <3> DEFINE s == stack[t]  l == tls[t]  m == tls'[t]  b == l.in_tool
    <3>1. /\ b \in BOOLEAN /\ Guarded(s, b) /\ l \in Locals /\ m \in Locals
          /\ e \in BOOLEAN /\ hit \in BOOLEAN /\ Local(s, l, e, hit)
      BY <1>1, <1>3, <2>4
    <3>2. l.initialized /\ ~l.unsafe /\ SameLife(l, m) /\ m.unsafe = l.unsafe
      BY <2>1, <2>4
    <3> HIDE DEF s, l, m, b
    <3>3. Local(Append(s, "sampling"), m, e, hit)
      BY <3>1, <3>2, SampleEnters
    <3> QED
      BY <3>3 DEF s, m
  <2>6. Local(stack'[t], tls'[t], fini = {}, hit')
    BY <1>1, <2>3, <2>5 DEF e
  <2>7. ASSUME NEW c, Deep(stack[t], c) PROVE Deep(stack'[t], c)
    <3> DEFINE s == stack[t]  r == Append(s, "sampling")
    <3>1. Deep(s, FALSE) => Deep(r, FALSE)
      BY <1>3, <2>2, DeepPush
    <3>2. Deep(s, TRUE) => Deep(r, TRUE)
      BY <1>3, <2>2, DeepPush
    <3> HIDE DEF s, r
    <3>3. Deep(s, c)
      BY <2>7 DEF s
    <3>4. Deep(r, c)
      <4>1. CASE c
        BY <3>2, <3>3, <4>1 DEF Deep
      <4>2. CASE ~c
        BY <3>1, <3>3, <4>2 DEF Deep
      <4> QED
        BY <4>1, <4>2
    <3> QED
      BY <2>3, <3>4 DEF s, r
  <2>8. Base(t) # "plain"
    <3>1. Unstarted(stack[t], tls[t])
      BY <1>3 DEF Local
    <3> QED
      BY <2>1, <3>1 DEF Unstarted, Base, Unborn
  <2>9. Above(t)
    BY <1>1, <1>2, <2>3, <2>4, <2>8 DEF Above
  <2>10. ASSUME quiet PROVE Unsampled'
    <3> DEFINE s == stack[t]  r == stack'[t]
    <3>1. t = Main /\ ~hit /\ Unsampled /\ timer
      BY <1>4, <2>10
    <3>2. s \in Seq(Frames) /\ Len(s) \in Nat /\ Len(s) > 0
      BY <1>1, TopIsBase
    <3>3. r = Append(s, "sampling")
      BY <2>3
    <3>4. Base(Main) \notin {"exitSet", "exited"}
      <4> SUFFICES ASSUME Base(Main) \in {"exitSet", "exited"} PROVE FALSE
        OBVIOUS
      <4>1. Top(t) = Base(Main) /\ Base(Main) \notin Upper
        BY <1>1, <3>1, TopIsBase DEF Unsampled
      <4>2. Base(Main) \in Closed
        BY DEF Closed
      <4> QED
        BY <1>1, <2>1, <3>1, <4>1, <4>2, Undisturbed
    <3>5. Len(s) > 1 => s[2] \notin {"finiFree", "finiEnd"}
      BY <3>1 DEF Unsampled
    <3>6. r[1] = s[1] /\ r[2] \notin {"finiFree", "finiEnd"}
      <4>1. "sampling" \notin {"finiFree", "finiEnd"} /\ "sampling" \in Frames
        BY <2>2
      <4> HIDE DEF s, r
      <4> QED
        BY <3>2, <3>3, <3>5, <4>1, PushSecond, Zenon
    <3> QED
      BY <2>3, <3>1, <3>4, <3>6 DEF Unsampled, Base
  <2> QED
    BY <1>1, <1>4, <1>5, <1>14, <2>6, <2>7, <2>9, <2>10, ByAbove
<1>7. CASE ~Guard(t)
  <2>1. UNCHANGED <<stack, tls>>
    BY <1>7 DEF PushSample
  <2>2. Above(t)
    BY <1>1, <1>2, <2>1 DEF Above, Others, Base
  <2>3. Local(stack'[t], tls'[t], fini = {}, hit')
    BY <1>1, <1>3, <2>1 DEF e
  <2>4. \A c : Deep(stack[t], c) => Deep(stack'[t], c)
    BY <2>1
  <2>5. quiet => Unsampled'
    BY <1>4, <2>1 DEF Unsampled, Base
  <2> QED
    BY <1>1, <1>4, <1>5, <1>14, <2>2, <2>3, <2>4, <2>5, ByAbove
<1> QED
  BY <1>6, <1>7

LEMMA SamplesKeep ==
  ASSUME Going,
         (\E t \in Threads : Timer(t)) \/ \E w \in Workers : DeliverSample(w)
  PROVE  Parts'
<1>1. KInv /\ fault = "none" /\ ~Gone /\ Globals
  BY DEF Going, KInv
<1>2. ASSUME NEW t \in Threads, Timer(t) PROVE Parts'
  <2>1. /\ Running(t) /\ PushSample(t) /\ timer
        /\ UNCHANGED <<child, threads, lock, timer, exiting, history>>
    BY <1>2 DEF Timer, set
  <2>2. \A w \in Workers : "exit" \in pending'[w] => "exit" \in pending[w]
    BY <1>2 DEF Timer
  <2>3. fault' \notin {"freed", "doubleFree", "nested"}
    BY <1>2 DEF Timer
  <2>4. quiet => timer /\ fault' = "none"
    BY <1>1, <1>2 DEF Timer, KInv, QuietInv
  <2> QED
    BY <2>1, <2>2, <2>3, <2>4, BySample
<1>3. ASSUME NEW w \in Workers, DeliverSample(w) PROVE Parts'
  <2>1. /\ Running(w) /\ PushSample(w) /\ w \in Threads
        /\ UNCHANGED <<child, threads, lock, timer, exiting, history>>
    BY <1>3, Apart DEF DeliverSample, set
  <2>2. \A u \in Workers : "exit" \in pending'[u] => "exit" \in pending[u]
    BY <1>1, <1>3 DEF DeliverSample, Globals
  <2>3. fault' \notin {"freed", "doubleFree", "nested"}
    BY <1>3 DEF DeliverSample
  <2>4. ~quiet
    <3>1. Base(w) \notin {"new", "dead"}
      BY <1>1, <2>1, RunningBase
    <3> QED
      BY <1>1, <3>1 DEF KInv, QuietInv
  <2> QED
    BY <2>1, <2>2, <2>3, <2>4, BySample
<1> QED
  BY <1>2, <1>3

(* The exit signal arrives.                                                *)
LEMMA DeliverExitKeeps ==
  ASSUME Going, NEW w \in Workers, DeliverExit(w)
  PROVE  Parts'
<1>1. /\ IInv /\ KInv /\ Globals /\ fault = "none" /\ hit \in BOOLEAN /\ ~Gone /\ w \in Threads
      /\ tls' \in [Threads -> Locals] /\ hit' \in BOOLEAN
      /\ Push(w, "fini") /\ Running(w) /\ "exit" \in pending[w]
      /\ pending' = [pending EXCEPT ![w] = @ \ {"exit"}]
      /\ (hit' <=> hit \/ Top(w) \in Tool)
      /\ UNCHANGED <<tls, child, threads, lock, exiting, fini, fault, odd, quiet, known>>
  BY Apart DEF Going, KInv, Globals, DeliverExit, locals, set, exiting
<1>2. Base(w) \notin {"new", "dead", "exited"}
  BY <1>1, RunningBase
<1>3. ~quiet
  BY <1>1, <1>2 DEF KInv, QuietInv
<1>4. ~Await(w) /\ Deep(stack[w], TRUE)
  <2>1. /\ Deep(stack[w], Await(w) \/ "exit" \in pending[w])
        /\ "exit" \in pending[w] => ~Await(w)
    BY <1>1 DEF KInv, DepthInv
  <2> QED
    BY <1>1, <2>1 DEF Deep
<1>5. fini # {}
  BY <1>4 DEF Await
<1>6. "fini" \in Frames /\ "fini" \in Finalise
  BY FrameKinds, FiniNames
<1>7. stack'[w] = Append(stack[w], "fini") /\ stack'[w][1] = Base(w) /\ Others(w)
  BY <1>1, <1>6, UpperPush
<1>8. /\ Guarded(stack[w], tls[w].in_tool) /\ tls[w] \in Locals /\ tls[w].in_tool \in BOOLEAN
      /\ Local(stack[w], tls[w], FALSE, hit)
      /\ Top(w) = stack[w][Len(stack[w])] /\ Top(w) \notin {"new", "dead"}
  BY <1>1 DEF KInv, IInv, LocalInv, Locals, Local, Top, Running
<1>9. Local(Append(stack[w], "fini"), tls[w], FALSE, hit')
  BY <1>1, <1>8, ExitArrives
<1>10. Local(stack'[w], tls'[w], fini = {}, hit')
  BY <1>1, <1>5, <1>7, <1>9
<1>11. Deep(Append(stack[w], "fini"), FALSE)
  BY <1>4, <1>6, <1>8, DeepPush
<1>12. "exit" \notin pending'[w] /\ \A u \in Workers : "exit" \in pending'[u] => "exit" \in pending[u]
  BY <1>1 DEF Globals
<1>13. Above(w)
  BY <1>1, <1>2, <1>7, <1>12 DEF Above
<1>14. MemoryFaultsNeedSignals'
  BY <1>1, SoundFaults
<1> QED
  BY <1>1, <1>3, <1>4, <1>5, <1>7, <1>10, <1>11, <1>12, <1>13, <1>14, ByAbove

-----------------------------------------------------------------------------
(* The steps of the shutdown.                                              *)
Stages(t, from, to) ==
  /\ from \in Shutdown /\ to \in Shutdown \ {"exitMark"} /\ Top(t) = from
  /\ Others(t) /\ stack'[t][1] = to
  /\ UNCHANGED <<child, threads, lock, history>>
  /\ \A u \in Threads \ {t} : tls'[u] = tls[u]
  /\ fini' = FiniOf(to)
  /\ to = "exitKill" /\ cursor' # End =>
       from = "exitMark" \/ (from = "exitKill" /\ cursor # End /\ cursor <= cursor')
  /\ to = "exited" => fault' = "none" /\ Len(stack'[t]) = 1
  /\ Sound(hit) /\ Stays(from, tls[t], tls'[t])
  /\ quiet => fault' = "none" /\ cursor' = End

(* The threads to which the step sends the exit signal; those it has       *)
(* awaited.                                                                *)
Sends(w)  == /\ Await(w) /\ ~Await(w)'
             /\ fault' = "none" => w \in threads
Awaits(w) == Awaited(w)' => Awaited(w) \/ Base(w) = "dead"

LEMMA ByStages ==
  ASSUME Going, NEW t \in Threads, NEW from, NEW to, Stages(t, from, to),
         Local(stack'[t], tls'[t], fini' = {}, hit'),
         \A c : Deep(stack'[t], c),
         \/ Len(stack'[t]) = 1
         \/ to = "exitBackend" /\ Len(stack'[t]) = 2 /\ stack'[t][2] = "fini",
         \A w \in Workers : "exit" \in pending'[w] => "exit" \in pending[w] \/ Sends(w),
         t = Main /\ fault' = "none" => \A w \in known \cap threads : Awaits(w)
  PROVE  Parts'
<1>1. /\ IInv /\ KInv /\ Globals /\ Globals' /\ BaseInv /\ SetInv /\ QuietInv /\ KnownInv
      /\ LocalInv /\ DepthInv /\ fault = "none" /\ tls' \in [Threads -> Locals]
      /\ \A u \in Threads : Base(u) # "exited"
  BY NoneExited DEF Going, KInv
<1>2. /\ from \in Shutdown /\ to \in Shutdown /\ from \notin Upper /\ from \notin Idle
      /\ to \notin Idle /\ to # "exitMark" /\ from \notin Creating /\ to \notin Creating
  BY FiniNames DEF Stages, Shutdown, Idle, Creating
<1>3. Base(t) = from /\ stack'[t][1] = to /\ Others(t)
  BY <1>1, <1>2, TopIsBase DEF Stages
<1>4. UNCHANGED <<child, threads, lock, hit, odd, quiet, known>>
  BY DEF Stages, history
<1>5. Same({t}) /\ {t} \in SUBSET Threads
  BY <1>3, <1>4 DEF Same, Others, Stages
<1>6. fini # {} /\ fini' # {}
  <2>1. fini = FiniOf(from) /\ fini' = FiniOf(to)
    BY <1>1, <1>2, <1>3 DEF BaseInv, Stages
  <2> QED
    BY <2>1 DEF FiniOf
<1>7. \A u \in Threads \ {t} : Base(u) \notin Shutdown /\ stack'[u][1] \notin Shutdown
  BY <1>1, <1>2, <1>3 DEF BaseInv, Others, Base
<1>8. LocalInv'
  BY <1>1, <1>4, <1>5, <1>6, LocalStep
<1>9. DepthInv'
  <2>1. cursor \in Nat /\ cursor' \in Nat
    BY <1>1, Apart DEF Globals
  <2>2. \A u \in Threads : stack'[u][1] # "exitMark"
    BY <1>2, <1>3, <1>7 DEF Shutdown
  <2>3. \A u \in Threads : stack'[u][1] = "exitKill" /\ cursor' # End =>
          \/ Base(u) = "exitMark" \/ fini = {}
          \/ Base(u) = "exitKill" /\ cursor # End /\ cursor <= cursor'
    BY <1>3, <1>7 DEF Shutdown, Stages
  <2>4. \A w \in Workers : Await(w)' => Await(w)
    BY <1>6, <2>1, <2>2, <2>3, AwaitFades, Apart
  <2> QED
    BY <1>1, <1>3, <1>5, <2>4, DepthStep DEF Others, Sends
<1>10. BaseInv'
  <2>1. \A u \in {t} : BaseFits(u)
    <3>1. /\ to # "new" /\ to # "dead" /\ to \notin Creating \cup {"join", "wait"}
          /\ to \in Recording \cup Shutdown \cup {"run", "wait"}
          /\ fini' = FiniOf(to) /\ Base(t) \in Shutdown
          /\ to = "exited" => fault' = "none" /\ Len(stack'[t]) = 1
      BY <1>2, <1>3 DEF Shutdown, Creating, Stages
    <3> QED
      BY <1>3, <3>1 DEF BaseFits
  <2>2. \A u, v \in {t} : stack'[u][1] \in Shutdown /\ stack'[v][1] \in Shutdown => u = v
    OBVIOUS
  <2>3. lock' = Free \/ (lock' = lock /\ lock \notin {t})
    BY <1>1, <1>2, <1>3, <1>4 DEF BaseInv, Shutdown
  <2>4. MemoryFaultsNeedSignals'
    BY <1>4, SoundFaults DEF Stages
  <2>5. \E u \in {t} : Base(u) \in Shutdown
    BY <1>2, <1>3
  <2>6. fini' = {} => fini = {} /\ ~hit' /\ cursor' = cursor
    BY <1>6
  <2> QED
    BY <1>1, <1>5, <2>1, <2>2, <2>3, <2>4, <2>5, <2>6, BaseKeeps
<1>11. SetInv'
  <2>1. \A u \in {t} : stack'[u][1] \notin Idle /\ Base(u) \notin Idle /\ Base(u) \notin Creating
    BY <1>2, <1>3
  <2>2. \A w \in Workers \ threads' :
          /\ fault' = "none" /\ stack'[w][1] = "plain"
          /\ Len(stack'[w]) > 1 \/ "exit" \in pending'[w]
          => Base(w) = "plain" /\ (Len(stack[w]) > 1 \/ "exit" \in pending[w])
    <3> SUFFICES ASSUME NEW w \in Workers, w \notin threads', fault' = "none",
                        stack'[w][1] = "plain",
                        Len(stack'[w]) > 1 \/ "exit" \in pending'[w]
                 PROVE  Base(w) = "plain" /\ (Len(stack[w]) > 1 \/ "exit" \in pending[w])
      OBVIOUS
    <3>1. w # t /\ stack'[w] = stack[w]
      BY <1>2, <1>3, Apart DEF Idle, Others
    <3>2. "exit" \in pending'[w] => "exit" \in pending[w]
      BY <1>4 DEF Sends
    <3> QED
      BY <3>1, <3>2 DEF Base
  <2>3. \A w \in threads' :
          \/ w \in odd' \/ stack'[w][1] \notin Idle
          \/ w \in threads /\ w \notin {t} /\ (w \in odd => w \in odd')
    BY <1>4, <2>1
  <2> QED
    BY <1>1, <1>4, <1>5, <2>1, <2>2, <2>3, SetKeeps
<1>12. QuietInv'
  <2> SUFFICES ASSUME quiet
               PROVE  /\ threads' = {} /\ lock' = Free /\ ~hit' /\ cursor' = End /\ fault' = "none"
                      /\ \A w \in Workers : stack'[w][1] \in {"new", "dead"}
                      /\ stack'[Main][1] \in Shutdown /\ Unsampled'
    BY <1>4 DEF QuietInv, QuietExitIsClean, Base
  <2>1. /\ threads = {} /\ lock = Free /\ ~hit /\ \A w \in Workers : Base(w) \in {"new", "dead"}
        /\ Base(Main) \in Shutdown
    BY <1>1 DEF QuietInv
  <2>2. t = Main
    BY <1>7, <2>1, Apart
  <2>3. fault' = "none" /\ cursor' = End
    BY DEF Stages
  <2>4. Unsampled'
    BY <1>3, <2>2 DEF Unsampled, Base
  <2> QED
    BY <1>2, <1>3, <1>4, <2>1, <2>2, <2>3, <2>4, Apart DEF Others, Base
<1>13. KnownInv'
  <2>1. ASSUME fault' = "none"
        PROVE  \A w \in known' \cap threads : Awaited(w)' => Awaited(w) \/ stack'[w][1] = "dead"
    <3>1. CASE t = Main
      <4>1. ASSUME NEW w \in known \cap threads, Awaited(w)'
            PROVE  Awaited(w) \/ stack'[w][1] = "dead"
        <5>1. Awaited(w) \/ Base(w) = "dead"
          BY <2>1, <3>1, <4>1 DEF Awaits
        <5>2. w \in Threads /\ w # t
          BY <1>1, <3>1, Apart DEF Globals
        <5> QED
          BY <1>3, <5>1, <5>2 DEF Others, Base
      <4> QED
        BY <1>4, <4>1
    <3>2. CASE t # Main
      <4>1. stack'[Main][1] \notin Shutdown
        BY <1>7, <3>2, Apart
      <4>2. \A w : ~Awaited(w)'
        BY <4>1 DEF Awaited, Base, Shutdown
      <4> QED
        BY <4>2
    <3> QED
      BY <3>1, <3>2
  <2>2. Base(t) # "dead"
    BY <1>2, <1>3 DEF Idle
  <2> QED
    BY <1>1, <1>4, <1>5, <2>1, <2>2, KnownKeeps
<1> QED
  BY <1>8, <1>9, <1>10, <1>11, <1>12, <1>13 DEF Parts

LEMMA ByStage ==
  ASSUME Going, NEW t \in Threads, NEW from, NEW to, Stages(t, from, to),
         stack'[t] = <<to>>, SameLife(tls[t], tls'[t]),
         to \in Marking => from \in Marking, to \in Closed => from \in Closed,
         \A w \in Workers : "exit" \in pending'[w] => "exit" \in pending[w] \/ Sends(w),
         t = Main /\ fault' = "none" => \A w \in known \cap threads : Awaits(w)
  PROVE  Parts'
<1>1. KInv /\ tls' \in [Threads -> Locals] /\ hit' = hit /\ Top(t) = from
  BY DEF Going, Stages, history
<1>2. /\ from \notin Upper /\ to \notin Upper \cup Finalise /\ to # "sampling"
      /\ to \notin Unborn /\ to \notin Recording \cup {"run", "wait"}
  BY FiniNames DEF Stages, Shutdown, Unborn, Recording
<1>3. fini' # {}
  BY DEF Stages, FiniOf
<1>4. Local(<<to>>, tls'[t], fini' = {}, hit')
  BY <1>1, <1>2, <1>3, LocalMoves DEF Stages
<1>5. \A c : Deep(<<to>>, c)
  BY <1>2, DeepOne
<1>6. Len(<<to>>) = 1
  OBVIOUS
<1> QED
  BY <1>4, <1>5, <1>6, ByStages

LEMMA Staying ==
  ASSUME UNCHANGED <<stack, tls>>, NEW t \in Threads
  PROVE  Others(t) /\ stack'[t] = stack[t] /\ \A u \in Threads \ {t} : tls'[u] = tls[u]
  BY DEF Others

(* What quietness, and the stage, say of the shared state.                 *)
LEMMA AtStage ==
  ASSUME Going, NEW t \in Threads, NEW from \in Shutdown, Top(t) = from
  PROVE  /\ stack[t] = <<from>> /\ Base(t) = from /\ fini = FiniOf(from)
         /\ quiet => t = Main /\ threads = {} /\ lock = Free /\ cursor = End
         /\ ~hit /\ from \in Marking => tls[t].maps = "live"
         /\ \A u \in Threads \ {t} : Base(u) \notin Shutdown
<1>1. IInv /\ KInv /\ BaseInv /\ QuietInv /\ from \notin Upper
  BY FiniNames DEF Going, KInv, Shutdown
<1>2. stack[t] = <<from>> /\ Base(t) = from
  BY <1>1, TopIsBase
<1>3. fini = FiniOf(from) /\ \A u \in Threads \ {t} : Base(u) \notin Shutdown
  BY <1>1, <1>2 DEF BaseInv
<1>4. ~hit /\ from \in Marking => tls[t].maps = "live"
  BY <1>1, Undisturbed
<1>5. quiet => t = Main
  BY <1>1, <1>3, Apart DEF QuietInv
<1> QED
  BY <1>1, <1>2, <1>3, <1>4, <1>5 DEF QuietInv

LEMMA ExitMarkKeeps ==
  ASSUME Going, NEW t \in Threads, ExitMark(t)
  PROVE  Parts'
<1>1. /\ KInv /\ IInv /\ Globals /\ fault = "none" /\ Top(t) = "exitMark"
      /\ Goto(t, "exitMark", "exitKill") /\ cursor' = Next1(End) /\ UseSet(t, "none")
      /\ tls' = [tls EXCEPT ![t].unsafe = TRUE]
      /\ UNCHANGED <<child, threads, lock, pending, fini, history>>
  BY DEF Going, KInv, ExitMark, Goto, set, signals
<1>2. /\ Base(t) = "exitMark" /\ fini = FiniOf("exitMark")
      /\ quiet => threads = {} /\ lock = Free
  BY <1>1, AtStage DEF Shutdown
<1>3. stack'[t] = <<"exitKill">> /\ stack'[t][1] = "exitKill" /\ Others(t)
  BY <1>1, BaseGoto, FiniNames
<1>4. /\ SameLife(tls[t], tls'[t]) /\ tls'[t].unsafe
      /\ \A u \in Threads \ {t} : tls'[u] = tls[u]
  BY <1>1 DEF SameLife, IInv, Locals
<1>5. quiet => fault' = "none" /\ cursor' = End
  <2>1. End \in Threads
    BY Apart DEF End, Main
  <2>2. quiet => cursor' = End
    BY <1>1, <1>2, <2>1, NextIsNext
  <2>3. "set" \notin fini
    BY <1>2 DEF FiniOf
  <2> QED
    BY <1>1, <1>2, <2>2, <2>3 DEF UseSet
<1>6. FiniOf("exitKill") = FiniOf("exitMark")
  BY DEF FiniOf
<1>7. Stages(t, "exitMark", "exitKill")
  BY <1>1, <1>2, <1>3, <1>4, <1>5, <1>6 DEF Stages, Stays, Shutdown, UseSet
<1>8. t = Main => \A w : Awaits(w)
  BY <1>3 DEF Awaits, Awaited, Base
<1> QED
  BY <1>1, <1>3, <1>4, <1>7, <1>8, ByStage DEF Marking, Closed

LEMMA ExitKillKeeps ==
  ASSUME Going, NEW t \in Threads, ExitKill(t)
  PROVE  Parts'
<1>1. /\ KInv /\ IInv /\ Globals /\ fault = "none" /\ Top(t) = "exitKill" /\ cursor # End
      /\ cursor' = Next1(cursor) /\ cursor \in Threads
      /\ Sound(hit) /\ (fault' = "none" => cursor \in threads)
      /\ \E p : pending' = [pending EXCEPT ![cursor] = p]
      /\ UNCHANGED <<stack, tls, child, threads, lock, fini, history>>
  BY DEF Going, KInv, ExitKill, set, locals, UseSet, Globals
<1>2. /\ Base(t) = "exitKill" /\ stack[t] = <<"exitKill">> /\ fini = FiniOf("exitKill")
      /\ ~quiet /\ \A u \in Threads \ {t} : Base(u) \notin Shutdown
  BY <1>1, AtStage DEF Shutdown
<1>3. SameLife(tls[t], tls'[t]) /\ tls'[t].unsafe = tls[t].unsafe
  BY <1>1, SameLocals
<1>4. cursor' # End => cursor <= cursor' /\ ~(cursor' <= cursor)
  <2>1. cursor \in Nat /\ cursor' \in Nat
    BY <1>1, NextIsNext, Apart
  <2>2. cursor' # End => cursor' > cursor
    BY <1>1, NextIsNext
  <2> QED
    BY <2>1, <2>2
<1>5. Stages(t, "exitKill", "exitKill")
  <2>1. Others(t) /\ stack'[t][1] = "exitKill" /\ \A u \in Threads \ {t} : tls'[u] = tls[u]
    <3>1. UNCHANGED <<stack, tls>>
      BY <1>1
    <3>2. stack'[t][1] = "exitKill"
      BY <1>2, <3>1 DEF Base
    <3> QED
      BY <3>1, <3>2, Staying
  <2> QED
    BY <1>1, <1>2, <1>3, <1>4, <2>1 DEF Stages, Stays, Shutdown
<1>6. ASSUME NEW w, w = cursor PROVE Sends(w)
  <2>1. w \in Nat /\ w <= w
    <3>1. w \in Threads
      BY <1>1, <1>6
    <3>2. w \in Nat
      BY <3>1, Apart
    <3> QED
      BY <3>2
  <2>2. Await(w)
    BY <1>1, <1>2, <1>6, <2>1 DEF Await
  <2>3. fini' # {}
    BY <1>1, <1>2 DEF FiniOf
  <2>4. \A u \in Threads : stack'[u][1] \in {"exitMark", "exitKill"} =>
          u = t /\ stack'[u][1] = "exitKill"
    BY <1>1, <1>2 DEF Base, Shutdown
  <2>5. cursor' # End => ~(cursor' <= w)
    BY <1>4, <1>6
  <2>6. ~Await(w)'
    BY <2>3, <2>4, <2>5 DEF Await, Base
  <2> QED
    BY <1>1, <1>6, <2>2, <2>6 DEF Sends
<1>7. \A w \in Workers : "exit" \in pending'[w] => "exit" \in pending[w] \/ Sends(w)
  BY <1>1, <1>6 DEF Globals
<1>8. t = Main => \A w : Awaits(w)
  BY <1>1, <1>2 DEF Awaits, Awaited, Base
<1> QED
  BY <1>1, <1>2, <1>3, <1>5, <1>7, <1>8, ByStage DEF Marking, Closed

(* The iterations reach all threads of the set.                            *)
LEMMA ExitKilledKeeps ==
  ASSUME Going, NEW t \in Threads, ExitKilled(t)
  PROVE  Parts'
<1>1. /\ KInv /\ IInv /\ Globals /\ fault = "none" /\ Top(t) = "exitKill" /\ cursor = End
      /\ Goto(t, "exitKill", "exitJoin") /\ cursor' = Next1(End) /\ UseSet(t, "none")
      /\ UNCHANGED <<tls, child, threads, lock, pending, fini, history>>
  BY DEF Going, KInv, ExitKilled, Goto, set, signals, locals
<1>2. /\ Base(t) = "exitKill" /\ fini = FiniOf("exitKill")
      /\ quiet => threads = {} /\ lock = Free
  BY <1>1, AtStage DEF Shutdown
<1>3. stack'[t] = <<"exitJoin">> /\ stack'[t][1] = "exitJoin" /\ Others(t)
  BY <1>1, BaseGoto, FiniNames
<1>4. SameLife(tls[t], tls'[t]) /\ tls'[t].unsafe = tls[t].unsafe
  BY <1>1, SameLocals
<1>5. /\ cursor' # End => cursor' \in threads
      /\ \A w \in threads : cursor' # End /\ ~(w < cursor')
  <2>1. End \in Threads
    BY Apart DEF End, Main
  <2>2. /\ cursor' # End => cursor' \in threads
        /\ \A w \in threads : w > End => cursor' # End /\ cursor' <= w
    BY <1>1, <2>1, NextIsNext
  <2>3. threads \subseteq Nat \ {0} /\ cursor' \in Nat
    BY <1>1, <2>1, NextIsNext, Apart DEF Globals
  <2>4. \A w \in threads : w > End
    BY <2>3 DEF End
  <2>5. \A w \in threads : cursor' # End /\ cursor' <= w
    BY <2>2, <2>4
  <2> QED
    BY <2>2, <2>3, <2>5
<1>6. quiet => fault' = "none" /\ cursor' = End
  <2>1. "set" \notin fini
    BY <1>2 DEF FiniOf
  <2> QED
    BY <1>1, <1>2, <1>5, <2>1 DEF UseSet
<1>7. FiniOf("exitJoin") = FiniOf("exitKill")
  BY DEF FiniOf
<1>8. Stages(t, "exitKill", "exitJoin")
  BY <1>1, <1>2, <1>3, <1>4, <1>6, <1>7 DEF Stages, Stays, Shutdown, UseSet
<1>9. t = Main => \A w \in known \cap threads : Awaits(w)
  BY <1>3, <1>5 DEF Awaits, Awaited, Base
<1> QED
  BY <1>1, <1>3, <1>4, <1>8, <1>9, ByStage DEF Marking, Closed

LEMMA ExitJoinKeeps ==
  ASSUME Going, NEW t \in Threads, ExitJoin(t)
  PROVE  Parts'
<1>1. /\ KInv /\ IInv /\ Globals /\ BaseInv /\ fault = "none" /\ Top(t) = "exitJoin"
      /\ cursor # End /\ cursor' = Next1(cursor) /\ cursor \in Threads
      /\ \/ Top(cursor) = "dead" \/ reap[cursor] # "joinable" \/ cursor = t \/ Waits(cursor, t)
      /\ Sound(hit)
      /\ fault' = "none" => cursor \in threads /\ reap[cursor] = "joinable"
      /\ UNCHANGED <<stack, tls, child, threads, lock, pending, fini, history>>
  BY DEF Going, KInv, ExitJoin, set, signals, UseSet, Globals
<1>2. /\ Base(t) = "exitJoin" /\ stack[t] = <<"exitJoin">> /\ fini = FiniOf("exitJoin") /\ ~quiet
  BY <1>1, AtStage DEF Shutdown
<1>3. SameLife(tls[t], tls'[t]) /\ tls'[t].unsafe = tls[t].unsafe
  BY <1>1, SameLocals
<1>4. Stages(t, "exitJoin", "exitJoin")
  <2>1. Others(t) /\ stack'[t][1] = "exitJoin" /\ \A u \in Threads \ {t} : tls'[u] = tls[u]
    <3>1. UNCHANGED <<stack, tls>>
      BY <1>1
    <3>2. stack'[t][1] = "exitJoin"
      BY <1>2, <3>1 DEF Base
    <3> QED
      BY <3>1, <3>2, Staying
  <2> QED
    BY <1>1, <1>2, <1>3, <2>1 DEF Stages, Stays, Shutdown
<1>5. ASSUME t = Main, fault' = "none", NEW w \in known \cap threads, Awaited(w)'
      PROVE  Awaited(w) \/ Base(w) = "dead"
  <2>1. w \in Nat /\ cursor \in Nat /\ cursor' \in Nat
    <3>1. w \in Threads /\ cursor' \in Threads
      BY <1>1, Apart, NextIsNext DEF Globals
    <3> QED
      BY <1>1, <3>1, Apart
  <2>2. w > cursor => cursor' # End /\ cursor' <= w
    BY <1>1, NextIsNext
  <2>3. cursor' = End \/ w < cursor'
    BY <1>2, <1>5, <1>1 DEF Awaited, Base
  <2>4. ~(w > cursor)
    BY <2>1, <2>2, <2>3
  <2>5. CASE w < cursor
    BY <1>2, <1>5, <2>5 DEF Awaited
  <2>6. CASE w = cursor
    <3>1. cursor # t
      BY <1>1, <1>5 DEF End, Main
    <3>2. ~Waits(cursor, t)
      <4>1. Top(cursor) \in {"join", "wait"} => Base(cursor) = Top(cursor)
        BY <1>1, TopIsBase, FiniNames
      <4>2. Base(cursor) \in {"join", "wait"} => child[cursor] \in Workers
        BY <1>1 DEF BaseInv
      <4> QED
        BY <1>5, <4>1, <4>2, Apart DEF Waits
    <3>3. Top(cursor) = "dead"
      BY <1>1, <1>5, <3>1, <3>2
    <3>4. Base(cursor) = "dead"
      BY <1>1, <3>3, TopIsBase, FiniNames
    <3> QED
      BY <2>6, <3>4
  <2> QED
    BY <2>1, <2>4, <2>5, <2>6
<1>6. t = Main /\ fault' = "none" => \A w \in known \cap threads : Awaits(w)
  BY <1>5 DEF Awaits
<1> QED
  BY <1>1, <1>2, <1>3, <1>4, <1>6, ByStage DEF Marking, Closed

(* The steps after the last iteration.                                     *)
LEMMA LaterStages ==
  ASSUME Going, NEW t \in Threads, NEW from \in Shutdown, NEW to \in Shutdown \ {"exitMark"},
         Goto(t, from, to), UNCHANGED <<child, threads, lock, pending, cursor, history>>,
         SameLife(tls[t], tls'[t]), \A u \in Threads \ {t} : tls'[u] = tls[u],
         MemoryCollect => tls'[t].unsafe = tls[t].unsafe,
         fini' = FiniOf(to), to \notin {"exitKill", "exitJoin"},
         from = "exitJoin" => cursor = End,
         from \notin {"exitMark", "exitKill"},
         to \in Marking => from \in Marking, to \in Closed => from \in Closed,
         to = "exited" => fault' = "none",
         Sound(hit),
         quiet => fault' = "none"
  PROVE  Parts'
<1>1. KInv /\ IInv /\ Top(t) = from /\ from \notin Upper
  BY FiniNames DEF Going, KInv, Goto, Shutdown
<1>2. Base(t) = from /\ (quiet => cursor = End)
  BY <1>1, AtStage
<1>3. stack'[t] = <<to>> /\ stack'[t][1] = to /\ Others(t) /\ Len(stack'[t]) = 1
  BY <1>1, BaseGoto
<1>5. Stages(t, from, to)
  BY <1>1, <1>2, <1>3 DEF Stages, Stays
<1>6. t = Main => \A w : Awaits(w)
  BY <1>2 DEF Awaits, Awaited, Shutdown
<1> QED
  BY <1>3, <1>5, <1>6, ByStage

LEMMA LaterKeep ==
  ASSUME Going, NEW t \in Threads,
         ExitJoined(t) \/ ExitStore(t) \/ ExitBackend(t) \/ ExitSet(t)
  PROVE  Parts'
<1> USE DEF locals, set, signals, exiting, Shutdown, Marking, Closed
<1>0. KInv /\ fault = "none"
  BY DEF Going
<1>5. UNCHANGED tls => /\ SameLife(tls[t], tls'[t]) /\ tls'[t].unsafe = tls[t].unsafe
                       /\ \A u \in Threads \ {t} : tls'[u] = tls[u]
  BY SameLocals
<1>1. CASE ExitJoined(t)
  <2>1. Top(t) = "exitJoin" /\ fini = FiniOf("exitJoin")
    BY <1>1, AtStage DEF ExitJoined, Goto
  <2>2. fini' = FiniOf("exitStore")
    BY <1>1, <2>1 DEF ExitJoined, FiniOf
  <2>3. /\ SameLife(tls[t], tls'[t]) /\ \A u \in Threads \ {t} : tls'[u] = tls[u]
        /\ MemoryCollect => tls'[t].unsafe = tls[t].unsafe
    <3>1. tls \in [Threads -> Locals] /\ tls[t] \in Locals
      BY <1>0 DEF KInv, IInv
    <3> QED
      BY <1>1, <3>1 DEF ExitJoined, SameLife, Allocated, Locals
  <2> QED
    BY <1>0, <1>1, <2>2, <2>3, LaterStages DEF ExitJoined
<1>2. CASE ExitStore(t)
  <2>1. /\ Top(t) = "exitStore" /\ fini = FiniOf("exitStore")
        /\ ~hit => tls[t].maps = "live"
    BY <1>2, AtStage DEF ExitStore, Goto
  <2>2. fini' = FiniOf("exitFini") /\ "backend" \notin fini
    BY <1>2, <2>1 DEF ExitStore, FiniOf
  <2>3. quiet => ~hit
    BY <1>0 DEF KInv, QuietInv
  <2>4. Sound(hit) /\ (quiet => fault' = "none")
    BY <1>2, <2>1, <2>2, <2>3 DEF ExitStore, UseMaps
  <2> QED
    BY <1>2, <1>5, <2>2, <2>4, LaterStages DEF ExitStore
<1>3. CASE ExitBackend(t)
  <2>1. Top(t) = "exitBackend" /\ fini = FiniOf("exitBackend")
    BY <1>3, AtStage DEF ExitBackend, Goto
  <2>2. fini' = FiniOf("exitSet")
    BY <1>3, <2>1 DEF ExitBackend, FiniOf
  <2> QED
    BY <1>0, <1>3, <1>5, <2>2, LaterStages DEF ExitBackend
<1>4. CASE ExitSet(t)
  <2>1. Top(t) = "exitSet" /\ fini = FiniOf("exitSet")
    BY <1>4, AtStage DEF ExitSet, Goto
  <2>2. fini' = FiniOf("exited")
    BY <1>4, <2>1 DEF ExitSet, FiniOf
  <2> QED
    BY <1>0, <1>4, <1>5, <2>2, LaterStages DEF ExitSet
<1> QED
  BY <1>1, <1>2, <1>3, <1>4

LEMMA ExitFiniKeeps ==
  ASSUME Going, NEW t \in Threads, ExitFini(t)
  PROVE  Parts'
<1>1. /\ KInv /\ IInv /\ fault = "none" /\ Top(t) = "exitFini" /\ hit \in BOOLEAN /\ hit' = hit
      /\ Call(t, "exitFini", "exitBackend", "fini")
      /\ UNCHANGED <<tls, child, threads, lock, pending, cursor, fini, fault, history>>
  BY DEF Going, KInv, Globals, ExitFini, Call, set, signals, exiting, locals, history
<1>2. /\ Base(t) = "exitFini" /\ fini = FiniOf("exitFini")
      /\ quiet => cursor = End
  BY <1>1, AtStage DEF Shutdown
<1>3. "exitFini" \notin Upper /\ "exitBackend" \in Frames /\ "fini" \in Frames
  BY FiniNames, FrameKinds DEF Shutdown
<1>4. stack'[t] = <<"exitBackend", "fini">> /\ stack'[t][1] = "exitBackend" /\ Others(t)
  BY <1>1, <1>3, BaseCall
<1>5. fini' = FiniOf("exitBackend") /\ fini' # {}
  BY <1>1, <1>2 DEF FiniOf
<1>6. Stages(t, "exitFini", "exitBackend")
  BY <1>1, <1>2, <1>4, <1>5 DEF Stages, Stays, Shutdown
<1>7. Local(<<"exitBackend", "fini">>, tls'[t], FALSE, hit')
  <2>1. Local(<<"exitFini">>, tls[t], fini = {}, hit) /\ tls[t] \in Locals
    BY <1>1, <1>3, Undisturbed
  <2>2. Local(<<"exitFini">>, tls[t], FALSE, hit)
    BY <2>1 DEF Local
  <2>3. Local(<<"exitBackend", "fini">>, tls[t], FALSE, hit)
    BY <1>1, <1>3, <2>1, <2>2, FiniCalled DEF Shutdown
  <2> QED
    BY <1>1, <2>3
<1>8. Local(stack'[t], tls'[t], fini' = {}, hit')
  BY <1>4, <1>5, <1>7
<1>9. \A c : Deep(<<"exitBackend", "fini">>, c)
  <2>1. /\ Len(<<"exitBackend", "fini">>) = 2 /\ <<"exitBackend", "fini">>[1] = "exitBackend"
        /\ "exitBackend" \notin Finalise
    BY DEF Finalise
  <2> QED
    BY <2>1 DEF Deep
<1>10. Len(<<"exitBackend", "fini">>) = 2 /\ <<"exitBackend", "fini">>[2] = "fini"
  OBVIOUS
<1>11. t = Main => \A w : Awaits(w)
  BY <1>2 DEF Awaits, Awaited
<1> QED
  BY <1>1, <1>4, <1>6, <1>8, <1>9, <1>10, <1>11, ByStages

(* exit is called.                                                         *)
LEMMA ExitKeeps ==
  ASSUME Going, NEW t \in Threads, Exit(t)
  PROVE  Parts'
<1>1. /\ IInv /\ KInv /\ Globals /\ Globals' /\ BaseInv /\ SetInv /\ QuietInv /\ KnownInv
      /\ LocalInv /\ DepthInv /\ fault = "none" /\ tls' \in [Threads -> Locals]
      /\ \A u \in Threads : Base(u) # "exited"
  BY NoneExited DEF Going, KInv
<1>2. /\ Goto(t, "run", "exitMark") /\ Top(t) = "run" /\ fini = {} /\ fini' = {"wrapper"}
      /\ quiet' = (threads = {} /\ \A w \in Threads \ {t} : ~Running(w)) /\ known' = threads
      /\ UNCHANGED <<tls, child, threads, lock, pending, cursor, fault, hit, odd>>
  BY DEF Exit, Goto, locals, set, signals
<1>3. /\ Base(t) = "run" /\ stack'[t] = <<"exitMark">> /\ stack'[t][1] = "exitMark"
      /\ Len(stack'[t]) = 1 /\ Others(t)
  BY <1>1, <1>2, BaseGoto, FiniNames
<1>4. Same({t}) /\ {t} \in SUBSET Threads
  BY <1>2, <1>3 DEF Same, Others
<1>5. ~hit /\ cursor = End /\ \A u \in Threads : Base(u) \notin Shutdown
  BY <1>1, <1>2 DEF BaseInv, FiniOf
<1>6. LocalInv'
  <2>1. SameLife(tls[t], tls'[t])
    BY <1>2, SameLocals
  <2>2. tls[t].initialized /\ ~tls[t].record_fini
    BY <1>1, <1>2, Undisturbed, FiniNames
  <2>3. /\ "exitMark" \notin Unborn \cup Closed /\ "exitMark" \notin Upper
        /\ "run" \notin Upper
    BY FiniNames DEF Unborn, Closed
  <2>4. Local(<<"exitMark">>, tls'[t], fini' = {}, hit')
    BY <1>1, <1>2, <2>1, <2>2, <2>3, LocalMoves
  <2>5. \A u \in {t} : Local(stack'[u], tls'[u], fini' = {}, hit')
    BY <1>3, <2>4
  <2> QED
    BY <1>1, <1>2, <1>4, <2>5, LocalStep
<1>7. DepthInv'
  <2>1. \A w \in Workers : Await(w)' => Await(w)
    BY <1>2 DEF Await
  <2>2. \A c : Deep(<<"exitMark">>, c)
    BY DeepOne, FiniNames
  <2>3. \A u \in {t} : \A c : Deep(stack'[u], c)
    BY <1>3, <2>2
  <2> QED
    BY <1>1, <1>2, <1>3, <1>4, <2>1, <2>3, DepthStep DEF Others
<1>8. BaseInv'
  <2>1. \A u \in {t} : BaseFits(u)
    BY <1>2, <1>3 DEF BaseFits, Shutdown, Creating, FiniOf
  <2>2. \A u, v \in {t} : stack'[u][1] \in Shutdown /\ stack'[v][1] \in Shutdown => u = v
    OBVIOUS
  <2>3. lock' = Free \/ (lock' = lock /\ lock \notin {t})
    BY <1>1, <1>2, <1>3 DEF BaseInv
  <2>4. fini' = {} => fini = {} /\ ~hit' /\ cursor' = cursor
    BY <1>2
  <2>5. MemoryFaultsNeedSignals'
    BY <1>1, <1>2, SoundFaults
  <2> QED
    BY <1>1, <1>2, <1>4, <2>1, <2>2, <2>3, <2>4, <2>5, BaseKeeps
<1>9. SetInv'
  <2>1. \A u \in {t} : Base(u) \notin Idle /\ stack'[u][1] \notin Idle /\ Base(u) \notin Creating
    BY <1>3 DEF Idle, Creating
  <2>2. \A u \in Workers : stack'[u][1] = "plain" => u # t /\ stack'[u] = stack[u]
    BY <1>3, Apart DEF Others
  <2> QED
    BY <1>1, <1>2, <1>4, <2>1, <2>2, SetKeeps DEF Base
<1>10. QuietInv'
  <2> SUFFICES ASSUME quiet'
               PROVE  /\ threads = {} /\ lock = Free
                      /\ \A w \in Workers : stack'[w][1] \in {"new", "dead"}
                      /\ stack'[Main][1] = "exitMark" /\ Len(stack'[Main]) = 1
    BY <1>1, <1>2, <1>5 DEF QuietInv, QuietExitIsClean, Unsampled, Base, Shutdown
  <2>1. threads = {} /\ \A w \in Threads \ {t} : Top(w) \in {"new", "dead"}
    BY <1>2 DEF Running
  <2>2. \A w \in Threads \ {t} : Base(w) \in {"new", "dead"}
    BY <1>1, <2>1, TopIsBase, FiniNames
  <2>3. t = Main
    BY <1>1, <2>2, Apart DEF BaseInv, Recording, Shutdown
  <2>4. lock = Free
    BY <1>1, <1>3, <2>2 DEF BaseInv, Globals
  <2> QED
    BY <1>3, <2>1, <2>2, <2>3, <2>4, Apart DEF Others, Base
<1>11. KnownInv'
  <2>1. \A w : ~Awaited(w)'
    <3>1. stack'[Main][1] = "exitMark" \/ stack'[Main][1] \notin Shutdown
      BY <1>3, <1>5, Apart DEF Others, Base
    <3> QED
      BY <3>1 DEF Awaited, Base, Shutdown
  <2> QED
    BY <1>2, <2>1 DEF KnownInv
<1> QED
  BY <1>6, <1>7, <1>8, <1>9, <1>10, <1>11 DEF Parts

-----------------------------------------------------------------------------
LEMMA PartsKeep ==
  ASSUME Going, Next
  PROVE  Parts'
<1>1. ASSUME NEW t \in Threads, ProgramStep(t) PROVE Parts'
  BY <1>1, EnterWrapperKeeps, CreateStepKeeps, ExitKeeps, JoinKeeps, DetachKeeps
     DEF ProgramStep, CreateStep
<1>2. ASSUME NEW t \in Threads, FiniStep(t) \/ StoreSample(t) PROVE Parts'
  BY <1>2, FiniTestKeeps, FiniSetKeeps, FiniSamplerKeeps, FiniFreeKeeps, FiniEndKeeps,
     StoreSampleKeeps
     DEF FiniStep
<1>3. ASSUME NEW t \in Threads, WrapperStep(t) PROVE Parts'
  BY <1>3, StoreKeeps, StoreCreateKeeps, LockKeeps, InsertKeeps, JoinKeeps DEF WrapperStep
<1>4. ASSUME NEW t \in Threads, ExitStep(t) PROVE Parts'
  BY <1>4, ExitMarkKeeps, ExitKillKeeps, ExitKilledKeeps, ExitJoinKeeps, LaterKeep,
     ExitFiniKeeps DEF ExitStep
<1>5. ASSUME NEW w \in Workers,
             ThreadStep(w) \/ Return(w) \/ ExitThread(w) \/ ExitUnrecorded(w)
      PROVE  Parts'
  BY <1>5, Apart, StartKeeps, EndKeeps, LockKeeps, ReturnKeeps, EnterWrapperKeeps
     DEF ThreadStep
<1>6. CASE Signal
  BY <1>6, SamplesKeep, DeliverExitKeeps DEF Signal
<1> QED
  BY <1>1, <1>2, <1>3, <1>4, <1>5, <1>6 DEF Next, ToolStep

LEMMA NextKInv == KInv /\ [Next]_vars => KInv'
<1> SUFFICES ASSUME KInv, [Next]_vars PROVE KInv'
  OBVIOUS
<1>1. IInv'
  BY NextIInv DEF KInv
<1>2. CASE Next
  <2>1. Globals'
    BY <1>2, GlobalsStep DEF KInv
  <2>2. Going
    BY <1>1, <1>2, <2>1 DEF Going, IInv, Next
  <2>3. Parts'
    BY <1>2, <2>2, PartsKeep
  <2> QED
    BY <1>1, <2>1, <2>3 DEF KInv, Parts
<1>3. CASE UNCHANGED vars
  <2>1. UNCHANGED <<stack, tls, child, reap, threads, lock, pending, timer, handler, ticks,
                    cursor, fini, fault, hit, odd, quiet, known, made>>
    BY <1>3 DEF vars, locals, set, signals, exiting, history
  <2>2. Globals'
    BY <2>1 DEF KInv, Globals
  <2>3. LocalInv' /\ DepthInv'
    BY <2>1 DEF KInv, LocalInv, DepthInv, Await, Base
  <2>4. BaseInv' /\ SetInv'
    BY <2>1 DEF KInv, BaseInv, MemoryFaultsNeedSignals, SetInv, Base, Top
  <2>5. QuietInv' /\ KnownInv'
    BY <2>1 DEF KInv, QuietInv, QuietExitIsClean, Unsampled, KnownInv, Awaited, Base, Top
  <2> QED
    BY <1>1, <2>2, <2>3, <2>4, <2>5 DEF KInv
<1> QED
  BY <1>2, <1>3

LEMMA KInvHolds == Spec => []KInv
  BY InitKInv, NextKInv, PTL DEF Spec

(* Whatever the threads do and the signals interrupt, the stacks are never *)
(* deeper than a frame of the program, two finalisations and a sample, and *)
(* everything keeps its type (the cases of pthread_wrapper.cpp,            *)
(* record_writer.cpp and safe.cpp that the actions are made of).           *)
THEOREM ThreadTypeCorrect == Spec => []TypeOK
<1>1. KInv => TypeOK
  <2> SUFFICES ASSUME KInv PROVE TypeOK
    OBVIOUS
  <2>1. Globals /\ stack = [t \in Threads |-> stack[t]] /\ tls \in [Threads -> Locals]
    BY DEF KInv, IInv
  <2>2. \A t \in Threads : stack[t] \in Seq(Tool \cup Program)
    BY DEF KInv, IInv, Guarded, Frames
  <2>3. ASSUME NEW t \in Threads PROVE Len(stack[t]) \in 1 .. 4
    <3>1. \E c : Deep(stack[t], c)
      BY Apart DEF KInv, DepthInv
    <3>2. Guarded(stack[t], tls[t].in_tool) /\ tls[t].in_tool \in BOOLEAN
      BY <2>1 DEF KInv, IInv, Locals
    <3> QED
      BY <3>1, <3>2, DeepEnough
  <2> QED
    BY <2>1, <2>2, <2>3 DEF TypeOK, Globals, Locals
<1> QED
  BY <1>1, KInvHolds, PTL

(* Section maps are deleted twice only where SIG_THREAD_EXIT has landed in *)
(* the tool's own code (record_writer.cpp:237, 245-270). They are used     *)
(* after they were deleted only there, or by a sample that interrupts      *)
(* their deletion; that one, and a sample in the middle of an unguarded    *)
(* store, need a free that clears unsafe_state (memory_wrapper.cpp:86-92): *)
(* with the recording of memory functions on, the guard keeps them out.    *)
THEOREM MemoryFaultsHaveCauses == Spec => []MemoryFaultsNeedSignals
<1>1. KInv => MemoryFaultsNeedSignals
  BY DEF KInv, BaseInv, MemoryFaultsNeedSignals
<1> QED
  BY <1>1, KInvHolds, PTL

(* The set holds the threads that record, but for those whose creator is   *)
(* still inside pthread_create, and of the dead only the odd ones          *)
(* (pthread_wrapper.cpp:52-71, pthread_instrument.h:212-221).              *)
THEOREM SetHoldsTheLive == Spec => []ThreadsAreTheLive
<1>1. KInv => ThreadsAreTheLive
  <2> SUFFICES ASSUME KInv PROVE ThreadsAreTheLive
    OBVIOUS
  <2>1. IInv /\ SetInv /\ BaseInv /\ Globals
    BY DEF KInv
  <2>2. ASSUME NEW w \in Workers, tls[w].initialized, Running(w), w \notin threads
        PROVE  \E t \in Threads : child[t] = w /\ Top(t) \in Tool
    <3>1. w \in Threads
      BY Apart
    <3>2. Base(w) \notin {"new", "dead"}
      <4>1. Base(w) \in {"new", "dead"} => Top(w) = Base(w)
        BY <2>1, <3>1, TopIsBase DEF BaseInv
      <4> QED
        BY <2>2, <4>1 DEF Running
    <3>3. Base(w) # "plain"
      <4>1. Unstarted(stack[w], tls[w])
        BY <3>1 DEF KInv, LocalInv, Local
      <4> QED
        BY <2>2, <4>1 DEF Unstarted, Unborn, Base
    <3>4. PICK t \in Threads : child[t] = w /\ Base(t) \in Creating
      BY <2>1, <2>2, <3>2, <3>3 DEF SetInv
    <3>5. Top(t) = Base(t) \/ Top(t) \in Upper
      BY <2>1, TopIsBase
    <3>6. Top(t) \in Tool
      BY <3>4, <3>5 DEF Creating, Tool, Recording, Upper
    <3> QED
      BY <3>4, <3>6
  <2>3. ASSUME NEW w \in threads, Top(w) = "dead" PROVE w \in odd
    <3>1. w \in Threads
      BY <2>1, Apart DEF Globals
    <3>2. Base(w) = "dead"
      BY <2>1, <2>3, <3>1, TopIsBase, FiniNames
    <3> QED
      BY <2>1, <3>2 DEF SetInv
  <2> QED
    BY <2>2, <2>3 DEF ThreadsAreTheLive
<1> QED
  BY <1>1, KInvHolds, PTL

(* A process that exits with all its threads ended and the set empty shuts *)
(* down without a fault, or with a sample in the middle of its last stores *)
(* and the recording of memory functions off (record_writer.cpp:349-411).  *)
THEOREM QuietShutdownIsClean == Spec => []QuietExitIsClean
<1>1. KInv => QuietExitIsClean
  BY DEF KInv, QuietInv, QuietExitIsClean
<1> QED
  BY <1>1, KInvHolds, PTL

(* When main returns, of the threads in the set by then only those left    *)
(* through pthread_exit have not closed their sections                     *)
(* (record_writer.cpp:263-270, 355-365).                                   *)
THEOREM ShutdownLosesNothing == Spec => []ExitLosesNothing
<1>1. KInv => ExitLosesNothing
  <2> SUFFICES ASSUME KInv, Top(Main) = "exited", NEW t \in known \cup {Main},
                      tls[t].maps = "live"
               PROVE  t \in odd
    BY DEF ExitLosesNothing
  <2>1. IInv /\ SetInv /\ BaseInv /\ KnownInv /\ Globals /\ Main \in Threads
    BY Apart DEF KInv
  <2>2. Base(Main) = "exited"
    BY <2>1, TopIsBase, FiniNames
  <2>3. tls[Main].maps # "live"
    BY <2>1, Undisturbed, FiniNames DEF Closed
  <2>4. t \in known /\ t \in threads
    <3>1. t \in known
      BY <2>3
    <3> QED
      BY <2>1, <3>1 DEF KnownInv
  <2>5. fault = "none"
    BY <2>1, <2>2 DEF BaseInv
  <2>6. Base(t) = "dead"
    BY <2>1, <2>2, <2>4, <2>5 DEF KnownInv, Awaited
  <2> QED
    BY <2>1, <2>4, <2>6 DEF SetInv
<1> QED
  BY <1>1, KInvHolds, PTL
=============================================================================
