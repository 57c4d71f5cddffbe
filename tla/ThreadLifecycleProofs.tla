------------------------ MODULE ThreadLifecycleProofs ------------------------
(***************************************************************************)
(* For any number of threads and signals, no record is made inside another *)
(* one: the invariant StoresDoNotNest of ThreadLifecycle.                  *)
(*                                                                         *)
(* It is not inductive. What has to be added is what the guard is for: a   *)
(* thread that has a recording frame, running or interrupted, has in_tool  *)
(* set, so that nothing else is let in; and what makes it safe to clear    *)
(* in_tool: only finalisations and samples interrupt anything, so that a   *)
(* wrapper returns with nothing below it.                                  *)
(***************************************************************************)
EXTENDS ThreadLifecycle, TLAPS

Frames == Tool \cup Program

(* The frames that are pushed on others.                                   *)
Upper == Finalise \cup {"sampling"}

Locals == [in_tool : BOOLEAN, unsafe : BOOLEAN, initialized : BOOLEAN,
           record_fini : BOOLEAN, maps : {"none", "live", "freed"}]

Guarded(s, in_tool) ==
  /\ s \in Seq(Frames) /\ Len(s) > 0
  /\ \A i \in 1 .. Len(s) : s[i] \in Upper <=> i # 1
  /\ \A i \in 1 .. Len(s) : s[i] \in Recording => in_tool
  /\ \A i, j \in 1 .. Len(s) : s[i] \in Recording /\ s[j] \in Recording => i = j

IInv ==
  /\ DOMAIN stack = Threads /\ stack = [t \in Threads |-> stack[t]]
  /\ tls \in [Threads -> Locals]
  /\ \A t \in Threads : Guarded(stack[t], tls[t].in_tool)

-----------------------------------------------------------------------------
(* What the last frame of a guarded stack may become.                      *)
LEMMA ReplaceLast ==
  ASSUME NEW s, NEW b \in BOOLEAN, NEW c \in BOOLEAN, NEW f \in Frames, Guarded(s, b),
         s[Len(s)] \in Upper <=> f \in Upper,
         \/ f \notin Recording /\ (b => c \/ s[Len(s)] \notin Upper)
         \/ f \in Recording /\ c /\ (~b \/ s[Len(s)] \in Recording)
  PROVE  Guarded([s EXCEPT ![Len(s)] = f], c)
<1> DEFINE n == Len(s)  r == [s EXCEPT ![n] = f]
<1>1. s \in Seq(Frames) /\ n \in Nat /\ n > 0
  BY DEF Guarded
<1>2. r \in Seq(Frames) /\ Len(r) = n /\ r[n] = f /\ \A i \in 1 .. n : i # n => r[i] = s[i]
  BY <1>1
<1>3. \A i \in 1 .. n : r[i] \in Upper <=> i # 1
  BY <1>1, <1>2 DEF Guarded
<1>4. \A i \in 1 .. n : i # n /\ r[i] \in Recording => c /\ f \notin Recording
  <2> SUFFICES ASSUME NEW i \in 1 .. n, i # n, r[i] \in Recording PROVE c /\ f \notin Recording
    OBVIOUS
  <2>1. s[i] \in Recording
    BY <1>2
  <2>2. b /\ n # 1
    BY <1>1, <2>1 DEF Guarded
  <2>3. s[n] \in Upper /\ s[n] \notin Recording
    BY <1>1, <2>1, <2>2 DEF Guarded
  <2> QED
    BY <2>2, <2>3
<1>5. \A i \in 1 .. n : r[i] \in Recording => c
  BY <1>2, <1>4
<1>6. \A i, j \in 1 .. n : r[i] \in Recording /\ r[j] \in Recording => i = j
  BY <1>1, <1>2, <1>4 DEF Guarded
<1> QED
  BY <1>1, <1>2, <1>3, <1>5, <1>6 DEF Guarded

(* A finalisation that interrupts, or a sample that the guard lets in.     *)
LEMMA PushUpper ==
  ASSUME NEW s, NEW b \in BOOLEAN, NEW c \in BOOLEAN, NEW f \in Upper, Guarded(s, b),
         f \in Recording => ~b /\ c, f \notin Recording => (b => c)
  PROVE  Guarded(Append(s, f), c)
<1> DEFINE n == Len(s)  r == Append(s, f)
<1>1. s \in Seq(Frames) /\ n \in Nat /\ n > 0 /\ f \in Frames
  BY DEF Guarded, Upper, Frames, Tool, Recording
<1>2. r \in Seq(Frames) /\ Len(r) = n + 1 /\ r[n + 1] = f /\ \A i \in 1 .. n : r[i] = s[i]
  BY <1>1
<1>3. \A i \in 1 .. n + 1 : r[i] \in Upper <=> i # 1
  BY <1>1, <1>2 DEF Guarded
<1>4. \A i \in 1 .. n : r[i] \in Recording => b
  BY <1>1, <1>2 DEF Guarded
<1>5. \A i \in 1 .. n + 1 : r[i] \in Recording => c
  BY <1>1, <1>2, <1>4
<1>6. \A i, j \in 1 .. n + 1 : r[i] \in Recording /\ r[j] \in Recording => i = j
  BY <1>1, <1>2, <1>4 DEF Guarded
<1> QED
  BY <1>1, <1>2, <1>3, <1>5, <1>6 DEF Guarded

(* ... and its return. A sample clears in_tool.                            *)
LEMMA PopUpper ==
  ASSUME NEW s, NEW b \in BOOLEAN, NEW c \in BOOLEAN, Guarded(s, b), s[Len(s)] \in Upper,
         b => c \/ s[Len(s)] \in Recording
  PROVE  Guarded(SubSeq(s, 1, Len(s) - 1), c)
<1> DEFINE n == Len(s)  r == SubSeq(s, 1, n - 1)
<1>1. s \in Seq(Frames) /\ n \in Nat /\ n > 1
  BY DEF Guarded
<1>2. r \in Seq(Frames) /\ Len(r) = n - 1 /\ \A i \in 1 .. n - 1 : r[i] = s[i]
  BY <1>1
<1>3. \A i \in 1 .. n - 1 : r[i] \in Recording => c
  <2> SUFFICES ASSUME NEW i \in 1 .. n - 1, r[i] \in Recording PROVE c
    OBVIOUS
  <2>1. s[i] \in Recording /\ b /\ s[n] \notin Recording
    BY <1>1, <1>2 DEF Guarded
  <2> QED
    BY <2>1
<1> QED
  BY <1>1, <1>2, <1>3 DEF Guarded

-----------------------------------------------------------------------------
LEMMA OneFrame ==
  ASSUME NEW f \in Frames, f \notin Upper, f \notin Recording, NEW b
  PROVE  Guarded(<<f>>, b)
<1>1. <<f>> \in Seq(Frames) /\ Len(<<f>>) = 1 /\ <<f>>[1] = f
  OBVIOUS
<1> QED
  BY <1>1 DEF Guarded

LEMMA InitIInv == Init => IInv
<1> SUFFICES ASSUME Init PROVE IInv
  OBVIOUS
<1>1. \A t \in Threads : stack[t] = <<"run">> \/ stack[t] = <<"new">>
  BY DEF Init
<1>2. Fresh \in Locals
  BY DEF Fresh, Locals
<1>3. tls \in [Threads -> Locals]
  BY <1>2 DEF Init, Fresh, Locals
<1>4. \A t \in Threads : Guarded(stack[t], tls[t].in_tool)
  BY <1>1, OneFrame DEF Frames, Program, Upper, Recording, Finalise
<1> QED
  BY <1>3, <1>4 DEF IInv, Init

(* A step changes one stack, and in_tool of that thread only.              *)
LEMMA OneStack ==
  ASSUME IInv, NEW t \in Threads, NEW s, stack' = [stack EXCEPT ![t] = s],
         tls' \in [Threads -> Locals],
         \A u \in Threads \ {t} : tls'[u].in_tool = tls[u].in_tool,
         Guarded(s, tls'[t].in_tool)
  PROVE  IInv'
<1>1. stack' = [u \in Threads |-> IF u = t THEN s ELSE stack[u]]
  BY DEF IInv
<1>2. \A u \in Threads : Guarded(stack'[u], tls'[u].in_tool)
  BY <1>1 DEF IInv
<1> QED
  BY <1>1, <1>2 DEF IInv, Guarded

(* ... or none.                                                            *)
LEMMA NoStack ==
  ASSUME IInv, UNCHANGED stack, tls' \in [Threads -> Locals],
         \A u \in Threads : tls'[u].in_tool = tls[u].in_tool
  PROVE  IInv'
  BY DEF IInv, Guarded

(* The running frame goes on: outside of recordings, into one through the  *)
(* guard, or out of one at the bottom of the stack.                        *)
LEMMA GotoKeeps ==
  ASSUME IInv, NEW t \in Threads, NEW from, NEW to \in Frames, Goto(t, from, to),
         from \in Upper <=> to \in Upper,
         tls' \in [Threads -> Locals],
         \A u \in Threads \ {t} : tls'[u].in_tool = tls[u].in_tool,
         \/ to \notin Recording /\ (tls'[t].in_tool = tls[t].in_tool \/ from \notin Upper)
         \/ /\ to \in Recording /\ tls'[t].in_tool
            /\ ~tls[t].in_tool \/ from \in Recording
  PROVE  IInv'
<1> DEFINE s == [stack[t] EXCEPT ![Len(stack[t])] = to]
<1>1. stack' = [stack EXCEPT ![t] = s] /\ stack[t][Len(stack[t])] = from
  BY DEF Goto, Top
<1>2. Guarded(stack[t], tls[t].in_tool) /\ tls[t].in_tool \in BOOLEAN /\ tls'[t].in_tool \in BOOLEAN
  BY DEF IInv, Locals
<1>3. Guarded(s, tls'[t].in_tool)
  BY <1>1, <1>2, ReplaceLast
<1> QED
  BY <1>1, <1>3, OneStack

(* ... or goes on below a new frame.                                       *)
LEMMA CallKeeps ==
  ASSUME IInv, NEW t \in Threads, NEW from, NEW next \in Frames, NEW f \in Upper,
         Call(t, from, next, f), UNCHANGED tls,
         from \notin Upper, next \notin Upper, next \notin Recording, f \notin Recording
  PROVE  IInv'
<1> DEFINE r == [stack[t] EXCEPT ![Len(stack[t])] = next]  s == Append(r, f)
<1>1. stack' = [stack EXCEPT ![t] = s] /\ stack[t][Len(stack[t])] = from
  BY DEF Call, Top
<1>2. Guarded(stack[t], tls[t].in_tool) /\ tls[t].in_tool \in BOOLEAN
  BY DEF IInv, Locals
<1>3. Guarded(r, tls[t].in_tool)
  BY <1>1, <1>2, ReplaceLast
<1>4. Guarded(s, tls'[t].in_tool)
  BY <1>2, <1>3, PushUpper
<1>5. tls' \in [Threads -> Locals]
  BY DEF IInv
<1> QED
  BY <1>1, <1>4, <1>5, OneStack

LEMMA PushKeeps ==
  ASSUME IInv, NEW t \in Threads, NEW f \in Upper, Push(t, f),
         tls' \in [Threads -> Locals],
         \A u \in Threads \ {t} : tls'[u].in_tool = tls[u].in_tool,
         \/ f \notin Recording /\ tls'[t].in_tool = tls[t].in_tool
         \/ f \in Recording /\ ~tls[t].in_tool /\ tls'[t].in_tool
  PROVE  IInv'
<1> DEFINE s == Append(stack[t], f)
<1>1. stack' = [stack EXCEPT ![t] = s]
  BY DEF Push
<1>2. Guarded(stack[t], tls[t].in_tool) /\ tls[t].in_tool \in BOOLEAN /\ tls'[t].in_tool \in BOOLEAN
  BY DEF IInv, Locals
<1>3. Guarded(s, tls'[t].in_tool)
  BY <1>2, PushUpper
<1> QED
  BY <1>1, <1>3, OneStack

LEMMA PopKeeps ==
  ASSUME IInv, NEW t \in Threads, Pop(t), Top(t) \in Upper,
         tls' \in [Threads -> Locals],
         \A u \in Threads \ {t} : tls'[u].in_tool = tls[u].in_tool,
         tls'[t].in_tool = tls[t].in_tool \/ Top(t) \in Recording
  PROVE  IInv'
<1> DEFINE s == SubSeq(stack[t], 1, Len(stack[t]) - 1)
<1>1. stack' = [stack EXCEPT ![t] = s] /\ stack[t][Len(stack[t])] \in Upper
  BY DEF Pop, Top
<1>2. Guarded(stack[t], tls[t].in_tool) /\ tls[t].in_tool \in BOOLEAN /\ tls'[t].in_tool \in BOOLEAN
  BY DEF IInv, Locals
<1>3. Guarded(s, tls'[t].in_tool)
  BY <1>1, <1>2, PopUpper DEF Top
<1> QED
  BY <1>1, <1>3, OneStack

(* A thread is created by another one.                                     *)
LEMMA CreateKeeps ==
  ASSUME IInv, NEW t \in Threads, NEW w \in Workers, NEW from, NEW to \in Frames,
         NEW start \in {"start", "plain"}, RealCreate(t, w, from, to, start),
         from \notin Upper, from \notin {"new", "dead"}, to \notin Upper,
         tls' \in [Threads -> Locals],
         \A u \in Threads \ {t, w} : tls'[u].in_tool = tls[u].in_tool,
         \/ to \notin Recording
         \/ /\ to \in Recording /\ tls'[t].in_tool
            /\ ~tls[t].in_tool \/ from \in Recording
  PROVE  IInv'
<1> DEFINE s == [stack[t] EXCEPT ![Len(stack[t])] = to]
<1>1. w # t /\ w \in Threads
  BY DEF RealCreate, Unused, Threads
<1>2. stack' = [u \in Threads |-> IF u = w THEN <<start>> ELSE IF u = t THEN s ELSE stack[u]]
  BY <1>1 DEF RealCreate, IInv
<1>3. Guarded(stack[t], tls[t].in_tool) /\ tls[t].in_tool \in BOOLEAN /\ tls'[t].in_tool \in BOOLEAN
  BY DEF IInv, Locals
<1>4. stack[t][Len(stack[t])] = from
  BY DEF RealCreate, Top
<1>5. Guarded(s, tls'[t].in_tool)
  BY <1>3, <1>4, ReplaceLast
<1>6. Guarded(<<start>>, tls'[w].in_tool)
  BY OneFrame DEF Frames, Program, Upper, Recording, Finalise
<1>7. \A u \in Threads : Guarded(stack'[u], tls'[u].in_tool)
  BY <1>1, <1>2, <1>5, <1>6 DEF IInv
<1> QED
  BY <1>2, <1>7 DEF IInv, Guarded

-----------------------------------------------------------------------------
(* The kinds of frames, once and for all.                                  *)
LEMMA FrameKinds ==
  /\ Recording \subseteq Frames /\ Finalise \subseteq Frames /\ Shutdown \subseteq Frames
  /\ {"erase", "erasing"} \subseteq Frames /\ Program \subseteq Frames
  /\ \A f \in Finalise \cup Shutdown \cup {"erase", "erasing"} \cup Program : f \notin Recording
  /\ \A f \in Finalise : f \in Upper
  /\ \A f \in (Recording \ {"sampling"}) \cup Shutdown \cup {"erase", "erasing"} \cup Program :
       f \notin Upper
  /\ "sampling" \in Upper \cap Recording
  BY DEF Frames, Tool, Recording, Finalise, Shutdown, Program, Upper

(* What the steps of a thread make of its locals, but for the guard.       *)
LEMMA LocalsChange ==
  ASSUME NEW l \in Locals
  PROVE  \A r \in {[l EXCEPT !.initialized = TRUE, !.maps = "live"],
                   [l EXCEPT !.record_fini = TRUE, !.unsafe = TRUE],
                   [l EXCEPT !.maps = "freed"], [l EXCEPT !.initialized = FALSE]} :
           r \in Locals /\ r.in_tool = l.in_tool
<1>1. \A m \in {"live", "freed"} :
        [l EXCEPT !.maps = m] \in Locals /\ [l EXCEPT !.maps = m].in_tool = l.in_tool
  BY DEF Locals
<1>2. ASSUME NEW r \in Locals, NEW b \in BOOLEAN
      PROVE  [r EXCEPT !.initialized = b] \in Locals /\ [r EXCEPT !.initialized = b].in_tool = r.in_tool
  BY <1>2 DEF Locals
<1>3. [l EXCEPT !.initialized = TRUE, !.maps = "live"] \in Locals
  BY DEF Locals
<1>4. [l EXCEPT !.initialized = TRUE, !.maps = "live"].in_tool = l.in_tool
  BY DEF Locals
<1>5. [l EXCEPT !.record_fini = TRUE, !.unsafe = TRUE] \in Locals
  BY DEF Locals
<1>6. [l EXCEPT !.record_fini = TRUE, !.unsafe = TRUE].in_tool = l.in_tool
  BY DEF Locals
<1> QED
  BY <1>1, <1>2, <1>3, <1>4, <1>5, <1>6

(* ... and an allocation, or a deletion.                                   *)
LEMMA WithUnsafe ==
  ASSUME NEW l \in Locals, NEW b \in BOOLEAN
  PROVE  /\ [l EXCEPT !.unsafe = b] \in Locals
         /\ [l EXCEPT !.unsafe = b].in_tool = l.in_tool
  BY DEF Locals

LEMMA AllocatedType == \A b \in BOOLEAN : Allocated(b) \in BOOLEAN
  BY ThreadLifecycleAssumption DEF Allocated

(* Other locals of one thread change.                                      *)
LEMMA OtherLocals ==
  ASSUME IInv, NEW t \in Threads, NEW r \in Locals, r.in_tool = tls[t].in_tool,
         tls' = [tls EXCEPT ![t] = r]
  PROVE  /\ tls' \in [Threads -> Locals]
         /\ \A u \in Threads : tls'[u].in_tool = tls[u].in_tool
  BY DEF IInv

(* in_tool of one thread is set, or cleared.                               *)
LEMMA EnterSets ==
  ASSUME IInv, NEW t \in Threads, Enter(t)
  PROVE  /\ tls' \in [Threads -> Locals]
         /\ \A u \in Threads \ {t} : tls'[u].in_tool = tls[u].in_tool
         /\ tls'[t].in_tool
<1>1. tls' = [tls EXCEPT ![t] = [@ EXCEPT !.in_tool = TRUE]]
  BY DEF Enter
<1>2. tls[t] \in Locals /\ [tls[t] EXCEPT !.in_tool = TRUE] \in Locals
  BY DEF IInv, Locals
<1> QED
  BY <1>1, <1>2 DEF IInv, Locals

LEMMA LeaveClears ==
  ASSUME IInv, NEW t \in Threads, Leave(t)
  PROVE  /\ tls' \in [Threads -> Locals]
         /\ \A u \in Threads \ {t} : tls'[u].in_tool = tls[u].in_tool
<1>1. tls' = [tls EXCEPT ![t] = [@ EXCEPT !.in_tool = FALSE]]
  BY DEF Leave
<1>2. tls[t] \in Locals /\ [tls[t] EXCEPT !.in_tool = FALSE] \in Locals
  BY DEF IInv, Locals
<1> QED
  BY <1>1, <1>2 DEF IInv, Locals

LEMMA ThreadSteps ==
  ASSUME IInv, NEW w \in Workers,
         ThreadStep(w) \/ Return(w) \/ ExitThread(w) \/ ExitUnrecorded(w)
  PROVE  IInv'
<1> w \in Threads
  BY DEF Threads
<1>1. CASE StartThread(w)
  <2>1. tls' \in [Threads -> Locals] /\ \A u \in Threads : tls'[u].in_tool = tls[u].in_tool
    <3> DEFINE r == [tls[w] EXCEPT !.initialized = TRUE, !.maps = "live"]
    <3>1. r \in Locals /\ r.in_tool = tls[w].in_tool
      BY LocalsChange DEF IInv
    <3>2. tls' = [tls EXCEPT ![w] = r]
      BY <1>1 DEF StartThread
    <3> QED
      BY <3>1, <3>2, OtherLocals
  <2> QED
    BY <1>1, <2>1, GotoKeeps, FrameKinds DEF StartThread, Program
<1>2. CASE ReturnPlain(w)
  BY <1>2, GotoKeeps, FrameKinds DEF ReturnPlain, Dies, Program, locals, IInv
<1>3. CASE LockToErase(w)
  BY <1>3, GotoKeeps, FrameKinds DEF LockToErase, locals, IInv
<1>4. CASE Erase(w)
  BY <1>4, GotoKeeps, FrameKinds DEF Erase, Dies, Program, locals, IInv
<1>5. CASE ExitUnrecorded(w)
  BY <1>5, GotoKeeps, FrameKinds DEF ExitUnrecorded, Dies, Program, locals, IInv
<1>6. CASE Return(w)
  <2>1. tls' = tls /\ tls \in [Threads -> Locals]
    BY <1>6 DEF Return, locals, IInv
  <2>2. Call(w, "run", "erase", "fini")
    BY <1>6 DEF Return
  <2> QED
    BY <2>1, <2>2, CallKeeps, FrameKinds DEF Program, Finalise
<1>7. CASE ExitThread(w)
  BY <1>7, EnterSets, GotoKeeps, FrameKinds DEF ExitThread, Guard, Recording, Program
<1>8. CASE StoreExit(w)
  BY <1>8, GotoKeeps, FrameKinds DEF StoreExit, Dies, Program, Recording, locals, IInv
<1> QED
  BY <1>1, <1>2, <1>3, <1>4, <1>5, <1>6, <1>7, <1>8 DEF ThreadStep

LEMMA FiniSteps ==
  ASSUME IInv, NEW t \in Threads, FiniStep(t)
  PROVE  IInv'
<1>1. CASE FiniTest(t)
  <2> tls' = tls
    BY <1>1 DEF FiniTest, locals
  <2> tls' \in [Threads -> Locals]
    BY DEF IInv
  <2>1. CASE Pop(t)
    BY <1>1, <2>1, PopKeeps, FrameKinds DEF FiniTest, Finalise
  <2>2. CASE Goto(t, "fini", "finiEnd")
    BY <2>2, GotoKeeps, FrameKinds DEF Finalise
  <2>3. CASE Goto(t, "fini", "finiSet")
    BY <2>3, GotoKeeps, FrameKinds DEF Finalise
  <2> QED
    BY <1>1, <2>1, <2>2, <2>3 DEF FiniTest
<1>2. CASE FiniSet(t)
  <2>1. tls' \in [Threads -> Locals] /\ \A u \in Threads : tls'[u].in_tool = tls[u].in_tool
    <3> DEFINE r == [tls[t] EXCEPT !.record_fini = TRUE, !.unsafe = TRUE]
    <3>1. r \in Locals /\ r.in_tool = tls[t].in_tool
      BY LocalsChange DEF IInv
    <3>2. tls' = [tls EXCEPT ![t] = r]
      BY <1>2 DEF FiniSet
    <3> QED
      BY <3>1, <3>2, OtherLocals
  <2> QED
    BY <1>2, <2>1, GotoKeeps, FrameKinds DEF FiniSet, Finalise
<1>3. CASE FiniFree(t)
  <2>1. tls' \in [Threads -> Locals] /\ \A u \in Threads : tls'[u].in_tool = tls[u].in_tool
    <3> DEFINE b == Allocated(tls[t].unsafe)
               q == [tls[t] EXCEPT !.maps = "freed"]
               r == [q EXCEPT !.unsafe = b]
    <3>0. tls[t] \in Locals /\ tls[t].unsafe \in BOOLEAN
      BY DEF IInv, Locals
    <3>1. q \in Locals /\ q.in_tool = tls[t].in_tool /\ b \in BOOLEAN
      BY <3>0, LocalsChange, AllocatedType
    <3>2. r \in Locals /\ r.in_tool = tls[t].in_tool
      BY <3>1, WithUnsafe
    <3>3. tls' = [tls EXCEPT ![t] = r]
      BY <1>3 DEF FiniFree
    <3> QED
      BY <3>2, <3>3, OtherLocals
  <2> QED
    BY <1>3, <2>1, GotoKeeps, FrameKinds DEF FiniFree, Finalise
<1>4. CASE FiniEnd(t)
  <2>1. tls' \in [Threads -> Locals] /\ \A u \in Threads : tls'[u].in_tool = tls[u].in_tool
    <3> DEFINE r == [tls[t] EXCEPT !.initialized = FALSE]
    <3>1. r \in Locals /\ r.in_tool = tls[t].in_tool
      BY LocalsChange DEF IInv
    <3>2. tls' = [tls EXCEPT ![t] = r]
      BY <1>4 DEF FiniEnd
    <3> QED
      BY <3>1, <3>2, OtherLocals
  <2> QED
    BY <1>4, <2>1, PopKeeps, FrameKinds DEF FiniEnd, Finalise
<1>5. CASE FiniSampler(t)
  <2>1. tls' \in [Threads -> Locals] /\ \A u \in Threads : tls'[u].in_tool = tls[u].in_tool
    <3> DEFINE b == IF Sampling THEN Allocated(tls[t].unsafe) ELSE tls[t].unsafe
               r == [tls[t] EXCEPT !.unsafe = b]
    <3>1. tls[t] \in Locals /\ b \in BOOLEAN
      BY AllocatedType DEF IInv, Locals
    <3>2. r \in Locals /\ r.in_tool = tls[t].in_tool
      BY <3>1, WithUnsafe
    <3>3. tls' = [tls EXCEPT ![t] = r]
      BY <1>5 DEF FiniSampler
    <3> QED
      BY <3>2, <3>3, OtherLocals
  <2> QED
    BY <1>5, <2>1, GotoKeeps, FrameKinds DEF FiniSampler, Finalise
<1> QED
  BY <1>1, <1>2, <1>3, <1>4, <1>5 DEF FiniStep

-----------------------------------------------------------------------------
LEMMA WrapperSteps ==
  ASSUME IInv, NEW t \in Threads, StoreSample(t) \/ WrapperStep(t)
  PROVE  IInv'
<1> USE FrameKinds DEF locals, Recording, Program
<1>1. CASE Store(t)
  BY <1>1, LeaveClears, GotoKeeps DEF Store
<1>2. CASE StoreCreate(t)
  <2>1. Guarded(stack[t], tls[t].in_tool)
    BY DEF IInv
  <2>2. stack[t] \in Seq(Frames) /\ Len(stack[t]) > 0 /\ stack[t][Len(stack[t])] = "created"
    BY <1>2, <2>1 DEF Guarded, StoreCreate, Goto, Top
  <2>3. tls[t].in_tool
    BY <2>1, <2>2 DEF Guarded
  <2> QED
    BY <1>2, <2>3, GotoKeeps DEF StoreCreate, IInv
<1>3. CASE LockToInsert(t)
  <2>1. Guarded(stack[t], tls[t].in_tool)
    BY DEF IInv
  <2>2. stack[t] \in Seq(Frames) /\ Len(stack[t]) > 0 /\ stack[t][Len(stack[t])] = "insert"
    BY <1>3, <2>1 DEF Guarded, LockToInsert, Goto, Top
  <2>3. tls[t].in_tool
    BY <2>1, <2>2 DEF Guarded
  <2> QED
    BY <1>3, <2>3, GotoKeeps DEF LockToInsert, IInv
<1>4. CASE Insert(t)
  BY <1>4, LeaveClears, GotoKeeps DEF Insert
<1>5. CASE Join(t)
  <2>1. CASE Goto(t, "join", "store") /\ UNCHANGED tls
    <3>1. Guarded(stack[t], tls[t].in_tool)
      BY DEF IInv
    <3>2. stack[t] \in Seq(Frames) /\ Len(stack[t]) > 0 /\ stack[t][Len(stack[t])] = "join"
      BY <2>1, <3>1 DEF Guarded, Goto, Top
    <3>3. tls[t].in_tool
      BY <3>1, <3>2 DEF Guarded
    <3> QED
      BY <2>1, <3>3, GotoKeeps DEF IInv
  <2>2. CASE Goto(t, "wait", "run") /\ Leave(t)
    BY <2>2, LeaveClears, GotoKeeps
  <2> QED
    BY <1>5, <2>1, <2>2 DEF Join
<1>6. CASE StoreSample(t)
  BY <1>6, LeaveClears, PopKeeps DEF StoreSample
<1> QED
  BY <1>1, <1>2, <1>3, <1>4, <1>5, <1>6 DEF WrapperStep

LEMMA ExitSteps ==
  ASSUME IInv, NEW t \in Threads, ExitStep(t)
  PROVE  IInv'
<1> USE FrameKinds DEF locals, Shutdown
<1>1. CASE ExitMark(t)
  <2> DEFINE r == [tls[t] EXCEPT !.unsafe = TRUE]
  <2>1. r \in Locals /\ r.in_tool = tls[t].in_tool
    BY WithUnsafe DEF IInv
  <2>2. tls' = [tls EXCEPT ![t] = r]
    BY <1>1 DEF ExitMark
  <2> QED
    BY <1>1, <2>1, <2>2, OtherLocals, GotoKeeps DEF ExitMark
<1>2. CASE ExitKill(t)
  BY <1>2, NoStack DEF ExitKill, IInv
<1>3. CASE ExitKilled(t)
  BY <1>3, GotoKeeps DEF ExitKilled, IInv
<1>4. CASE ExitJoin(t)
  BY <1>4, NoStack DEF ExitJoin, IInv
<1>5. CASE ExitJoined(t)
  <2> DEFINE b == Allocated(tls[t].unsafe)  r == [tls[t] EXCEPT !.unsafe = b]
  <2>1. tls[t] \in Locals /\ b \in BOOLEAN
    BY AllocatedType DEF IInv, Locals
  <2>2. r \in Locals /\ r.in_tool = tls[t].in_tool
    BY <2>1, WithUnsafe
  <2>3. tls' = [tls EXCEPT ![t] = r]
    BY <1>5 DEF ExitJoined
  <2> QED
    BY <1>5, <2>2, <2>3, OtherLocals, GotoKeeps DEF ExitJoined
<1>6. CASE ExitStore(t)
  BY <1>6, GotoKeeps DEF ExitStore, IInv
<1>7. CASE ExitFini(t)
  BY <1>7, CallKeeps DEF ExitFini, Finalise
<1>8. CASE ExitBackend(t)
  BY <1>8, GotoKeeps DEF ExitBackend, IInv
<1>9. CASE ExitSet(t)
  BY <1>9, GotoKeeps DEF ExitSet, IInv
<1> QED
  BY <1>1, <1>2, <1>3, <1>4, <1>5, <1>6, <1>7, <1>8, <1>9 DEF ExitStep

(* The new thread and the one that creates it get new locals.              *)
LEMMA CreateLocals ==
  ASSUME IInv, NEW t \in Threads, NEW w \in Threads, t # w, NEW r \in Locals,
         tls' = [tls EXCEPT ![t] = r, ![w] = Fresh]
  PROVE  /\ tls' \in [Threads -> Locals]
         /\ \A u \in Threads \ {t, w} : tls'[u].in_tool = tls[u].in_tool
         /\ tls'[t].in_tool = r.in_tool
<1>1. Fresh \in Locals
  BY DEF Fresh, Locals
<1> QED
  BY <1>1 DEF IInv

LEMMA CreateSteps ==
  ASSUME IInv, NEW t \in Threads, CreateStep(t)
  PROVE  IInv'
<1>1. CASE EnterCreate(t)
  BY <1>1, EnterSets, GotoKeeps, FrameKinds DEF EnterCreate, Guard, Recording, Program
<1>2. tls[t] \in Locals
  BY DEF IInv
<1>3. ASSUME NEW w \in Workers, CreateUnguarded(t, w) PROVE IInv'
  <2>1. RealCreate(t, w, "run", "run", "plain") /\ w \in Threads /\ t # w
    BY <1>3 DEF CreateUnguarded, RealCreate, Unused, Threads
  <2>2. tls' = [tls EXCEPT ![t] = [tls[t] EXCEPT !.unsafe = FALSE], ![w] = Fresh]
    BY <1>3 DEF CreateUnguarded
  <2>3. /\ tls' \in [Threads -> Locals]
        /\ \A u \in Threads \ {t, w} : tls'[u].in_tool = tls[u].in_tool
    BY <1>2, <2>1, <2>2, WithUnsafe, CreateLocals
  <2> QED
    BY <2>1, <2>3, CreateKeeps, FrameKinds DEF Program
<1>4. ASSUME NEW w \in Workers, CreateLate(t, w) PROVE IInv'
  <2>1. RealCreate(t, w, "run", "insert", "plain") /\ w \in Threads /\ t # w
    BY <1>4 DEF CreateLate, RealCreate, Unused, Threads
  <2> DEFINE r == [tls[t] EXCEPT !.in_tool = TRUE, !.unsafe = FALSE]
  <2>2. tls' = [tls EXCEPT ![t] = r, ![w] = Fresh]
    BY <1>4 DEF CreateLate
  <2>3. r \in Locals /\ r.in_tool
    BY <1>2 DEF Locals
  <2>4. /\ tls' \in [Threads -> Locals] /\ tls'[t].in_tool
        /\ \A u \in Threads \ {t, w} : tls'[u].in_tool = tls[u].in_tool
    BY <2>1, <2>2, <2>3, CreateLocals
  <2>5. ~tls[t].in_tool
    BY <1>4 DEF CreateLate, Guard
  <2> QED
    BY <2>1, <2>4, <2>5, CreateKeeps, FrameKinds DEF Program, Recording
<1>5. ASSUME NEW w \in Workers, Create(t, w) PROVE IInv'
  <2>1. RealCreate(t, w, "create", "created", "start") /\ w \in Threads /\ t # w
    BY <1>5 DEF Create, RealCreate, Unused, Threads
  <2>2. Guarded(stack[t], tls[t].in_tool)
    BY DEF IInv
  <2>3. stack[t] \in Seq(Frames) /\ Len(stack[t]) > 0 /\ stack[t][Len(stack[t])] = "create"
    BY <2>1, <2>2 DEF Guarded, RealCreate, Top
  <2>4. tls[t].in_tool
    BY <2>2, <2>3 DEF Guarded, Recording
  <2>5. tls' = [tls EXCEPT ![t] = [tls[t] EXCEPT !.unsafe = FALSE], ![w] = Fresh]
    BY <1>5 DEF Create
  <2>6. /\ tls' \in [Threads -> Locals] /\ tls'[t].in_tool
        /\ \A u \in Threads \ {t, w} : tls'[u].in_tool = tls[u].in_tool
    BY <1>2, <2>1, <2>4, <2>5, WithUnsafe, CreateLocals
  <2> QED
    BY <2>1, <2>6, CreateKeeps, FrameKinds DEF Program, Recording
<1> QED
  BY <1>1, <1>3, <1>4, <1>5 DEF CreateStep

LEMMA ProgramSteps ==
  ASSUME IInv, NEW t \in Threads, ProgramStep(t)
  PROVE  IInv'
<1> USE FrameKinds DEF Recording, Program, Shutdown, locals
<1>1. CASE EnterWrapper(t)
  BY <1>1, EnterSets, GotoKeeps DEF EnterWrapper, Guard
<1>2. CASE CreateStep(t)
  BY <1>2, CreateSteps
<1>3. CASE Exit(t)
  BY <1>3, GotoKeeps DEF Exit, IInv
<1>4. ASSUME NEW w \in Workers, EnterJoin(t, w) PROVE IInv'
  <2>1. CASE Guard(t)
    BY <1>4, <2>1, EnterSets, GotoKeeps DEF EnterJoin, Guard
  <2>2. CASE ~Guard(t)
    BY <1>4, <2>2, GotoKeeps DEF EnterJoin, IInv
  <2> QED
    BY <2>1, <2>2
<1>5. ASSUME NEW w \in Workers, Detach(t, w) PROVE IInv'
  <2>1. CASE Guard(t) /\ Goto(t, "run", "store") /\ Enter(t)
    BY <2>1, EnterSets, GotoKeeps DEF Guard
  <2>2. CASE UNCHANGED <<stack, tls>>
    BY <2>2, NoStack DEF IInv
  <2> QED
    BY <1>5, <2>1, <2>2 DEF Detach
<1> QED
  BY <1>1, <1>2, <1>3, <1>4, <1>5 DEF ProgramStep

-----------------------------------------------------------------------------
LEMMA SampleKeeps ==
  ASSUME IInv, NEW t \in Threads, PushSample(t)
  PROVE  IInv'
<1>1. CASE Guard(t)
  BY <1>1, EnterSets, PushKeeps, FrameKinds DEF PushSample, Guard
<1>2. CASE ~Guard(t)
  BY <1>2, NoStack DEF PushSample, IInv
<1> QED
  BY <1>1, <1>2

LEMMA SignalSteps == ASSUME IInv, Signal PROVE IInv'
<1>1. ASSUME NEW t \in Threads, Timer(t) PROVE IInv'
  BY <1>1, SampleKeeps DEF Timer
<1>2. ASSUME NEW w \in Workers, DeliverSample(w) PROVE IInv'
  BY <1>2, SampleKeeps DEF DeliverSample, Threads
<1>3. ASSUME NEW w \in Workers, DeliverExit(w) PROVE IInv'
  BY <1>3, PushKeeps, FrameKinds DEF DeliverExit, Threads, Finalise, locals, IInv
<1> QED
  BY <1>1, <1>2, <1>3 DEF Signal

LEMMA NextIInv == IInv /\ [Next]_vars => IInv'
<1> SUFFICES ASSUME IInv, [Next]_vars PROVE IInv'
  OBVIOUS
<1>1. CASE UNCHANGED vars
  BY <1>1, NoStack DEF vars, locals, IInv
<1>2. ASSUME NEW t \in Threads, ProgramStep(t) \/ ToolStep(t) PROVE IInv'
  BY <1>2, ProgramSteps, FiniSteps, WrapperSteps, ExitSteps DEF ToolStep
<1>3. ASSUME NEW w \in Workers,
             ThreadStep(w) \/ Return(w) \/ ExitThread(w) \/ ExitUnrecorded(w)
      PROVE  IInv'
  BY <1>3, ThreadSteps
<1>4. CASE Signal
  BY <1>4, SignalSteps
<1> QED
  BY <1>1, <1>2, <1>3, <1>4 DEF Next

(* The guard works, for any number of threads, any order of the set and    *)
(* any signals: a thread never makes a record inside another one           *)
(* (safe.hpp:32-41).                                                       *)
THEOREM GuardKeepsStoresApart == Spec => []StoresDoNotNest
<1>1. IInv => StoresDoNotNest
  <2> SUFFICES ASSUME IInv, NEW t \in Threads PROVE
        \A i, j \in DOMAIN stack[t] :
          stack[t][i] \in Recording /\ stack[t][j] \in Recording => i = j
    BY DEF StoresDoNotNest
  <2>1. Guarded(stack[t], tls[t].in_tool)
    BY DEF IInv
  <2>2. DOMAIN stack[t] = 1 .. Len(stack[t])
    BY <2>1 DEF Guarded
  <2> QED
    BY <2>1, <2>2 DEF Guarded
<1> QED
  BY InitIInv, NextIInv, <1>1, PTL DEF Spec
=============================================================================
