---------------------------- MODULE RecordQueue ----------------------------
(***************************************************************************)
(* What the memory pool promises (lib/accl/matrix/host/mt_memory_pool.cpp, *)
(* include/record/mt_memory_pool.h): the records written are consumed one  *)
(* after the other in the order in which they were written, none is lost   *)
(* and none comes twice. Records are numbered in that order.               *)
(***************************************************************************)
EXTENDS Naturals, Sequences

VARIABLES
  queue,      (* the records written and not yet consumed                 *)
  written,    (* how many have been written                               *)
  delivered   (* how many have been consumed                              *)

vars == <<queue, written, delivered>>

Init == queue = <<>> /\ written = 0 /\ delivered = 0

Put ==
  /\ written' = written + 1
  /\ queue' = Append(queue, written + 1)
  /\ UNCHANGED delivered

Take ==
  /\ queue # <<>> /\ Head(queue) = delivered + 1
  /\ delivered' = delivered + 1
  /\ queue' = Tail(queue)
  /\ UNCHANGED written

Next == Put \/ Take

Spec == Init /\ [][Next]_vars
=============================================================================
