---------------------------- MODULE MCDeviceTrace ----------------------------
(* Instances of DeviceTrace for TLC.                                       *)
EXTENDS DeviceTrace, TLC

CONSTANTS
  MaxDisorder,  (* bound: kernels started, once calls were out of order    *)
  MaxRaced      (* bound: kernels started, once one ran during a collection *)

KernelBound ==
  /\ disorder => execs <= MaxDisorder
  /\ raced # {} => execs <= MaxRaced

(* Nothing tells one cluster from another.                                 *)
ClusterSymmetry == Permutations(Clusters)
=============================================================================
