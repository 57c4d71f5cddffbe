---------------------------- MODULE MCMemoryPool ----------------------------
(* Instances of MemoryPool for TLC.                                        *)
EXTENDS MemoryPool

CONSTANTS p1, p2
=============================================================================
