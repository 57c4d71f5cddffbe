---------------------------- MODULE MCSectionDir ----------------------------
(* Instances of SectionDir for TLC.                                        *)
EXTENDS SectionDir

CONSTANTS t1, t2

Op(m, k, d) == [mode |-> m, kind |-> k, desc |-> d]

(* One desc more than there are slots, one of them with both kinds, and no *)
(* desc.                                                                   *)
OpsFour ==
  {Op("create", "dir", d) : d \in 0 .. 4} \cup {Op("create", "data", 2)}
    \cup {Op("lookup", "dir", 2), Op("type", "data", 1)}
=============================================================================
