--------------------------- MODULE MCSectionFile ---------------------------
(* Instances of SectionFile for TLC: two threads of the creating process   *)
(* and one or two of a process that joins later.                           *)
EXTENDS SectionFile, TLC

CONSTANTS p1, p2, t1, t2, t3

ProcOfThree == (t1 :> p1) @@ (t2 :> p1) @@ (t3 :> p2)
=============================================================================
