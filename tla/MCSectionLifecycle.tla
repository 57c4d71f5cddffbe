------------------------- MODULE MCSectionLifecycle -------------------------
(* Instances of SectionLifecycle for TLC: two or three writers and a       *)
(* reader, pages of two blocks.                                            *)
EXTENDS SectionLifecycle

CONSTANTS w1, w2, w3, r1
=============================================================================
