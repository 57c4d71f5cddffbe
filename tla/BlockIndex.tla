----------------------------- MODULE BlockIndex -----------------------------
(***************************************************************************)
(* Where a data section keeps the id of its block number e                 *)
(* (BlockManager::getDataBlockId in lib/pse/src/fsl/fsl_lib.cpp and        *)
(* DataSectionDescBlock in include/fsl/fsl_block.h): in one of its own     *)
(* direct words, or below one of its indirects, in an index block at the   *)
(* end of a path of as many index blocks as the level says.                *)
(***************************************************************************)
EXTENDS Integers

CONSTANTS
  Direct,  (* DataSectionDescBlock::ENTRY_NUM                              *)
  Fan,     (* NoDescIndirectBlock::ENTRY_NUM                               *)
  Levels   (* INDIRECT_LEVEL                                               *)

ASSUME BlockIndexAssumption ==
  Direct \in Nat \ {0} /\ Fan \in Nat \ {0} /\ Levels \in Nat \ {0}

(* detail::power of Fan (which squares and multiplies).                    *)
power[b \in 0 .. Levels] == IF b = 0 THEN 1 ELSE Fan * power[b - 1]

(* LEVELS_ENTRY_SUM: how many entries there are up to a level.             *)
LEVELS_ENTRY_SUM[l \in 0 .. Levels] ==
  IF l = 0 THEN Direct ELSE LEVELS_ENTRY_SUM[l - 1] + power[l]

Capacity == LEVELS_ENTRY_SUM[Levels]

(* The first level whose sum lies above the entry; 0 is the section itself. *)
Level == [e \in 0 .. Capacity - 1 |->
  CHOOSE l \in 0 .. Levels :
    e < LEVELS_ENTRY_SUM[l] /\ \A k \in 0 .. l - 1 : e >= LEVELS_ENTRY_SUM[k]]

(* The word of the k-th index block on the path: each divides what the one *)
(* before has left by the number of entries below each of its words.       *)
topEntryId == [e \in Direct .. Capacity - 1 |-> [k \in 1 .. Level[e] |->
  LET l    == Level[e]
      left == (e - LEVELS_ENTRY_SUM[l - 1]) % power[l - k + 1]
  IN  left \div power[l - k]]]

=============================================================================
