--------------------------- MODULE MCDataSection ---------------------------
(* Instances of DataSection for TLC: two sections, small blocks and pages. *)
EXTENDS DataSection

CONSTANTS s1, s2

(* The path of an entry. The paths lead to every word there is, and no two *)
(* to the same: in the order of the entries they count up the words of     *)
(* each level.                                                             *)
Path(e) == [k \in 1 .. Level[e] |-> topEntryId[e][k]]

ASSUME PathsCountTheWords ==
  /\ \A l \in 1 .. Levels :
       {Path(e) : e \in {f \in DOMAIN Level : Level[f] = l}} = [1 .. l -> 0 .. Fan - 1]
  /\ \A e, f \in DOMAIN Level : Level[e] = Level[f] /\ Level[e] > 0 /\ f = e + 1 =>
       \E k \in 1 .. Level[e] :
         /\ Path(f)[k] = Path(e)[k] + 1
         /\ \A j \in 1 .. k - 1 : Path(f)[j] = Path(e)[j]
=============================================================================
