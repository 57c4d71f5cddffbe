------------------------- MODULE DataSectionProofs -------------------------
(***************************************************************************)
(* Proofs about the data sections of a file, for any sections, sizes of    *)
(* blocks and pages, and any shape of the index.                           *)
(***************************************************************************)
EXTENDS DataSection, FiniteSetTheorems, FunctionTheorems, WellFoundedInduction, TLAPS

(* A set of naturals with an element has a least one: the element, or one  *)
(* that comes after its predecessor.                                       *)
Less == {p \in Nat \X Nat : p[1] < p[2]}

LEMMA LeastNatural ==
  ASSUME NEW S \in SUBSET Nat, S # {}
  PROVE  \E n \in S : n \in Nat /\ (\A m \in S : n <= m) /\ (n # 0 => n - 1 \in Nat \ S)
<1>1. IsWellFoundedOn(Less, Nat)
  BY NatLessThanWellFounded DEF OpToRel, Less
<1>2. PICK n \in S : \A m \in S : ~(<<m, n>> \in Less)
  BY <1>1, WFMin
<1>3. ASSUME NEW m \in S PROVE n <= m
  <2>1. <<m, n>> \in Nat \X Nat /\ <<m, n>>[1] = m /\ <<m, n>>[2] = n
    OBVIOUS
  <2>2. ~(m < n)
    BY <1>2, <2>1 DEF Less
  <2>3. QED
    BY <2>2
<1>4. n # 0 => n - 1 \in Nat \ S
  BY <1>3
<1>5. QED
  BY <1>3, <1>4

-----------------------------------------------------------------------------
(* The functions of BlockIndex, whose definitions are recursive: each has  *)
(* a value because a shortest row of values without a next one cannot be.  *)
LEMMA PowerDef ==
  power = [b \in 0 .. Levels |-> IF b = 0 THEN 1 ELSE Fan * power[b - 1]]
<1> DEFINE Row(n, f) == f = [b \in 0 .. n |-> IF b = 0 THEN 1 ELSE Fan * f[b - 1]]
           Missing == {n \in Nat : ~ \E f : Row(n, f)}
<1>1. Missing = {}
  <2> SUFFICES ASSUME Missing # {} PROVE FALSE
    OBVIOUS
  <2>1. PICK n \in Missing : n \in Nat /\ (n # 0 => n - 1 \in Nat \ Missing)
    BY LeastNatural
  <2>2. CASE n = 0
    <3>1. Row(0, [b \in 0 .. 0 |-> 1])
      OBVIOUS
    <3>2. QED
      BY <2>1, <2>2, <3>1
  <2>3. CASE n # 0
    <3>1. PICK f : Row(n - 1, f)
      BY <2>1, <2>3
    <3> DEFINE g == [b \in 0 .. n |-> IF b = n THEN Fan * f[n - 1] ELSE f[b]]
    <3>2. Row(n, g)
      BY <2>1, <2>3, <3>1
    <3>3. QED
      BY <2>1, <3>2
  <2>4. QED
    BY <2>2, <2>3
<1>2. \E f : Row(Levels, f)
  BY <1>1, BlockIndexAssumption
<1>3. QED
  BY <1>2 DEF power

LEMMA SumDef ==
  LEVELS_ENTRY_SUM =
    [l \in 0 .. Levels |-> IF l = 0 THEN Direct ELSE LEVELS_ENTRY_SUM[l - 1] + power[l]]
<1> DEFINE Row(n, f) == f = [l \in 0 .. n |-> IF l = 0 THEN Direct ELSE f[l - 1] + power[l]]
           Missing == {n \in Nat : ~ \E f : Row(n, f)}
<1>1. Missing = {}
  <2> SUFFICES ASSUME Missing # {} PROVE FALSE
    OBVIOUS
  <2>1. PICK n \in Missing : n \in Nat /\ (n # 0 => n - 1 \in Nat \ Missing)
    BY LeastNatural
  <2>2. CASE n = 0
    <3>1. Row(0, [l \in 0 .. 0 |-> Direct])
      OBVIOUS
    <3>2. QED
      BY <2>1, <2>2, <3>1
  <2>3. CASE n # 0
    <3>1. PICK f : Row(n - 1, f)
      BY <2>1, <2>3
    <3> DEFINE g == [l \in 0 .. n |-> IF l = n THEN f[n - 1] + power[n] ELSE f[l]]
    <3>2. Row(n, g)
      <4>1. ASSUME NEW l \in 0 .. n
            PROVE  g[l] = IF l = 0 THEN Direct ELSE g[l - 1] + power[l]
        <5>1. CASE l = n
          BY <2>1, <2>3, <5>1
        <5>2. CASE l # n
          <6>1. l \in 0 .. n - 1 /\ l \in 0 .. n /\ g[l] = f[l]
            BY <2>1, <5>2
          <6>2. f[l] = IF l = 0 THEN Direct ELSE f[l - 1] + power[l]
            BY <3>1, <6>1
          <6>3. l # 0 => l - 1 \in 0 .. n /\ l - 1 # n /\ g[l - 1] = f[l - 1]
            BY <2>1, <6>1
          <6>4. QED
            BY <6>1, <6>2, <6>3
        <5>3. QED
          BY <5>1, <5>2
      <4>2. QED
        BY <4>1
    <3>3. QED
      BY <2>1, <3>2
  <2>4. QED
    BY <2>2, <2>3
<1>2. \E f : Row(Levels, f)
  BY <1>1, BlockIndexAssumption
<1>3. QED
  BY <1>2 DEF LEVELS_ENTRY_SUM

(* The powers and the sums are naturals, ...                               *)
LEMMA PowerType == \A b \in 0 .. Levels : power[b] \in Nat \ {0}
<1> DEFINE Wrong == {b \in 0 .. Levels : power[b] \notin Nat \ {0}}
<1> SUFFICES ASSUME Wrong # {} PROVE FALSE
  OBVIOUS
<1>1. PICK n \in Wrong : n \in Nat /\ (n # 0 => n - 1 \in Nat \ Wrong)
  <2>1. Wrong \in SUBSET Nat
    BY BlockIndexAssumption
  <2>2. QED
    <3> HIDE DEF Wrong
    <3>1. QED
      BY <2>1, LeastNatural
<1>2. n \in 0 .. Levels /\ Levels \in Nat /\ Fan \in Nat \ {0}
  BY <1>1, BlockIndexAssumption
<1>3. CASE n = 0
  BY <1>1, <1>2, <1>3, PowerDef
<1>4. CASE n # 0
  <2>1. n - 1 \in 0 .. Levels /\ power[n - 1] \in Nat \ {0}
    BY <1>1, <1>2, <1>4
  <2>2. power[n] = Fan * power[n - 1]
    BY <1>2, <1>4, PowerDef
  <2>3. Fan * power[n - 1] \in Nat \ {0}
    BY <1>2, <2>1
  <2>4. QED
    BY <1>1, <2>2, <2>3
<1>5. QED
  BY <1>3, <1>4

LEMMA SumType == \A l \in 0 .. Levels : LEVELS_ENTRY_SUM[l] \in Nat \ {0}
<1> DEFINE Wrong == {l \in 0 .. Levels : LEVELS_ENTRY_SUM[l] \notin Nat \ {0}}
<1> SUFFICES ASSUME Wrong # {} PROVE FALSE
  OBVIOUS
<1>1. PICK n \in Wrong : n \in Nat /\ (n # 0 => n - 1 \in Nat \ Wrong)
  <2>1. Wrong \in SUBSET Nat
    BY BlockIndexAssumption
  <2>2. QED
    <3> HIDE DEF Wrong
    <3>1. QED
      BY <2>1, LeastNatural
<1>2. n \in 0 .. Levels /\ Levels \in Nat /\ Direct \in Nat \ {0}
  BY <1>1, BlockIndexAssumption
<1>3. CASE n = 0
  BY <1>1, <1>2, <1>3, SumDef
<1>4. CASE n # 0
  <2>1. n - 1 \in 0 .. Levels /\ LEVELS_ENTRY_SUM[n - 1] \in Nat \ {0}
    BY <1>1, <1>2, <1>4
  <2>2. LEVELS_ENTRY_SUM[n] = LEVELS_ENTRY_SUM[n - 1] + power[n]
    BY <1>2, <1>4, SumDef
  <2>3. power[n] \in Nat \ {0}
    BY <1>2, PowerType
  <2>4. QED
    BY <1>1, <2>1, <2>2, <2>3
<1>5. QED
  BY <1>3, <1>4

(* ... so that every entry has a level, the first whose sum lies above it, *)
LEMMA LevelDef ==
  ASSUME NEW e \in 0 .. Capacity - 1
  PROVE  /\ Level[e] \in 0 .. Levels
         /\ e < LEVELS_ENTRY_SUM[Level[e]]
         /\ \A k \in 0 .. Level[e] - 1 : e >= LEVELS_ENTRY_SUM[k]
<1> DEFINE Above == {l \in 0 .. Levels : e < LEVELS_ENTRY_SUM[l]}
<1>1. Levels \in Nat /\ Levels \in 0 .. Levels /\ Capacity \in Nat
  BY BlockIndexAssumption, SumType DEF Capacity
<1>2. Levels \in Above
  BY <1>1, BlockIndexAssumption DEF Capacity
<1>3. PICK n \in Above : n \in Nat /\ \A m \in Above : n <= m
  <2>1. Above \in SUBSET Nat
    BY <1>1
  <2>2. QED
    <3> HIDE DEF Above
    <3>1. QED
      BY <1>2, <2>1, LeastNatural
<1>4. ASSUME NEW k \in 0 .. n - 1 PROVE e >= LEVELS_ENTRY_SUM[k]
  <2>1. k \in 0 .. Levels /\ k \notin Above
    BY <1>1, <1>3
  <2>2. LEVELS_ENTRY_SUM[k] \in Nat /\ ~(e < LEVELS_ENTRY_SUM[k])
    BY <2>1, SumType
  <2>3. QED
    BY <1>1, <2>2
<1>5. \E l \in 0 .. Levels : e < LEVELS_ENTRY_SUM[l] /\ \A k \in 0 .. l - 1 : e >= LEVELS_ENTRY_SUM[k]
  BY <1>3, <1>4
<1>6. QED
  BY <1>5 DEF Level

(* ... namely 0 for the direct entries,                                    *)
LEMMA LevelZero ==
  ASSUME NEW e \in 0 .. Capacity - 1
  PROVE  Level[e] = 0 <=> e < Direct
<1>1. LEVELS_ENTRY_SUM[0] = Direct /\ Levels \in Nat /\ Direct \in Nat /\ Capacity \in Nat
  BY BlockIndexAssumption, SumDef, SumType DEF Capacity
<1>2. Level[e] \in 0 .. Levels
  BY LevelDef
<1>3. CASE Level[e] = 0
  BY <1>1, <1>3, LevelDef
<1>4. CASE Level[e] # 0
  <2>1. 0 \in 0 .. Level[e] - 1
    BY <1>1, <1>2, <1>4
  <2>2. e >= LEVELS_ENTRY_SUM[0]
    BY <2>1, LevelDef
  <2>3. QED
    BY <1>1, <1>4, <2>2
<1>5. QED
  BY <1>3, <1>4

(* A remainder of a multiple of F has fewer than so many multiples of F.   *)
LEMMA DigitBound ==
  ASSUME NEW x \in Nat, NEW Q \in Nat \ {0}, NEW F \in Nat \ {0}
  PROVE  (x % (Q * F)) \div F \in 0 .. Q - 1
<1>1. Q * F \in Nat \ {0}
  OBVIOUS
<1> DEFINE y == x % (Q * F)
<1>2. y \in Nat /\ y < Q * F
  BY <1>1
<1> HIDE DEF y
<1>3. y \div F \in Nat /\ (y \div F) * F <= y
  BY <1>2
<1>4. ASSUME y \div F >= Q PROVE FALSE
  <2>1. (y \div F) * F >= Q * F
    BY <1>3, <1>4
  <2>2. QED
    BY <1>1, <1>2, <1>3, <2>1
<1>5. y \div F \in 0 .. Q - 1
  BY <1>3, <1>4
<1>6. QED
  BY <1>5 DEF y

(* and the path of every other entry stays inside the index blocks.        *)
LEMMA PathType ==
  ASSUME NEW e \in 0 .. Capacity - 1, NEW k \in 1 .. Level[e]
  PROVE  topEntryId[e][k] \in 0 .. Fan - 1
<1>1. Level[e] \in 0 .. Levels /\ Levels \in Nat /\ Direct \in Nat \ {0} /\ Fan \in Nat \ {0}
  BY BlockIndexAssumption, LevelDef
<1>2. e \in Direct .. Capacity - 1
  BY <1>1, LevelZero, SumType DEF Capacity
<1> DEFINE l == Level[e]
           x == e - LEVELS_ENTRY_SUM[l - 1]
<1>3. x \in Nat
  <2>1. l - 1 \in 0 .. l - 1 /\ l - 1 \in 0 .. Levels
    BY <1>1
  <2>2. e >= LEVELS_ENTRY_SUM[l - 1] /\ LEVELS_ENTRY_SUM[l - 1] \in Nat
    BY <2>1, LevelDef, SumType
  <2>3. QED
    BY <1>1, <1>2, <2>2
<1>4. l - k \in 0 .. Levels /\ l - k + 1 \in 0 .. Levels /\ l - k + 1 # 0
  BY <1>1
<1>5. power[l - k + 1] = Fan * power[l - k] /\ power[l - k] \in Nat \ {0}
  <2>1. power[l - k + 1] = Fan * power[(l - k + 1) - 1]
    BY <1>4, PowerDef
  <2>2. (l - k + 1) - 1 = l - k
    BY <1>4
  <2>3. QED
    BY <1>4, <2>1, <2>2, PowerType
<1>6. (x % power[l - k + 1]) \div power[l - k] \in 0 .. Fan - 1
  <2> HIDE DEF x, l
  <2>1. QED
    BY <1>1, <1>3, <1>5, DigitBound
<1>7. QED
  BY <1>2, <1>6 DEF topEntryId

-----------------------------------------------------------------------------
(* The walk to an entry has one value per block on the way.                *)
WalkStep(w, above) ==
  CASE w[3] = 0 /\ Level[w[2]] = 0 -> direct[w[1]][w[2]]
    [] w[3] = 0 /\ Level[w[2]] > 0 -> indirects[w[1]][Level[w[2]]]
    [] w[3] \in 1 .. Level[w[2]] ->
         IF above = 0 THEN 0 ELSE blockIds[above][topEntryId[w[2]][w[3]]]
    [] OTHER -> 0

LEMMA FirstStep ==
  ASSUME NEW w, w[3] = 0, NEW a, NEW b
  PROVE  WalkStep(w, a) = WalkStep(w, b)
<1>1. w[3] \notin 1 .. Level[w[2]]
  OBVIOUS
<1>2. WalkStep(w, a) = WalkStep(w, a)
  OBVIOUS
<1>3. QED
  BY <1>1 DEF WalkStep

LEMMA WalkIsStepwise ==
  Walk = [w \in Secs \X Indices \X (0 .. Levels) |->
            WalkStep(w, Walk[<<w[1], w[2], w[3] - 1>>])]
<1> DEFINE Places(n) == Secs \X Indices \X (0 .. n)
           Row(n, f) == f = [w \in Places(n) |-> WalkStep(w, f[<<w[1], w[2], w[3] - 1>>])]
           Missing == {n \in Nat : ~ \E f : Row(n, f)}
<1>1. Missing = {}
  <2> SUFFICES ASSUME Missing # {} PROVE FALSE
    OBVIOUS
  <2>1. PICK n \in Missing : n \in Nat /\ (n # 0 => n - 1 \in Nat \ Missing)
    BY LeastNatural
  <2>2. CASE n = 0
    <3>1. Row(0, [w \in Places(0) |-> WalkStep(w, 0)])
      <4>1. ASSUME NEW w \in Places(0), NEW a, NEW b PROVE WalkStep(w, a) = WalkStep(w, b)
        BY FirstStep
      <4>2. QED
        BY <4>1
    <3>2. QED
      BY <2>1, <2>2, <3>1
  <2>3. CASE n # 0
    <3>1. PICK f : Row(n - 1, f)
      BY <2>1, <2>3
    <3> DEFINE g == [w \in Places(n) |->
                       IF w[3] = n THEN WalkStep(w, f[<<w[1], w[2], n - 1>>]) ELSE f[w]]
    <3>2. Row(n, g)
      <4>1. ASSUME NEW w \in Places(n)
            PROVE  g[w] = WalkStep(w, g[<<w[1], w[2], w[3] - 1>>])
        <5>1. CASE w[3] = n
          <6>1. /\ <<w[1], w[2], n - 1>> \in Places(n)
                /\ <<w[1], w[2], n - 1>>[3] # n
                /\ g[<<w[1], w[2], n - 1>>] = f[<<w[1], w[2], n - 1>>]
            BY <2>1, <2>3
          <6>2. QED
            BY <5>1, <6>1
        <5>2. CASE w[3] # n
          <6>1. w \in Places(n - 1) /\ g[w] = f[w]
            BY <2>1, <5>2
          <6>2. f[w] = WalkStep(w, f[<<w[1], w[2], w[3] - 1>>])
            BY <3>1, <6>1
          <6>3. CASE w[3] = 0
            <7>1. ASSUME NEW a, NEW b PROVE WalkStep(w, a) = WalkStep(w, b)
              BY <6>3, FirstStep
            <7>2. QED
              BY <6>1, <6>2, <7>1
          <6>4. CASE w[3] # 0
            <7>1. PICK v : v = <<w[1], w[2], w[3] - 1>>
              OBVIOUS
            <7>2. w[1] \in Secs /\ w[2] \in Indices /\ w[3] \in 0 .. n
              OBVIOUS
            <7>3. w[3] - 1 \in 0 .. n /\ w[3] - 1 # n
              BY <2>1, <6>4, <7>2
            <7>4. v \in Places(n) /\ v[3] # n
              BY <7>1, <7>2, <7>3
            <7>5. g[v] = f[v]
              BY <7>4
            <7>6. QED
              BY <6>1, <6>2, <7>1, <7>5
          <6>5. QED
            BY <6>3, <6>4
        <5>3. QED
          BY <5>1, <5>2
      <4>2. QED
        BY <4>1
    <3>3. QED
      BY <2>1, <3>2
  <2>4. QED
    BY <2>2, <2>3
<1>2. \E f : Row(Levels, f)
  BY <1>1, BlockIndexAssumption
<1>3. QED
  BY <1>2 DEF Walk, WalkStep

(* The entries of a section have levels.                                   *)
LEMMA IndexType ==
  ASSUME NEW e \in Indices
  PROVE  /\ e \in 0 .. Capacity - 1 /\ e \in Nat
         /\ Level[e] \in 0 .. Levels /\ Levels \in Nat
<1>1. Capacity \in Nat /\ Levels \in Nat
  BY BlockIndexAssumption, SumType DEF Capacity
<1>2. Index(MaxSize) \in Nat /\ Index(MaxSize) < Capacity
  BY DataSectionAssumption DEF Index
<1>3. e \in 0 .. Capacity - 1 /\ e \in Nat
  BY <1>1, <1>2 DEF Indices
<1>4. QED
  BY <1>1, <1>3, LevelDef

LEMMA WalkValue ==
  ASSUME NEW s \in Secs, NEW e \in Indices
  PROVE  /\ Level[e] = 0 => Walk[<<s, e, 0>>] = direct[s][e]
         /\ Level[e] > 0 => Walk[<<s, e, 0>>] = indirects[s][Level[e]]
         /\ \A k \in 1 .. Level[e] :
              Walk[<<s, e, k>>] = IF Walk[<<s, e, k - 1>>] = 0 THEN 0
                                  ELSE blockIds[Walk[<<s, e, k - 1>>]][topEntryId[e][k]]
<1>1. Level[e] \in 0 .. Levels /\ Levels \in Nat
  BY IndexType
<1>2. ASSUME NEW k \in 0 .. Level[e]
      PROVE  Walk[<<s, e, k>>] = WalkStep(<<s, e, k>>, Walk[<<s, e, k - 1>>])
  <2>1. <<s, e, k>> \in Secs \X Indices \X (0 .. Levels)
    BY <1>1
  <2>2. QED
    BY <2>1, WalkIsStepwise
<1>3. Walk[<<s, e, 0>>] = WalkStep(<<s, e, 0>>, Walk[<<s, e, 0 - 1>>])
  BY <1>1, <1>2
<1>4. ASSUME NEW k \in 1 .. Level[e]
      PROVE  Walk[<<s, e, k>>] = IF Walk[<<s, e, k - 1>>] = 0 THEN 0
                                 ELSE blockIds[Walk[<<s, e, k - 1>>]][topEntryId[e][k]]
  <2>1. Walk[<<s, e, k>>] = WalkStep(<<s, e, k>>, Walk[<<s, e, k - 1>>])
    BY <1>1, <1>2
  <2>2. QED
    BY <1>1, <2>1 DEF WalkStep
<1>5. Level[e] = 0 => Walk[<<s, e, 0>>] = direct[s][e]
  BY <1>3 DEF WalkStep
<1>6. Level[e] > 0 => Walk[<<s, e, 0>>] = indirects[s][Level[e]]
  BY <1>1, <1>3 DEF WalkStep
<1>7. QED
  BY <1>4, <1>5, <1>6

-----------------------------------------------------------------------------
(* The index blocks form trees: each has a height, that of the indirect    *)
(* word it hangs on, or one less than that of the index block it hangs on. *)
Trees ==
  /\ direct \in [Secs -> [0 .. Direct - 1 -> Nat]]
  /\ indirects \in [Secs -> [1 .. Levels -> Nat]]
  /\ blockIds \in [DOMAIN blockIds -> [0 .. Fan - 1 -> Nat]]

Heights(h) ==
  /\ h \in [DOMAIN blockIds -> 1 .. Levels]
  /\ \A s \in Secs, l \in 1 .. Levels : indirects[s][l] # 0 =>
       indirects[s][l] \in DOMAIN blockIds /\ h[indirects[s][l]] = l
  /\ \A b \in DOMAIN blockIds, j \in 0 .. Fan - 1 : h[b] > 1 /\ blockIds[b][j] # 0 =>
       blockIds[b][j] \in DOMAIN blockIds /\ h[blockIds[b][j]] = h[b] - 1

TreeInv == Trees /\ \E h : Heights(h)

(* A walk yields ids, those on the way index blocks of falling height.     *)
LEMMA WalkType ==
  ASSUME Trees, NEW h, Heights(h), NEW s \in Secs, NEW e \in Indices,
         NEW k \in 0 .. Level[e]
  PROVE  /\ Walk[<<s, e, k>>] \in Nat
         /\ k < Level[e] /\ Walk[<<s, e, k>>] # 0 =>
              Walk[<<s, e, k>>] \in DOMAIN blockIds /\ h[Walk[<<s, e, k>>]] = Level[e] - k
<1> DEFINE Right(m) == /\ Walk[<<s, e, m>>] \in Nat
                       /\ m < Level[e] /\ Walk[<<s, e, m>>] # 0 =>
                            /\ Walk[<<s, e, m>>] \in DOMAIN blockIds
                            /\ h[Walk[<<s, e, m>>]] = Level[e] - m
           Wrong == {m \in 0 .. Level[e] : ~Right(m)}
<1>1. e \in 0 .. Capacity - 1 /\ e \in Nat /\ Level[e] \in 0 .. Levels /\ Levels \in Nat
  BY IndexType
<1> SUFFICES ASSUME Wrong # {} PROVE FALSE
  BY <1>1
<1>2. PICK n \in Wrong : n \in Nat /\ (n # 0 => n - 1 \in Nat \ Wrong)
  <2>1. Wrong \in SUBSET Nat
    BY <1>1
  <2>2. QED
    <3> HIDE DEF Wrong
    <3>1. QED
      BY <2>1, LeastNatural
<1>3. CASE n = 0 /\ Level[e] = 0
  <2>1. e < Direct
    BY <1>1, <1>3, LevelZero
  <2>2. e \in 0 .. Direct - 1 /\ Walk[<<s, e, 0>>] = direct[s][e]
    BY <1>1, <1>3, <2>1, WalkValue, BlockIndexAssumption
  <2>3. Walk[<<s, e, 0>>] \in Nat
    <3>1. direct[s] \in [0 .. Direct - 1 -> Nat]
      BY DEF Trees
    <3>2. QED
      BY <2>2, <3>1
  <2>4. QED
    BY <1>2, <1>3, <2>3
<1>4. CASE n = 0 /\ Level[e] # 0
  <2>1. Level[e] \in 1 .. Levels /\ Level[e] > 0
    BY <1>1, <1>4
  <2>2. Walk[<<s, e, 0>>] = indirects[s][Level[e]]
    BY <2>1, WalkValue
  <2>3. indirects[s][Level[e]] \in Nat
    BY <2>1 DEF Trees
  <2>4. indirects[s][Level[e]] # 0 =>
          indirects[s][Level[e]] \in DOMAIN blockIds /\ h[indirects[s][Level[e]]] = Level[e]
    BY <2>1 DEF Heights
  <2>5. QED
    BY <1>2, <1>4, <2>1, <2>2, <2>3, <2>4
<1>5. CASE n # 0
  <2>1. n \in 1 .. Level[e] /\ n - 1 \in 0 .. Level[e] /\ n - 1 < Level[e] /\ n - 1 \notin Wrong
    BY <1>1, <1>2, <1>5
  <2>2. Right(n - 1)
    BY <2>1
  <2> DEFINE above == Walk[<<s, e, n - 1>>]
             j     == topEntryId[e][n]
  <2>3. Walk[<<s, e, n>>] = IF above = 0 THEN 0 ELSE blockIds[above][j]
    BY <2>1, WalkValue
  <2>4. CASE above = 0
    BY <1>2, <2>3, <2>4
  <2>5. CASE above # 0
    <3>1. above \in DOMAIN blockIds /\ h[above] = Level[e] - (n - 1)
      BY <2>1, <2>2, <2>5
    <3>2. j \in 0 .. Fan - 1
      BY <1>1, <2>1, PathType
    <3>3. blockIds[above][j] \in Nat
      BY <3>1, <3>2 DEF Trees
    <3>4. ASSUME n < Level[e], blockIds[above][j] # 0
          PROVE  blockIds[above][j] \in DOMAIN blockIds /\ h[blockIds[above][j]] = Level[e] - n
      <4>1. h[above] > 1 /\ h[above] - 1 = Level[e] - n
        BY <1>1, <2>1, <3>1, <3>4
      <4>2. QED
        BY <3>1, <3>2, <3>4, <4>1 DEF Heights
    <3>5. QED
      BY <1>2, <2>3, <2>5, <3>3, <3>4
  <2>6. QED
    BY <2>4, <2>5
<1>6. QED
  BY <1>3, <1>4, <1>5

(* A level has as many words as the index below it; what is written where. *)
Into(s, e, k) ==
  IF k = 0 THEN IF Level[e] = 0 THEN <<"direct", s, e>> ELSE <<"indirects", s, Level[e]>>
  ELSE <<"blockIds", Walk[<<s, e, k - 1>>], topEntryId[e][k]>>

(* The two ways SetWord is used: for the block itself, and for a new index *)
(* block where the walk ends.                                              *)
Leaf(s, e, b) == Enters(s, e, b) /\ HasPath(s, e)

WithBlock(new) ==
  [b \in DOMAIN blockIds \cup {new} |-> IF b = new THEN NoIds ELSE blockIds[b]]

Branch(s, e, k, new) ==
  /\ k \in 0 .. Level[e] - 1
  /\ \A j \in 0 .. k - 1 : Walk[<<s, e, j>>] # 0
  /\ Walk[<<s, e, k>>] = 0
  /\ SetWord(s, e, k, new, WithBlock(new))

(* AllocateIndex is such a branch.                                         *)
LEMMA IndexIsBranch ==
  ASSUME NEW s \in Secs, Sought(s) \in Indices, AllocateIndex(s)
  PROVE  \E k \in 0 .. Level[Sought(s)] - 1 : Branch(s, Sought(s), k, blockAllocated)
<1> DEFINE e == Sought(s)
           Missing == {k \in 0 .. Level[e] - 1 : Walk[<<s, e, k>>] = 0}
           Ends(k) == Walk[<<s, e, k>>] = 0 /\ \A j \in 0 .. k - 1 : Walk[<<s, e, j>>] # 0
           K == CHOOSE k \in 0 .. Level[e] - 1 : Ends(k)
<1>1. Level[e] \in Nat
  BY IndexType
<1>2. Missing # {} /\ Missing \in SUBSET Nat
  BY <1>1 DEF AllocateIndex, HasPath
<1>3. PICK n \in Missing : n \in Nat /\ \A m \in Missing : n <= m
  <2> HIDE DEF Missing
  <2>1. QED
    BY <1>2, LeastNatural
<1>4. n \in 0 .. Level[e] - 1 /\ Ends(n)
  <2>1. ASSUME NEW j \in 0 .. n - 1 PROVE Walk[<<s, e, j>>] # 0
    <3>1. j \in 0 .. Level[e] - 1 /\ j < n /\ j \in Nat
      BY <1>1, <1>3
    <3>2. j \notin Missing
      <4> HIDE DEF Missing
      <4>1. QED
        BY <1>3, <3>1
    <3>3. QED
      BY <3>1, <3>2
  <2>2. QED
    BY <1>3, <2>1
<1>5. K \in 0 .. Level[e] - 1 /\ Ends(K)
  <2> HIDE DEF Ends
  <2>1. QED
    BY <1>4
<1>6. SetWord(s, e, K, blockAllocated, WithBlock(blockAllocated))
  BY DEF AllocateIndex, WithBlock
<1>7. Branch(s, e, K, blockAllocated)
  <2> HIDE DEF K, e
  <2>1. QED
    BY <1>5, <1>6 DEF Branch
<1>8. QED
  <2> HIDE DEF K
  <2>1. QED
    BY <1>5, <1>7

(* Entering a block keeps the trees: it hangs on a section or on an index  *)
(* block of height 1.                                                      *)
LEMMA LeafKeepsTrees ==
  ASSUME TreeInv, NEW s \in Secs, NEW e \in Indices, NEW b \in Nat, Leaf(s, e, b)
  PROVE  TreeInv' /\ DOMAIN blockIds' = DOMAIN blockIds
<1>1. e \in 0 .. Capacity - 1 /\ e \in Nat /\ Level[e] \in 0 .. Levels /\ Levels \in Nat
  BY IndexType
<1>2. PICK h : Heights(h)
  BY DEF TreeInv
<1>3. Trees
  BY DEF TreeInv
<1>4. CASE Level[e] = 0
  <2>1. direct' = [direct EXCEPT ![s][e] = b] /\ indirects' = indirects /\ blockIds' = blockIds
    BY <1>4 DEF Leaf, Enters, SetWord
  <2>2. Trees'
    <3>1. direct' \in [Secs -> [0 .. Direct - 1 -> Nat]]
      BY <1>3, <2>1 DEF Trees
    <3>2. QED
      BY <1>3, <2>1, <3>1 DEF Trees
  <2>3. Heights(h)'
    BY <1>2, <2>1 DEF Heights
  <2>4. QED
    BY <2>1, <2>2, <2>3 DEF TreeInv
<1>5. CASE Level[e] # 0
  <2> DEFINE l == Level[e]
             up == Walk[<<s, e, l - 1>>]
             j == topEntryId[e][l]
  <2>1. l - 1 \in 0 .. l - 1 /\ l - 1 \in 0 .. l /\ l \in 1 .. l /\ l - 1 < l
    BY <1>1, <1>5
  <2>2. up # 0
    BY <2>1 DEF Leaf, HasPath
  <2>3. up \in DOMAIN blockIds /\ h[up] = 1
    <3>1. up \in DOMAIN blockIds /\ h[up] = l - (l - 1)
      BY <1>2, <1>3, <2>1, <2>2, WalkType
    <3>2. QED
      BY <1>1, <3>1
  <2>4. j \in 0 .. Fan - 1
    BY <1>1, <2>1, PathType
  <2>5. /\ direct' = direct /\ indirects' = indirects
        /\ blockIds' = [blockIds EXCEPT ![up][j] = b]
    BY <1>1, <1>5 DEF Leaf, Enters, SetWord
  <2> HIDE DEF up, j, l
  <2>6. DOMAIN blockIds' = DOMAIN blockIds
    BY <2>5
  <2>7. Trees'
    <3>1. blockIds' \in [DOMAIN blockIds -> [0 .. Fan - 1 -> Nat]]
      BY <1>3, <2>3, <2>4, <2>5 DEF Trees
    <3>2. QED
      BY <1>3, <2>5, <2>6, <3>1 DEF Trees
  <2>8. Heights(h)'
    <3>1. h \in [DOMAIN blockIds' -> 1 .. Levels]
      BY <1>2, <2>6 DEF Heights
    <3>2. ASSUME NEW t \in Secs, NEW m \in 1 .. Levels, indirects'[t][m] # 0
          PROVE  indirects'[t][m] \in DOMAIN blockIds' /\ h[indirects'[t][m]] = m
      BY <1>2, <2>5, <2>6, <3>2 DEF Heights
    <3>3. ASSUME NEW c \in DOMAIN blockIds', NEW g \in 0 .. Fan - 1,
                 h[c] > 1, blockIds'[c][g] # 0
          PROVE  blockIds'[c][g] \in DOMAIN blockIds' /\ h[blockIds'[c][g]] = h[c] - 1
      <4>1. c # up /\ c \in DOMAIN blockIds
        BY <2>3, <2>6, <3>3
      <4>2. blockIds'[c] = blockIds[c]
        BY <2>5, <4>1
      <4>3. QED
        BY <1>2, <2>6, <3>3, <4>1, <4>2 DEF Heights
    <3>4. QED
      BY <3>1, <3>2, <3>3 DEF Heights
  <2>9. QED
    BY <2>6, <2>7, <2>8 DEF TreeInv
<1>6. QED
  BY <1>4, <1>5

(* A new index block gets the height of the place where it is hung.        *)
LEMMA BranchKeepsTrees ==
  ASSUME TreeInv, NEW s \in Secs, NEW e \in Indices, NEW new \in Nat \ {0},
         new \notin DOMAIN blockIds, NEW k \in 0 .. Level[e] - 1, Branch(s, e, k, new)
  PROVE  TreeInv' /\ DOMAIN blockIds' = DOMAIN blockIds \cup {new}
<1>1. /\ e \in 0 .. Capacity - 1 /\ e \in Nat /\ Level[e] \in 1 .. Levels /\ Levels \in Nat
      /\ k \in Nat /\ k < Level[e]
  BY IndexType
<1>2. PICK h : Heights(h)
  BY DEF TreeInv
<1>3. Trees
  BY DEF TreeInv
<1> DEFINE D == DOMAIN blockIds \cup {new}
           with == WithBlock(new)
           Grown == [b \in D |-> IF b = new THEN Level[e] - k ELSE h[b]]
<1>4. DOMAIN with = D /\ with[new] = NoIds /\ \A b \in DOMAIN blockIds : with[b] = blockIds[b]
  BY DEF WithBlock
<1>5. with \in [D -> [0 .. Fan - 1 -> Nat]]
  <2>1. NoIds \in [0 .. Fan - 1 -> Nat]
    BY DEF NoIds
  <2>2. ASSUME NEW b \in DOMAIN blockIds PROVE blockIds[b] \in [0 .. Fan - 1 -> Nat]
    BY <1>3 DEF Trees
  <2>3. QED
    BY <2>1, <2>2 DEF WithBlock
<1>6. PICK H : /\ H \in [D -> 1 .. Levels] /\ H[new] = Level[e] - k
               /\ \A b \in DOMAIN blockIds : H[b] = h[b]
  <2>1. Level[e] - k \in 1 .. Levels
    BY <1>1
  <2>2. \A b \in DOMAIN blockIds : h[b] \in 1 .. Levels
    BY <1>2 DEF Heights
  <2>3. /\ Grown \in [D -> 1 .. Levels] /\ Grown[new] = Level[e] - k
        /\ \A b \in DOMAIN blockIds : Grown[b] = h[b]
    BY <2>1, <2>2
  <2>4. QED
    BY <2>3
<1> HIDE DEF with
<1>7. CASE k = 0
  <2>1. direct' = direct /\ indirects' = [indirects EXCEPT ![s][Level[e]] = new] /\ blockIds' = with
    BY <1>1, <1>7 DEF Branch, SetWord, with
  <2>2. Trees'
    <3>1. indirects' \in [Secs -> [1 .. Levels -> Nat]]
      BY <1>1, <1>3, <2>1 DEF Trees
    <3>2. QED
      BY <1>3, <1>4, <1>5, <2>1, <3>1 DEF Trees
  <2>3. Heights(H)'
    <3>1. H \in [DOMAIN blockIds' -> 1 .. Levels]
      BY <1>4, <1>6, <2>1
    <3>2. ASSUME NEW t \in Secs, NEW m \in 1 .. Levels, indirects'[t][m] # 0
          PROVE  indirects'[t][m] \in DOMAIN blockIds' /\ H[indirects'[t][m]] = m
      <4>1. CASE t = s /\ m = Level[e]
        <5>1. indirects'[t][m] = new
          BY <1>1, <1>3, <2>1, <4>1 DEF Trees
        <5>2. QED
          BY <1>1, <1>4, <1>6, <1>7, <2>1, <4>1, <5>1
      <4>2. CASE ~(t = s /\ m = Level[e])
        <5>1. indirects'[t][m] = indirects[t][m]
          BY <1>1, <1>3, <2>1, <4>2 DEF Trees
        <5>2. QED
          BY <1>2, <1>4, <1>6, <2>1, <3>2, <5>1 DEF Heights
      <4>3. QED
        BY <4>1, <4>2
    <3>3. ASSUME NEW c \in DOMAIN blockIds', NEW g \in 0 .. Fan - 1,
                 H[c] > 1, blockIds'[c][g] # 0
          PROVE  blockIds'[c][g] \in DOMAIN blockIds' /\ H[blockIds'[c][g]] = H[c] - 1
      <4>1. c # new
        BY <1>4, <2>1, <3>3 DEF NoIds
      <4>2. c \in DOMAIN blockIds /\ blockIds'[c] = blockIds[c]
        BY <1>4, <2>1, <4>1
      <4>3. QED
        BY <1>2, <1>4, <1>6, <2>1, <3>3, <4>2 DEF Heights
    <3>4. QED
      BY <3>1, <3>2, <3>3 DEF Heights
  <2>4. QED
    BY <1>4, <2>1, <2>2, <2>3 DEF TreeInv
<1>8. CASE k # 0
  <2> DEFINE up == Walk[<<s, e, k - 1>>]
             j == topEntryId[e][k]
  <2>1. k - 1 \in 0 .. k - 1 /\ k - 1 \in 0 .. Level[e] /\ k \in 1 .. Level[e] /\ k - 1 < Level[e]
    BY <1>1, <1>8
  <2>2. up # 0
    BY <2>1 DEF Branch
  <2>3. up \in DOMAIN blockIds /\ h[up] = Level[e] - (k - 1)
    BY <1>2, <1>3, <2>1, <2>2, WalkType
  <2>4. j \in 0 .. Fan - 1
    BY <1>1, <2>1, PathType
  <2>5. /\ direct' = direct /\ indirects' = indirects
        /\ blockIds' = [with EXCEPT ![up][j] = new]
    BY <1>1, <1>8 DEF Branch, SetWord, with
  <2> HIDE DEF up, j
  <2>6. up # new /\ H[up] = Level[e] - (k - 1) /\ H[new] = H[up] - 1
    BY <1>1, <1>6, <2>3
  <2>7. DOMAIN blockIds' = D
    BY <1>4, <2>5
  <2>8. Trees'
    <3>1. blockIds' \in [D -> [0 .. Fan - 1 -> Nat]]
      BY <1>5, <2>3, <2>4, <2>5
    <3>2. QED
      BY <1>3, <2>5, <2>7, <3>1 DEF Trees
  <2>9. Heights(H)'
    <3>1. H \in [DOMAIN blockIds' -> 1 .. Levels]
      BY <1>6, <2>7
    <3>2. ASSUME NEW t \in Secs, NEW m \in 1 .. Levels, indirects'[t][m] # 0
          PROVE  indirects'[t][m] \in DOMAIN blockIds' /\ H[indirects'[t][m]] = m
      BY <1>2, <1>6, <2>5, <2>7, <3>2 DEF Heights
    <3>3. ASSUME NEW c \in DOMAIN blockIds', NEW g \in 0 .. Fan - 1,
                 H[c] > 1, blockIds'[c][g] # 0
          PROVE  blockIds'[c][g] \in DOMAIN blockIds' /\ H[blockIds'[c][g]] = H[c] - 1
      <4>1. c # new
        BY <1>4, <2>5, <2>6, <3>3 DEF NoIds
      <4>2. c \in DOMAIN blockIds
        BY <2>7, <4>1
      <4>3. CASE c = up /\ g = j
        <5>1. blockIds'[c][g] = new
          BY <1>4, <1>5, <2>3, <2>4, <2>5, <4>3
        <5>2. QED
          BY <2>6, <2>7, <4>3, <5>1
      <4>4. CASE ~(c = up /\ g = j)
        <5>1. blockIds'[c][g] = blockIds[c][g]
          BY <1>4, <1>5, <2>3, <2>4, <2>5, <4>2, <4>4
        <5>2. QED
          BY <1>2, <1>6, <2>7, <3>3, <4>2, <5>1 DEF Heights
      <4>5. QED
        BY <4>3, <4>4
    <3>4. QED
      BY <3>1, <3>2, <3>3 DEF Heights
  <2>10. QED
    BY <2>7, <2>8, <2>9 DEF TreeInv
<1>9. QED
  BY <1>7, <1>8

-----------------------------------------------------------------------------
(* The words of the sections and index blocks, one by one.                 *)
LEMMA WordKinds ==
  ASSUME NEW w \in Words
  PROVE  \/ \E t \in Secs, m \in 0 .. Direct - 1 :
              w = <<"direct", t, m>> /\ IdAt(w) = direct[t][m]
         \/ \E t \in Secs, m \in 1 .. Levels :
              w = <<"indirects", t, m>> /\ IdAt(w) = indirects[t][m]
         \/ \E c \in DOMAIN blockIds, g \in 0 .. Fan - 1 :
              w = <<"blockIds", c, g>> /\ IdAt(w) = blockIds[c][g]
  BY DEF Words, IdAt

LEMMA WordKindsPrimed ==
  ASSUME NEW w \in Words'
  PROVE  \/ \E t \in Secs, m \in 0 .. Direct - 1 :
              w = <<"direct", t, m>> /\ IdAt(w)' = direct'[t][m]
         \/ \E t \in Secs, m \in 1 .. Levels :
              w = <<"indirects", t, m>> /\ IdAt(w)' = indirects'[t][m]
         \/ \E c \in DOMAIN blockIds', g \in 0 .. Fan - 1 :
              w = <<"blockIds", c, g>> /\ IdAt(w)' = blockIds'[c][g]
  BY DEF Words, IdAt

LEMMA WordValues ==
  /\ \A t \in Secs, m \in 0 .. Direct - 1 :
       <<"direct", t, m>> \in Words /\ IdAt(<<"direct", t, m>>) = direct[t][m]
  /\ \A t \in Secs, m \in 1 .. Levels :
       <<"indirects", t, m>> \in Words /\ IdAt(<<"indirects", t, m>>) = indirects[t][m]
  /\ \A c \in DOMAIN blockIds, g \in 0 .. Fan - 1 :
       <<"blockIds", c, g>> \in Words /\ IdAt(<<"blockIds", c, g>>) = blockIds[c][g]
  BY DEF Words, IdAt

(* Entering a block changes one word, ...                                  *)
LEMMA LeafWords ==
  ASSUME TreeInv, NEW s \in Secs, NEW e \in Indices, NEW b \in Nat, Leaf(s, e, b),
         NEW w \in Words'
  PROVE  /\ w \in Words
         /\ IdAt(w)' = IF w = Into(s, e, Level[e]) THEN b ELSE IdAt(w)
<1>1. e \in 0 .. Capacity - 1 /\ e \in Nat /\ Level[e] \in 0 .. Levels /\ Levels \in Nat
  BY IndexType
<1>2. Trees /\ DOMAIN blockIds' = DOMAIN blockIds
  BY LeafKeepsTrees DEF TreeInv
<1>3. CASE Level[e] = 0
  <2>1. direct' = [direct EXCEPT ![s][e] = b] /\ indirects' = indirects /\ blockIds' = blockIds
    BY <1>3 DEF Leaf, Enters, SetWord
  <2>2. Into(s, e, Level[e]) = <<"direct", s, e>>
    BY <1>3 DEF Into
  <2>3. ASSUME NEW t \in Secs, NEW m \in 0 .. Direct - 1
        PROVE  direct'[t][m] = IF t = s /\ m = e THEN b ELSE direct[t][m]
    BY <1>2, <2>1 DEF Trees
  <2>4. QED
    BY <1>2, <2>1, <2>2, <2>3, WordKindsPrimed, WordValues
<1>4. CASE Level[e] # 0
  <2> DEFINE up == Walk[<<s, e, Level[e] - 1>>]
             j == topEntryId[e][Level[e]]
  <2>1. /\ direct' = direct /\ indirects' = indirects
        /\ blockIds' = [blockIds EXCEPT ![up][j] = b]
    BY <1>1, <1>4 DEF Leaf, Enters, SetWord
  <2>2. Into(s, e, Level[e]) = <<"blockIds", up, j>>
    BY <1>4 DEF Into
  <2> HIDE DEF up, j
  <2>3. ASSUME NEW c \in DOMAIN blockIds, NEW g \in 0 .. Fan - 1
        PROVE  blockIds'[c][g] = IF c = up /\ g = j THEN b ELSE blockIds[c][g]
    BY <1>2, <2>1 DEF Trees
  <2>4. QED
    BY <1>2, <2>1, <2>2, <2>3, WordKindsPrimed, WordValues
<1>5. QED
  BY <1>3, <1>4

(* ... and so does a new index block, whose own words are 0.               *)
LEMMA BranchWords ==
  ASSUME TreeInv, NEW s \in Secs, NEW e \in Indices, NEW new \in Nat \ {0},
         new \notin DOMAIN blockIds, NEW k \in 0 .. Level[e] - 1, Branch(s, e, k, new),
         NEW w \in Words'
  PROVE  IdAt(w)' = IF w = Into(s, e, k) THEN new ELSE IF w \in Words THEN IdAt(w) ELSE 0
<1>1. /\ e \in 0 .. Capacity - 1 /\ e \in Nat /\ Level[e] \in 1 .. Levels /\ Levels \in Nat
      /\ k \in Nat /\ k < Level[e]
  BY IndexType
<1>2. Trees /\ DOMAIN blockIds' = DOMAIN blockIds \cup {new} /\ Trees'
  BY BranchKeepsTrees DEF TreeInv
<1> DEFINE with == WithBlock(new)
<1>3. /\ DOMAIN with = DOMAIN blockIds \cup {new} /\ with[new] = NoIds
      /\ \A b \in DOMAIN blockIds : with[b] = blockIds[b]
  BY DEF WithBlock
<1>4. \A g \in 0 .. Fan - 1 : <<"blockIds", new, g>> \notin Words
  BY DEF Words
<1> HIDE DEF with
<1>5. CASE k = 0
  <2>1. direct' = direct /\ indirects' = [indirects EXCEPT ![s][Level[e]] = new] /\ blockIds' = with
    BY <1>1, <1>5 DEF Branch, SetWord, with
  <2>2. Into(s, e, k) = <<"indirects", s, Level[e]>>
    BY <1>1, <1>5 DEF Into
  <2>3. ASSUME NEW t \in Secs, NEW m \in 1 .. Levels
        PROVE  indirects'[t][m] = IF t = s /\ m = Level[e] THEN new ELSE indirects[t][m]
    BY <1>2, <2>1 DEF Trees
  <2>4. ASSUME NEW c \in DOMAIN blockIds', NEW g \in 0 .. Fan - 1
        PROVE  blockIds'[c][g] = IF c = new THEN 0 ELSE blockIds[c][g]
    BY <1>2, <1>3, <2>1 DEF NoIds
  <2>5. QED
    BY <1>2, <1>4, <2>1, <2>2, <2>3, <2>4, WordKindsPrimed, WordValues
<1>6. CASE k # 0
  <2> DEFINE up == Walk[<<s, e, k - 1>>]
             j == topEntryId[e][k]
  <2>1. /\ direct' = direct /\ indirects' = indirects
        /\ blockIds' = [with EXCEPT ![up][j] = new]
    BY <1>1, <1>6 DEF Branch, SetWord, with
  <2>2. Into(s, e, k) = <<"blockIds", up, j>>
    BY <1>6 DEF Into
  <2> HIDE DEF up, j
  <2>3. ASSUME NEW c \in DOMAIN blockIds', NEW g \in 0 .. Fan - 1
        PROVE  blockIds'[c][g] = IF c = up /\ g = j THEN new
                                 ELSE IF c = new THEN 0 ELSE blockIds[c][g]
    <3>1. with[c] \in [0 .. Fan - 1 -> Nat] /\ with[c][g] = IF c = new THEN 0 ELSE blockIds[c][g]
      <4>1. CASE c = new
        <5>1. NoIds \in [0 .. Fan - 1 -> Nat] /\ NoIds[g] = 0
          BY DEF NoIds
        <5>2. QED
          BY <1>3, <4>1, <5>1
      <4>2. CASE c # new
        <5>1. c \in DOMAIN blockIds /\ with[c] = blockIds[c]
          BY <1>2, <1>3, <4>2
        <5>2. blockIds[c] \in [0 .. Fan - 1 -> Nat]
          BY <1>2, <5>1 DEF Trees
        <5>3. QED
          BY <4>2, <5>1, <5>2
      <4>3. QED
        BY <4>1, <4>2
    <3>2. QED
      BY <1>2, <1>3, <2>1, <3>1
  <2>4. QED
    BY <1>2, <1>4, <2>1, <2>2, <2>3, WordKindsPrimed, WordValues
<1>7. QED
  BY <1>5, <1>6

-----------------------------------------------------------------------------
(* Quotients and remainders.                                               *)
LEMMA DivMod ==
  ASSUME NEW a \in Nat, NEW n \in Nat \ {0}
  PROVE  /\ a \div n \in Nat /\ a % n \in 0 .. n - 1
         /\ a = (a \div n) * n + (a % n)
  OBVIOUS

LEMMA QuotientAtLeast ==
  ASSUME NEW a \in Nat, NEW n \in Nat \ {0}, NEW q \in Nat, q * n <= a
  PROVE  q <= a \div n
<1> DEFINE d == a \div n
<1>1. d \in Nat /\ a % n \in 0 .. n - 1 /\ a = d * n + (a % n)
  BY DivMod
<1> HIDE DEF d
<1>2. ASSUME q >= d + 1 PROVE FALSE
  <2>1. q * n >= (d + 1) * n
    BY <1>1, <1>2
  <2>2. (d + 1) * n = d * n + n
    BY <1>1
  <2>3. QED
    BY <1>1, <2>1, <2>2
<1>3. q <= d
  BY <1>1, <1>2
<1>4. QED
  BY <1>3 DEF d

LEMMA QuotientBelow ==
  ASSUME NEW a \in Nat, NEW n \in Nat \ {0}, NEW q \in Nat, a < q * n
  PROVE  a \div n < q
<1> DEFINE d == a \div n
<1>1. d \in Nat /\ a % n \in 0 .. n - 1 /\ a = d * n + (a % n)
  BY DivMod
<1> HIDE DEF d
<1>2. ASSUME d >= q PROVE FALSE
  <2>1. d * n >= q * n
    BY <1>1, <1>2
  <2>2. QED
    BY <1>1, <2>1
<1>3. d < q
  BY <1>1, <1>2
<1>4. QED
  BY <1>3 DEF d

LEMMA IndexFloor ==
  ASSUME NEW a \in Nat
  PROVE  /\ Index(a) \in Nat /\ a % BlockSize \in 0 .. BlockSize - 1
         /\ a = Index(a) * BlockSize + (a % BlockSize)
         /\ Index(a) * BlockSize <= a
<1>1. BlockSize \in Nat \ {0}
  BY DataSectionAssumption
<1>2. /\ Index(a) \in Nat /\ a % BlockSize \in 0 .. BlockSize - 1
      /\ a = Index(a) * BlockSize + (a % BlockSize)
  BY <1>1, DivMod DEF Index
<1>3. QED
  BY <1>1, <1>2

LEMMA IndexMonotone ==
  ASSUME NEW a \in Nat, NEW b \in Nat, a <= b
  PROVE  Index(a) \in Nat /\ Index(b) \in Nat /\ Index(a) <= Index(b)
<1>1. BlockSize \in Nat \ {0}
  BY DataSectionAssumption
<1>2. Index(a) \in Nat /\ Index(a) * BlockSize <= a /\ Index(b) \in Nat
  BY <1>1, DivMod DEF Index
<1>3. Index(a) * BlockSize <= b
  BY <1>1, <1>2
<1>4. QED
  BY <1>1, <1>2, <1>3, QuotientAtLeast DEF Index

-----------------------------------------------------------------------------
(* What a writer knows of its call: the row it has still to write lies     *)
(* inside the section, a run it walks along is longer than the steps taken.*)
Call(s) ==
  /\ pc[s] = "idle" => len[s] = 0 /\ todo[s] = 0
  /\ pc[s] # "idle" =>
       /\ buf[s] = offset[s]
       /\ offset[s] + len[s] + todo[s] <= MaxSize
       /\ ~Beyond => offset[s] + len[s] + todo[s] <= sectionSize[s]
  /\ pc[s] = "header" =>
       /\ HeadLength <= MaxSize /\ sectionSize[s] = HeaderLen /\ todo[s] = 0
       /\ offset[s] + len[s] = HeaderLen
  /\ num[s] > 0 => len[s] > 0 /\ i[s] = 0 /\ num[s] <= Asked(s)
  /\ i[s] > 0 => len[s] > 0 /\ ~Single(s) /\ i[s] < Asked(s)
  /\ fresh[s] => i[s] > 0
  /\ \A p \in filled[s] : p < MaxSize /\ (~Beyond => p < sectionSize[s])

CallInv == \A s \in Secs : Call(s)

(* How many blocks a write asks for: at least one, and each of them for    *)
(* some of its cells.                                                      *)
LEMMA AskedType ==
  ASSUME TypeOK, NEW s \in Secs
  PROVE  /\ Asked(s) \in Nat
         /\ len[s] > 0 => Asked(s) >= 1
         /\ \A j \in Nat : len[s] > 0 /\ j < Asked(s) => j * BlockSize < len[s]
<1>1. BlockSize \in Nat \ {0} /\ len[s] \in Nat
  BY DataSectionAssumption DEF TypeOK
<1>2. CASE Single(s)
  BY <1>1, <1>2 DEF Asked
<1>3. CASE ~Single(s)
  <2> DEFINE a == len[s] + BlockSize - 1
             u == a \div BlockSize
  <2>1. a \in Nat /\ Asked(s) = u
    BY <1>1, <1>3 DEF Asked, upperBlockNum
  <2>2. u \in Nat /\ u * BlockSize <= a
    <3> HIDE DEF a
    <3>1. QED
      BY <1>1, <2>1, DivMod
  <2>3. 1 * BlockSize <= a => 1 <= u
    <3> HIDE DEF a
    <3>1. QED
      BY <1>1, <2>1, QuotientAtLeast
  <2> HIDE DEF u
  <2>4. ASSUME NEW j \in Nat, len[s] > 0, j < u PROVE j * BlockSize < len[s]
    <3>1. (j + 1) * BlockSize <= u * BlockSize
      BY <1>1, <2>2, <2>4
    <3>2. (j + 1) * BlockSize = j * BlockSize + BlockSize
      BY <1>1
    <3>3. QED
      BY <1>1, <2>1, <2>2, <3>1, <3>2
  <2>5. QED
    BY <1>1, <2>1, <2>2, <2>3, <2>4
<1>4. QED
  BY <1>2, <1>3

(* The entry a write looks for is one of the section's.                    *)
LEMMA SoughtType ==
  ASSUME TypeOK, NEW s \in Secs, Call(s), Looks(s)
  PROVE  Sought(s) \in Indices /\ Asked(s) \in Nat /\ Asked(s) >= 1
<1>1. /\ BlockSize \in Nat \ {0} /\ MaxSize \in Nat
      /\ len[s] \in Nat /\ offset[s] \in Nat /\ i[s] \in Nat /\ todo[s] \in Nat
  BY DataSectionAssumption DEF TypeOK
<1>2. len[s] > 0 /\ i[s] < Asked(s) /\ offset[s] + len[s] <= MaxSize
  BY <1>1 DEF Looks, Writing, Call
<1>3. Asked(s) \in Nat /\ Asked(s) >= 1 /\ i[s] * BlockSize < len[s]
  BY <1>1, <1>2, AskedType
<1>4. Index(offset[s]) \in Nat /\ Index(offset[s]) * BlockSize <= offset[s]
  BY <1>1, IndexFloor
<1>5. Sought(s) * BlockSize <= MaxSize
  <2>1. Sought(s) * BlockSize = Index(offset[s]) * BlockSize + i[s] * BlockSize
    BY <1>1, <1>4 DEF Sought
  <2>2. Index(offset[s]) * BlockSize \in Nat /\ i[s] * BlockSize \in Nat
    BY <1>1, <1>4
  <2>3. QED
    BY <1>1, <1>2, <1>3, <1>4, <2>1, <2>2
<1>6. Sought(s) \in Nat
  BY <1>1, <1>4 DEF Sought
<1>7. Sought(s) <= Index(MaxSize) /\ Index(MaxSize) \in Nat
  BY <1>1, <1>5, <1>6, QuotientAtLeast, DivMod DEF Index
<1>8. QED
  BY <1>3, <1>6, <1>7 DEF Indices

(* The memcpy copies something, and no more than there is.                 *)
LEMMA CopyLenType ==
  ASSUME TypeOK, NEW s \in Secs, Call(s), num[s] > 0
  PROVE  CopyLen(s) \in Nat /\ 1 <= CopyLen(s) /\ CopyLen(s) <= len[s]
<1>1. /\ BlockSize \in Nat \ {0} /\ num[s] \in Nat
      /\ len[s] \in Nat /\ offset[s] \in Nat /\ len[s] > 0
  BY DataSectionAssumption DEF TypeOK, Call
<1>2. offset[s] % BlockSize \in 0 .. BlockSize - 1
  BY <1>1, DivMod
<1>3. num[s] * BlockSize >= BlockSize /\ num[s] * BlockSize \in Nat
  BY <1>1
<1>4. QED
  BY <1>1, <1>2, <1>3 DEF CopyLen, Smaller

-----------------------------------------------------------------------------
(* The types of everything but the trees.                                  *)
Flat ==
  /\ sectionSize \in [Secs -> 0 .. MaxSize]
  /\ blockAllocated \in Nat /\ mapedEnd \in Nat
  /\ data \in [DOMAIN data -> Secs \X Nat]
  /\ pc \in [Secs -> {"idle", "write", "header"}]
  /\ offset \in [Secs -> Nat] /\ len \in [Secs -> Nat] /\ buf \in [Secs -> Nat]
  /\ blk \in [Secs -> Nat] /\ num \in [Secs -> Nat] /\ todo \in [Secs -> Nat]
  /\ i \in [Secs -> Nat] /\ fresh \in [Secs -> BOOLEAN]
  /\ filled \in [Secs -> SUBSET (0 .. MaxSize)]

LEMMA TypeParts == TypeOK <=> Trees /\ Flat
  BY DEF TypeOK, Trees, Flat

LEMMA TypePartsPrimed == TypeOK' <=> Trees' /\ Flat'
  BY DEF TypeOK, Trees, Flat

(* What a call knows holds on while its own variables do not change.       *)
LEMMA AskedKept ==
  ASSUME NEW t \in Secs, offset'[t] = offset[t], len'[t] = len[t]
  PROVE  Asked(t)' = Asked(t) /\ Single(t)' = Single(t)
  BY DEF Asked, Single, upperBlockNum

LEMMA CallKept ==
  ASSUME NEW t \in Secs, Call(t),
         sectionSize'[t] = sectionSize[t], pc'[t] = pc[t],
         offset'[t] = offset[t], len'[t] = len[t], buf'[t] = buf[t], todo'[t] = todo[t],
         num'[t] = num[t], i'[t] = i[t], fresh'[t] = fresh[t], filled'[t] = filled[t]
  PROVE  Call(t)'
<1>1. Asked(t)' = Asked(t) /\ Single(t)' = Single(t)
  BY AskedKept
<1>2. QED
  BY <1>1 DEF Call

LEMMA LoadedType ==
  ASSUME mapedEnd \in Nat, NEW b \in Nat
  PROVE  Loaded(b) \in Nat
<1>1. BlocksPerPage \in Nat \ {0}
  BY DataSectionAssumption
<1>2. Page(b) \in Nat
  BY <1>1, DivMod DEF Page
<1>3. QED
  BY <1>2 DEF Loaded, Larger

(* The sizes of the header, and what a writer may be given.                *)
LEMMA SizeTypes ==
  /\ BlockSize \in Nat \ {0} /\ BlocksPerPage \in Nat \ {0} /\ MaxSize \in Nat
  /\ HeaderLen \in Nat \ {0} /\ HeadLength \in Nat /\ HeaderLen <= HeadLength
  /\ Lens \subseteq Nat \ {0} /\ Offsets \subseteq Nat /\ Beyond \in BOOLEAN
  BY DataSectionAssumption

(* A call that begins or ends, or copies, finds no walk in progress.       *)
LEMMA NoWalk ==
  ASSUME TypeOK, NEW s \in Secs, Call(s)
  PROVE  /\ len[s] = 0 => num[s] = 0 /\ i[s] = 0 /\ fresh[s] = FALSE
         /\ num[s] > 0 => i[s] = 0 /\ fresh[s] = FALSE
         /\ pc[s] = "idle" => len[s] = 0
  BY DEF Call, TypeOK

(* The steps that begin and end calls keep the types and what calls know,  *)
(* and leave the trees and the counter alone.                              *)
LEMMA CallSteps ==
  ASSUME TypeOK, CallInv, NEW s \in Secs,
         \/ OpenData(s) \/ SetHead(s) \/ WriteCharacters(s) \/ Done(s)
         \/ \E n \in Lens : Append(s, n) \/ WriteString(s, n)
         \/ \E n \in Lens, p \in Offsets : WriteAt(s, p, n)
  PROVE  /\ TypeOK' /\ CallInv'
         /\ UNCHANGED <<tree, blockAllocated, blk, i, fresh, data, filled, num>>
         /\ fresh[s] = FALSE /\ num[s] = 0 /\ i[s] = 0 /\ len[s] = 0
         /\ \A t \in Secs \ {s} : /\ offset'[t] = offset[t] /\ len'[t] = len[t]
                                  /\ sectionSize'[t] = sectionSize[t] /\ todo'[t] = todo[t]
<1> DEFINE Goal == /\ Flat' /\ Call(s)'
                   /\ UNCHANGED <<tree, blockAllocated, blk, i, fresh, data, filled, num>>
                   /\ \A t \in Secs \ {s} :
                        /\ sectionSize'[t] = sectionSize[t] /\ pc'[t] = pc[t]
                        /\ offset'[t] = offset[t] /\ len'[t] = len[t]
                        /\ buf'[t] = buf[t] /\ todo'[t] = todo[t]
<1> USE SizeTypes DEF tree
<1>a. Flat /\ Trees /\ Call(s)
  BY TypeParts DEF CallInv
<1>b. /\ len[s] = 0 => num[s] = 0 /\ i[s] = 0 /\ fresh[s] = FALSE
      /\ pc[s] = "idle" => len[s] = 0
  BY <1>a, NoWalk
<1>c. len[s] = 0
  BY <1>b DEF OpenData, SetHead, WriteCharacters, Done, Append, WriteString, WriteAt, Goto
<1>1. ASSUME OpenData(s) PROVE Goal
  <2>1. Flat'
    BY <1>1, <1>a DEF Flat, Call, OpenData, Enter, Goto
  <2>2. Call(s)'
    BY <1>1, <1>a, <1>b, <1>c DEF Flat, Call, OpenData, Enter, Goto
  <2>3. QED
    BY <1>1, <1>a, <2>1, <2>2 DEF Flat, OpenData, Enter, Goto
<1>2. ASSUME NEW n \in Lens, Append(s, n) PROVE Goal
  <2>1. Flat'
    BY <1>2, <1>a DEF Flat, Call, Append, Enter, Goto
  <2>2. Call(s)'
    BY <1>2, <1>a, <1>b, <1>c DEF Flat, Call, Append, Enter, Goto
  <2>3. QED
    BY <1>2, <1>a, <2>1, <2>2 DEF Flat, Append, Enter, Goto
<1>3. ASSUME NEW n \in Lens, WriteString(s, n) PROVE Goal
  <2>1. Flat'
    BY <1>3, <1>a DEF Flat, Call, WriteString, Enter, Goto
  <2>2. Call(s)'
    BY <1>3, <1>a, <1>b, <1>c DEF Flat, Call, WriteString, Enter, Goto
  <2>3. QED
    BY <1>3, <1>a, <2>1, <2>2 DEF Flat, WriteString, Enter, Goto
<1>4. ASSUME NEW n \in Lens, NEW p \in Offsets, WriteAt(s, p, n) PROVE Goal
  <2>1. Flat'
    BY <1>4, <1>a DEF Flat, Call, WriteAt, Enter, Goto, CompareExchange
  <2>2. Call(s)'
    BY <1>4, <1>a, <1>b, <1>c DEF Flat, Call, WriteAt, Enter, Goto, CompareExchange
  <2>3. QED
    BY <1>4, <1>a, <2>1, <2>2 DEF Flat, WriteAt, Enter, Goto, CompareExchange
<1>5. ASSUME WriteCharacters(s) PROVE Goal
  <2>1. Flat'
    BY <1>5, <1>a DEF Flat, Call, WriteCharacters, Enter, Goto
  <2>2. Call(s)'
    BY <1>5, <1>a, <1>b, <1>c DEF Flat, Call, WriteCharacters, Enter, Goto
  <2>3. QED
    BY <1>5, <1>a, <2>1, <2>2 DEF Flat, WriteCharacters, Enter, Goto
<1>6. ASSUME SetHead(s) PROVE Goal
  <2>1. Flat'
    BY <1>6, <1>a DEF Flat, Call, SetHead, Leave, Goto
  <2>2. Call(s)'
    BY <1>6, <1>a, <1>b, <1>c DEF Flat, Call, SetHead, Leave, Goto
  <2>3. QED
    BY <1>6, <1>a, <2>1, <2>2 DEF Flat, SetHead, Leave, Goto
<1>7. ASSUME Done(s) PROVE Goal
  <2>1. Flat'
    BY <1>7, <1>a DEF Flat, Call, Done, Leave, Goto
  <2>2. Call(s)'
    BY <1>7, <1>a, <1>b, <1>c DEF Flat, Call, Done, Leave, Goto
  <2>3. QED
    BY <1>7, <1>a, <2>1, <2>2 DEF Flat, Done, Leave, Goto
<1>8. Goal
  BY <1>1, <1>2, <1>3, <1>4, <1>5, <1>6, <1>7
<1>9. Trees'
  BY <1>8, <1>a DEF Trees
<1>10. ASSUME NEW t \in Secs PROVE Call(t)'
  <2>1. CASE t = s
    BY <1>8, <2>1
  <2>2. CASE t # s
    BY <1>8, <2>2, CallKept DEF CallInv
  <2>3. QED
    BY <2>1, <2>2
<1>11. QED
  BY <1>8, <1>9, <1>10, <1>b, <1>c, TypePartsPrimed DEF CallInv

(* The memcpy moves the call forward.                                      *)
LEMMA CopyStep ==
  ASSUME TypeOK, CallInv, NEW s \in Secs, Copy(s)
  PROVE  /\ TypeOK' /\ CallInv'
         /\ UNCHANGED <<tree, blockAllocated, i, fresh>>
         /\ fresh[s] = FALSE
         /\ \A t \in Secs \ {s} : /\ offset'[t] = offset[t] /\ len'[t] = len[t]
                                  /\ blk'[t] = blk[t] /\ num'[t] = num[t]
                                  /\ filled'[t] = filled[t]
         /\ UNCHANGED <<sectionSize, todo>> /\ num'[s] = 0 /\ i[s] = 0
<1> USE SizeTypes DEF tree
<1> DEFINE to == blk[s] * BlockSize + (offset[s] % BlockSize)
           n  == CopyLen(s)
<1>1. Flat /\ Trees /\ Call(s)
  BY TypeParts DEF CallInv
<1>2. num[s] > 0 /\ i[s] = 0 /\ fresh[s] = FALSE /\ len[s] > 0 /\ pc[s] # "idle"
  BY <1>1, NoWalk DEF Copy, Call
<1>3. n \in Nat /\ 1 <= n /\ n <= len[s]
  BY <1>1, <1>2, CopyLenType
<1>4. to \in Nat
  <2>1. offset[s] \in Nat /\ blk[s] \in Nat
    BY <1>1 DEF Flat
  <2>2. offset[s] % BlockSize \in Nat
    BY <2>1, DivMod
  <2>3. blk[s] * BlockSize \in Nat
    BY <2>1
  <2>4. QED
    BY <2>2, <2>3
<1>5. /\ data' = [c \in DOMAIN data \cup to .. to + n - 1 |->
                    IF c \in to .. to + n - 1 THEN <<s, buf[s] + c - to>> ELSE data[c]]
      /\ filled' = [filled EXCEPT ![s] = @ \cup offset[s] .. offset[s] + n - 1]
      /\ offset' = [offset EXCEPT ![s] = @ + n]
      /\ buf' = [buf EXCEPT ![s] = @ + n]
      /\ len' = [len EXCEPT ![s] = @ - n]
      /\ blk' = [blk EXCEPT ![s] = 0]
      /\ num' = [num EXCEPT ![s] = 0]
      /\ UNCHANGED <<sectionSize, tree, blockAllocated, mapedEnd, pc, todo, i, fresh>>
  BY DEF Copy
<1> HIDE DEF to, n
<1>6. data' \in [DOMAIN data' -> Secs \X Nat]
  <2>1. ASSUME NEW c \in to .. to + n - 1 PROVE <<s, buf[s] + c - to>> \in Secs \X Nat
    <3>1. buf[s] \in Nat /\ c \in Nat /\ c >= to
      BY <1>1, <1>3, <1>4 DEF Flat
    <3>2. QED
      BY <1>4, <3>1
  <2>2. ASSUME NEW c \in DOMAIN data PROVE data[c] \in Secs \X Nat
    BY <1>1 DEF Flat
  <2>3. QED
    BY <1>5, <2>1, <2>2
<1>7. /\ offset[s] \in Nat /\ len[s] \in Nat /\ todo[s] \in Nat /\ buf[s] \in Nat
      /\ sectionSize[s] \in 0 .. MaxSize
      /\ offset[s] + len[s] + todo[s] <= MaxSize
      /\ ~Beyond => offset[s] + len[s] + todo[s] <= sectionSize[s]
  BY <1>1, <1>2 DEF Flat, Call
<1>8. filled' \in [Secs -> SUBSET (0 .. MaxSize)]
  <2>1. offset[s] .. offset[s] + n - 1 \subseteq 0 .. MaxSize
    BY <1>3, <1>7
  <2>2. QED
    BY <1>1, <1>5, <2>1 DEF Flat
<1>9. Flat'
  BY <1>1, <1>3, <1>5, <1>6, <1>7, <1>8 DEF Flat
<1>10. Call(s)'
  <2>1. /\ offset'[s] = offset[s] + n /\ len'[s] = len[s] - n /\ buf'[s] = buf[s] + n
        /\ num'[s] = 0 /\ i'[s] = 0 /\ fresh'[s] = FALSE
        /\ filled'[s] = filled[s] \cup offset[s] .. offset[s] + n - 1
        /\ pc'[s] = pc[s] /\ todo'[s] = todo[s] /\ sectionSize'[s] = sectionSize[s]
    BY <1>1, <1>2, <1>5 DEF Flat
  <2>2. ASSUME NEW p \in filled'[s] PROVE p < MaxSize /\ (~Beyond => p < sectionSize[s])
    <3>1. CASE p \in filled[s]
      BY <1>1, <3>1 DEF Call
    <3>2. CASE p \in offset[s] .. offset[s] + n - 1
      BY <1>3, <1>7, <3>2
    <3>3. QED
      BY <2>1, <2>2, <3>1, <3>2
  <2>3. QED
    BY <1>1, <1>2, <1>3, <1>7, <2>1, <2>2 DEF Call
<1>11. ASSUME NEW t \in Secs, t # s PROVE Call(t)'
  BY <1>1, <1>5, <1>11, CallKept DEF CallInv, Flat
<1>12. Trees'
  BY <1>1, <1>5 DEF Trees
<1>13. QED
  BY <1>1, <1>2, <1>5, <1>9, <1>10, <1>11, <1>12, TypePartsPrimed DEF CallInv, Flat

(* An entry is a number, and so is the end of a run on its page.           *)
LEMMA EntryType ==
  ASSUME TreeInv, NEW s \in Secs, NEW e \in Indices
  PROVE  Entry(s, e) \in Nat
<1>1. Level[e] \in 0 .. Level[e]
  BY IndexType
<1>2. PICK h : Heights(h)
  BY DEF TreeInv
<1>3. QED
  BY <1>1, <1>2, WalkType DEF TreeInv, Entry

LEMMA ContinuousType ==
  ASSUME NEW n \in Nat, NEW b \in Nat
  PROVE  /\ Continuous(n, b) \in Nat /\ Continuous(n, b) <= n
         /\ n >= 1 => Continuous(n, b) >= 1
<1>1. BlocksPerPage \in Nat \ {0} /\ b % BlocksPerPage \in 0 .. BlocksPerPage - 1
  BY SizeTypes, DivMod
<1>2. QED
  BY <1>1 DEF Continuous, Smaller

(* The steps of a walk that find blocks keep types, calls and trees.       *)
LEMMA FindSteps ==
  ASSUME TypeOK, CallInv, TreeInv, NEW s \in Secs,
         LoadOne(s) \/ LoadRun(s) \/ CompareNext(s)
  PROVE  /\ TypeOK' /\ CallInv'
         /\ UNCHANGED <<sectionSize, tree, blockAllocated, data, call, fresh, filled>>
         /\ fresh[s] = FALSE
         /\ \A t \in Secs \ {s} : i'[t] = i[t] /\ blk'[t] = blk[t] /\ num'[t] = num[t]
<1> USE SizeTypes DEF tree, call
<1> DEFINE Goal == /\ Flat' /\ Call(s)'
                   /\ UNCHANGED <<sectionSize, tree, blockAllocated, data, call, fresh, filled>>
                   /\ fresh[s] = FALSE
                   /\ \A t \in Secs \ {s} : i'[t] = i[t] /\ blk'[t] = blk[t] /\ num'[t] = num[t]
<1>1. Flat /\ Trees /\ Call(s) /\ Looks(s)
  BY TypeParts DEF CallInv, LoadOne, LoadRun, CompareNext, Finds
<1>2. Sought(s) \in Indices /\ Asked(s) \in Nat /\ Asked(s) >= 1
  BY <1>1, SoughtType
<1>3. Entry(s, Sought(s)) \in Nat /\ Loaded(Entry(s, Sought(s))) \in Nat
  BY <1>1, <1>2, EntryType, LoadedType DEF Flat
<1>4. len[s] > 0 /\ num[s] = 0 /\ i[s] < Asked(s) /\ i[s] \in Nat
  BY <1>1 DEF Looks, Writing, Flat
<1>5. UNCHANGED call => Asked(s)' = Asked(s) /\ Single(s)' = Single(s)
  BY AskedKept
<1>6. ASSUME LoadOne(s) PROVE Goal
  <2>1. Flat'
    BY <1>6, <1>1, <1>3 DEF LoadOne, Flat
  <2>2. i[s] = 0 /\ fresh[s] = FALSE /\ Asked(s) = 1
    BY <1>6, <1>1, <1>4 DEF LoadOne, Call, Flat, Asked
  <2>3. Call(s)'
    BY <1>6, <1>1, <1>4, <1>5, <2>2 DEF LoadOne, Flat, Call
  <2>4. QED
    BY <1>6, <1>1, <2>1, <2>2, <2>3 DEF LoadOne, Flat
<1>7. ASSUME LoadRun(s) PROVE Goal
  <2>1. Flat'
    BY <1>7, <1>1, <1>3 DEF LoadRun, Flat
  <2>2. i[s] = 0 /\ fresh[s] = FALSE
    BY <1>7, <1>1 DEF LoadRun, Call, Flat
  <2>3. Asked(s) > 1
    <3>1. BlockSize < len[s] /\ len[s] \in Nat
      BY <1>7, <1>1 DEF LoadRun, Single, Flat
    <3>2. Asked(s) = (len[s] + BlockSize - 1) \div BlockSize
      BY <1>7 DEF LoadRun, Asked, upperBlockNum
    <3>3. 2 * BlockSize <= len[s] + BlockSize - 1 /\ len[s] + BlockSize - 1 \in Nat
      BY <3>1
    <3>4. 2 <= (len[s] + BlockSize - 1) \div BlockSize
      BY <3>3, QuotientAtLeast
    <3>5. QED
      BY <1>2, <3>2, <3>4
  <2>4. Call(s)'
    BY <1>7, <1>1, <1>4, <1>5, <2>2, <2>3 DEF LoadRun, Flat, Call
  <2>5. QED
    BY <1>7, <1>1, <2>1, <2>2, <2>4 DEF LoadRun, Flat
<1>8. ASSUME CompareNext(s) PROVE Goal
  <2>1. Flat'
    BY <1>8, <1>1, <1>2, <1>4 DEF CompareNext, Flat
  <2>2. fresh[s] = FALSE /\ i[s] > 0
    BY <1>8, <1>1 DEF CompareNext, Flat
  <2>3. Call(s)'
    BY <1>8, <1>1, <1>2, <1>4, <1>5, <2>2 DEF CompareNext, Flat, Call
  <2>4. QED
    BY <1>8, <1>1, <2>1, <2>2, <2>3 DEF CompareNext, Flat
<1>9. Goal
  BY <1>6, <1>7, <1>8
<1>10. Trees'
  BY <1>1, <1>9 DEF Trees
<1>11. ASSUME NEW t \in Secs, t # s PROVE Call(t)'
  BY <1>9, <1>11, CallKept DEF CallInv
<1>12. QED
  BY <1>9, <1>10, <1>11, TypePartsPrimed DEF CallInv

(* A write that asks for a run asks for more than one block.               *)
LEMMA RunAsked ==
  ASSUME TypeOK, NEW s \in Secs, ~Single(s)
  PROVE  Asked(s) \in Nat /\ Asked(s) > 1
<1>1. BlockSize \in Nat \ {0}
  BY SizeTypes
<1>2. BlockSize < len[s] /\ len[s] \in Nat
  <2>1. len[s] \in Nat
    BY DEF TypeOK
  <2>2. ~(len[s] <= BlockSize)
    BY DEF Single
  <2>3. QED
    BY <1>1, <2>1, <2>2
<1>3. Asked(s) = (len[s] + BlockSize - 1) \div BlockSize
  BY DEF Asked, upperBlockNum
<1>4. 2 * BlockSize <= len[s] + BlockSize - 1 /\ len[s] + BlockSize - 1 \in Nat
  BY <1>1, <1>2
<1>5. 2 <= (len[s] + BlockSize - 1) \div BlockSize
  BY <1>1, <1>4, QuotientAtLeast
<1>6. QED
  BY <1>3, <1>5, AskedType

(* The steps that enter blocks keep types, calls and trees.                *)
EnterStep(s, b) ==
  \/ AllocateOne(s) /\ b = blockAllocated
  \/ AllocateRun(s) /\ b = blockAllocated
  \/ EnterNext(s) /\ b = blk[s] + i[s]

LEMMA EnterSteps ==
  ASSUME TypeOK, CallInv, TreeInv, NEW s \in Secs, NEW b, EnterStep(s, b)
  PROVE  /\ TypeOK' /\ CallInv' /\ TreeInv'
         /\ Sought(s) \in Indices /\ b \in Nat /\ Leaf(s, Sought(s), b)
         /\ UNCHANGED <<sectionSize, data, call, filled>>
         /\ DOMAIN blockIds' = DOMAIN blockIds
         /\ \A t \in Secs \ {s} : /\ i'[t] = i[t] /\ blk'[t] = blk[t]
                                  /\ fresh'[t] = fresh[t] /\ num'[t] = num[t]
<1> USE SizeTypes DEF call
<1> DEFINE Goal == /\ Flat' /\ Call(s)'
                   /\ UNCHANGED <<sectionSize, data, call, filled>>
                   /\ b \in Nat /\ Leaf(s, Sought(s), b)
                   /\ \A t \in Secs \ {s} : /\ i'[t] = i[t] /\ blk'[t] = blk[t]
                                            /\ fresh'[t] = fresh[t] /\ num'[t] = num[t]
<1>1. Flat /\ Call(s) /\ Looks(s) /\ HasPath(s, Sought(s))
  BY TypeParts DEF CallInv, EnterStep, AllocateOne, AllocateRun, EnterNext, Finds
<1>2. Sought(s) \in Indices /\ Asked(s) \in Nat /\ Asked(s) >= 1
  BY <1>1, SoughtType
<1>3. Loaded(blockAllocated) \in Nat /\ blockAllocated \in Nat /\ blk[s] \in Nat
  BY <1>1, LoadedType DEF Flat
<1>4. len[s] > 0 /\ num[s] = 0 /\ i[s] < Asked(s) /\ i[s] \in Nat
  BY <1>1 DEF Looks, Writing, Flat
<1>5. UNCHANGED call => Asked(s)' = Asked(s) /\ Single(s)' = Single(s)
  BY AskedKept
<1>6. ASSUME AllocateOne(s), b = blockAllocated PROVE Goal
  <2>1. Flat'
    BY <1>6, <1>1, <1>3 DEF AllocateOne, FetchAdd, Flat
  <2>2. i[s] = 0 /\ fresh[s] = FALSE /\ Asked(s) = 1
    BY <1>6, <1>1, <1>4 DEF AllocateOne, Call, Flat, Asked
  <2>3. Call(s)'
    BY <1>6, <1>1, <1>4, <1>5, <2>2 DEF AllocateOne, Flat, Call
  <2>4. QED
    BY <1>6, <1>1, <1>3, <2>1, <2>3 DEF AllocateOne, Flat, Leaf
<1>7. ASSUME AllocateRun(s), b = blockAllocated PROVE Goal
  <2>1. Flat'
    BY <1>7, <1>1, <1>2, <1>3 DEF AllocateRun, FetchAdd, Flat
  <2>2. Asked(s) > 1 /\ ~Single(s)
    BY <1>7, RunAsked DEF AllocateRun
  <2>3. Call(s)'
    BY <1>7, <1>1, <1>4, <1>5, <2>2 DEF AllocateRun, Flat, Call
  <2>4. QED
    BY <1>7, <1>1, <1>3, <2>1, <2>3 DEF AllocateRun, Flat, Leaf
<1>8. ASSUME EnterNext(s), b = blk[s] + i[s] PROVE Goal
  <2> DEFINE end == Continuous(Asked(s), blk[s])
  <2>1. end \in Nat /\ end <= Asked(s) /\ end >= 1
    BY <1>2, <1>3, ContinuousType
  <2>2. /\ i' = [i EXCEPT ![s] = IF i[s] + 1 = Asked(s) THEN 0 ELSE i[s] + 1]
        /\ num' = [num EXCEPT ![s] = IF i[s] + 1 = Asked(s) THEN end ELSE 0]
        /\ fresh' = [fresh EXCEPT ![s] = i[s] + 1 # Asked(s)]
        /\ fresh[s] /\ Enters(s, Sought(s), b)
        /\ UNCHANGED <<sectionSize, blockAllocated, mapedEnd, data, call, blk, filled>>
    BY <1>8 DEF EnterNext
  <2> HIDE DEF end
  <2>3. Flat'
    BY <1>1, <1>4, <2>1, <2>2 DEF Flat
  <2>4. i[s] > 0 /\ ~Single(s)
    BY <1>1, <2>2 DEF Call
  <2>5. Call(s)'
    <3>1. /\ i'[s] = (IF i[s] + 1 = Asked(s) THEN 0 ELSE i[s] + 1)
          /\ num'[s] = (IF i[s] + 1 = Asked(s) THEN end ELSE 0)
          /\ fresh'[s] = (i[s] + 1 # Asked(s))
      BY <1>1, <2>2 DEF Flat
    <3>2. UNCHANGED <<sectionSize, call, filled>>
      BY <2>2
    <3>3. CASE i[s] + 1 = Asked(s)
      BY <1>1, <1>2, <1>4, <1>5, <2>1, <2>4, <3>1, <3>2, <3>3 DEF Call
    <3>4. CASE i[s] + 1 # Asked(s)
      BY <1>1, <1>2, <1>4, <1>5, <2>1, <2>4, <3>1, <3>2, <3>4 DEF Call
    <3>5. QED
      BY <3>3, <3>4
  <2>6. QED
    BY <1>8, <1>1, <1>3, <1>4, <2>2, <2>3, <2>5 DEF Flat, Leaf
<1>9. Goal
  BY <1>6, <1>7, <1>8 DEF EnterStep
<1>10. TreeInv' /\ DOMAIN blockIds' = DOMAIN blockIds
  BY <1>2, <1>9, LeafKeepsTrees
<1>11. ASSUME NEW t \in Secs, t # s PROVE Call(t)'
  BY <1>9, <1>11, CallKept DEF CallInv
<1>12. QED
  BY <1>2, <1>9, <1>10, <1>11, TypePartsPrimed DEF CallInv, TreeInv

(* A new index block keeps them, too.                                      *)
LEMMA IndexSteps ==
  ASSUME TypeOK, CallInv, TreeInv, NEW s \in Secs, AllocateIndex(s),
         blockAllocated \in Nat \ {0}, blockAllocated \notin DOMAIN blockIds
  PROVE  /\ TypeOK' /\ CallInv' /\ TreeInv'
         /\ Sought(s) \in Indices
         /\ \E k \in 0 .. Level[Sought(s)] - 1 : Branch(s, Sought(s), k, blockAllocated)
         /\ UNCHANGED <<sectionSize, data, call, filled, blk, num, i, fresh>>
         /\ blockAllocated' = blockAllocated + 1
         /\ DOMAIN blockIds' = DOMAIN blockIds \cup {blockAllocated}
<1> USE DEF call
<1>1. Flat /\ Looks(s) /\ Call(s)
  BY TypeParts DEF CallInv, AllocateIndex
<1>2. Sought(s) \in Indices
  BY <1>1, SoughtType
<1>3. PICK k \in 0 .. Level[Sought(s)] - 1 : Branch(s, Sought(s), k, blockAllocated)
  BY <1>2, IndexIsBranch
<1>4. TreeInv' /\ DOMAIN blockIds' = DOMAIN blockIds \cup {blockAllocated}
  BY <1>2, <1>3, BranchKeepsTrees
<1>5. /\ UNCHANGED <<sectionSize, data, call, filled, blk, num, i, fresh>>
      /\ blockAllocated' = blockAllocated + 1 /\ mapedEnd' = Loaded(blockAllocated)
  BY DEF AllocateIndex, FetchAdd
<1>6. Flat'
  <2>1. Loaded(blockAllocated) \in Nat
    BY <1>1, LoadedType DEF Flat
  <2>2. QED
    BY <1>1, <1>5, <2>1 DEF Flat
<1>7. ASSUME NEW t \in Secs PROVE Call(t)'
  BY <1>5, CallKept DEF CallInv
<1>8. QED
  BY <1>2, <1>3, <1>4, <1>5, <1>6, <1>7, TypePartsPrimed DEF CallInv, TreeInv

-----------------------------------------------------------------------------
(* Every id in a word is below the counter and in no other word. What a    *)
(* writer has allocated for its run and not entered yet is in no word and  *)
(* in no other writer's run.                                               *)
CounterInv ==
  /\ blockAllocated \in Nat \ {0}
  /\ IsFiniteSet(DOMAIN blockIds)
  /\ \A b \in DOMAIN blockIds : b \in Nat /\ b < blockAllocated

WordInv ==
  /\ \A w \in Words : IdAt(w) \in Nat /\ IdAt(w) < blockAllocated
  /\ \A v, w \in Words : IdAt(v) = IdAt(w) /\ IdAt(v) # 0 => v = w

Run(s) ==
  fresh[s] =>
    /\ blk[s] > 0 /\ blk[s] + Asked(s) <= blockAllocated
    /\ \A w \in Words : ~(blk[s] + i[s] <= IdAt(w) /\ IdAt(w) < blk[s] + Asked(s))

Apart(s, t) ==
  fresh[s] /\ fresh[t] => blk[s] + Asked(s) <= blk[t] \/ blk[t] + Asked(t) <= blk[s]

RunInv == \A s \in Secs : Run(s) /\ \A t \in Secs \ {s} : Apart(s, t)

DisjointInv == CounterInv /\ WordInv /\ RunInv

(* A step that changes neither words nor runs keeps this.                  *)
LEMMA SameBlocks ==
  ASSUME DisjointInv, NEW s \in Secs, fresh[s] = FALSE,
         UNCHANGED <<tree, blockAllocated, fresh>>,
         \A t \in Secs \ {s} : /\ offset'[t] = offset[t] /\ len'[t] = len[t]
                               /\ blk'[t] = blk[t] /\ i'[t] = i[t]
  PROVE  DisjointInv'
<1> USE DEF tree
<1>1. Words' = Words /\ \A w \in Words : IdAt(w)' = IdAt(w)
  BY DEF Words, IdAt
<1>2. CounterInv' /\ WordInv'
  BY <1>1 DEF DisjointInv, CounterInv, WordInv
<1>3. ASSUME NEW t \in Secs PROVE Run(t)'
  <2>1. CASE t = s
    BY <2>1 DEF Run
  <2>2. CASE t # s
    <3>1. Asked(t)' = Asked(t)
      BY <2>2, AskedKept
    <3>2. QED
      BY <1>1, <2>2, <3>1 DEF DisjointInv, RunInv, Run
  <2>3. QED
    BY <2>1, <2>2
<1>4. ASSUME NEW t \in Secs, NEW u \in Secs \ {t} PROVE Apart(t, u)'
  <2>1. CASE t = s \/ u = s
    BY <2>1 DEF Apart
  <2>2. CASE t # s /\ u # s
    <3>1. Asked(t)' = Asked(t) /\ Asked(u)' = Asked(u)
      BY <2>2, AskedKept
    <3>2. QED
      BY <2>2, <3>1 DEF DisjointInv, RunInv, Apart
  <2>3. QED
    BY <2>1, <2>2
<1>5. QED
  BY <1>2, <1>3, <1>4 DEF DisjointInv, RunInv

(* A step that writes b into the word x, and new words that hold 0.        *)
Sets(x, b) ==
  \A w \in Words' : IdAt(w)' = IF w = x THEN b ELSE IF w \in Words THEN IdAt(w) ELSE 0

LEMMA SetKeepsWords ==
  ASSUME WordInv, NEW x, NEW b \in Nat, Sets(x, b),
         blockAllocated \in Nat \ {0}, blockAllocated' \in Nat \ {0},
         b < blockAllocated', blockAllocated <= blockAllocated',
         \A w \in Words : IdAt(w) # b
  PROVE  WordInv'
<1>1. ASSUME NEW w \in Words' PROVE IdAt(w)' \in Nat /\ IdAt(w)' < blockAllocated'
  <2>1. w \in Words => IdAt(w) \in Nat /\ IdAt(w) < blockAllocated
    BY DEF WordInv
  <2>2. IdAt(w)' = IF w = x THEN b ELSE IF w \in Words THEN IdAt(w) ELSE 0
    BY DEF Sets
  <2>3. QED
    BY <2>1, <2>2
<1>2. ASSUME NEW v \in Words', NEW w \in Words', IdAt(v)' = IdAt(w)', IdAt(v)' # 0
      PROVE  v = w
  <2>1. /\ IdAt(v)' = IF v = x THEN b ELSE IF v \in Words THEN IdAt(v) ELSE 0
        /\ IdAt(w)' = IF w = x THEN b ELSE IF w \in Words THEN IdAt(w) ELSE 0
    BY DEF Sets
  <2>2. QED
    BY <1>2, <2>1 DEF WordInv
<1>3. QED
  BY <1>1, <1>2 DEF WordInv

(* It leaves the run of t alone when b does not lie in it.                 *)
LEMMA SetKeepsRun ==
  ASSUME DisjointInv, NEW t \in Secs, Run(t), NEW x, NEW b \in Nat, Sets(x, b),
         blockAllocated' \in Nat, blockAllocated <= blockAllocated',
         fresh[t] => blk[t] \in Nat /\ i[t] \in Nat /\ Asked(t) \in Nat,
         fresh'[t] = fresh[t], blk'[t] = blk[t], i'[t] = i[t], Asked(t)' = Asked(t),
         fresh[t] => b < blk[t] \/ b >= blk[t] + Asked(t)
  PROVE  Run(t)'
<1> SUFFICES ASSUME fresh[t] PROVE Run(t)'
  BY DEF Run
<1>1. blockAllocated \in Nat
  BY DEF DisjointInv, CounterInv
<1>2. blk[t] > 0 /\ blk[t] + Asked(t) <= blockAllocated
  BY DEF Run
<1>3. ASSUME NEW w \in Words' PROVE ~(blk[t] + i[t] <= IdAt(w)' /\ IdAt(w)' < blk[t] + Asked(t))
  <2>1. w \in Words => /\ IdAt(w) \in Nat
                       /\ ~(blk[t] + i[t] <= IdAt(w) /\ IdAt(w) < blk[t] + Asked(t))
    BY DEF Run, DisjointInv, WordInv
  <2>2. IdAt(w)' = IF w = x THEN b ELSE IF w \in Words THEN IdAt(w) ELSE 0
    BY DEF Sets
  <2>3. QED
    BY <1>2, <2>1, <2>2
<1>4. QED
  BY <1>1, <1>2, <1>3 DEF Run

(* A new index block is taken from the counter, ...                        *)
LEMMA IndexKeepsBlocks ==
  ASSUME TypeOK, CallInv, TreeInv, DisjointInv, NEW s \in Secs, AllocateIndex(s)
  PROVE  DisjointInv'
<1> DEFINE b == blockAllocated
<1>1. b \in Nat \ {0} /\ b \notin DOMAIN blockIds
  BY DEF DisjointInv, CounterInv
<1>2. /\ Sought(s) \in Indices
      /\ UNCHANGED <<call, blk, i, fresh>> /\ blockAllocated' = b + 1
      /\ DOMAIN blockIds' = DOMAIN blockIds \cup {b}
  BY <1>1, IndexSteps
<1>3. PICK k \in 0 .. Level[Sought(s)] - 1 : Branch(s, Sought(s), k, b)
  BY <1>1, IndexSteps
<1>4. PICK x : x = Into(s, Sought(s), k)
  OBVIOUS
<1>5. Sets(x, b)
  <2>1. ASSUME NEW w \in Words'
        PROVE  IdAt(w)' = IF w = Into(s, Sought(s), k) THEN b
                          ELSE IF w \in Words THEN IdAt(w) ELSE 0
    BY <1>1, <1>2, <1>3, BranchWords
  <2>2. QED
    BY <1>4, <2>1 DEF Sets
<1>6. \A w \in Words : IdAt(w) # b
  <2>1. ASSUME NEW w \in Words PROVE IdAt(w) \in Nat /\ IdAt(w) < b
    BY DEF DisjointInv, WordInv
  <2>2. QED
    BY <1>1, <2>1
<1>7. CounterInv'
  <2>1. IsFiniteSet(DOMAIN blockIds')
    BY <1>2, FS_AddElement DEF DisjointInv, CounterInv
  <2>2. QED
    BY <1>1, <1>2, <2>1 DEF DisjointInv, CounterInv
<1>8. WordInv'
  BY <1>1, <1>2, <1>5, <1>6, SetKeepsWords DEF DisjointInv
<1>9. \A t \in Secs : Asked(t)' = Asked(t)
  BY <1>2, AskedKept DEF call
<1>10. ASSUME NEW t \in Secs PROVE Run(t)'
  <2>1. Run(t) /\ blk[t] \in Nat /\ i[t] \in Nat /\ Asked(t) \in Nat
    BY AskedType DEF DisjointInv, RunInv, TypeOK
  <2>2. fresh[t] => b >= blk[t] + Asked(t)
    BY <1>1, <2>1 DEF Run
  <2>3. QED
    BY <1>1, <1>2, <1>5, <1>9, <2>1, <2>2, SetKeepsRun
<1>11. ASSUME NEW t \in Secs, NEW u \in Secs \ {t} PROVE Apart(t, u)'
  <2>1. Apart(t, u)
    BY DEF DisjointInv, RunInv
  <2>2. QED
    BY <1>2, <1>9, <2>1 DEF Apart
<1>12. QED
  BY <1>7, <1>8, <1>10, <1>11 DEF DisjointInv, RunInv

(* ... and so is a block that is entered, at once or as one of a run.      *)
LEMMA EnterKeepsBlocks ==
  ASSUME TypeOK, CallInv, TreeInv, DisjointInv, NEW s \in Secs, NEW b, EnterStep(s, b)
  PROVE  DisjointInv'
<1>1. /\ TypeOK' /\ Sought(s) \in Indices /\ b \in Nat /\ Leaf(s, Sought(s), b)
      /\ UNCHANGED call /\ DOMAIN blockIds' = DOMAIN blockIds
      /\ \A t \in Secs \ {s} : /\ i'[t] = i[t] /\ blk'[t] = blk[t]
                               /\ fresh'[t] = fresh[t] /\ num'[t] = num[t]
  BY EnterSteps
<1>2. PICK x : x = Into(s, Sought(s), Level[Sought(s)])
  OBVIOUS
<1>3. Sets(x, b)
  <2>1. ASSUME NEW w \in Words'
        PROVE  /\ w \in Words
               /\ IdAt(w)' = IF w = Into(s, Sought(s), Level[Sought(s)]) THEN b ELSE IdAt(w)
    BY <1>1, LeafWords
  <2>2. QED
    BY <1>2, <2>1 DEF Sets
<1>4. \A t \in Secs : /\ Asked(t)' = Asked(t)
                      /\ blk[t] \in Nat /\ i[t] \in Nat /\ Asked(t) \in Nat
  BY <1>1, AskedKept, AskedType DEF call, TypeOK
<1>5. blockAllocated \in Nat \ {0}
  BY DEF DisjointInv, CounterInv
<1>6. \A t \in Secs : Run(t)
  BY DEF DisjointInv, RunInv
<1>7. Looks(s) /\ Asked(s) >= 1 /\ i[s] < Asked(s)
  <2>1. Looks(s)
    BY DEF EnterStep, AllocateOne, AllocateRun, EnterNext, Finds
  <2>2. QED
    BY <2>1, SoughtType DEF CallInv, Looks
<1> DEFINE Fresh == /\ blockAllocated' \in Nat \ {0} /\ blockAllocated <= blockAllocated'
                    /\ b < blockAllocated'
                    /\ \A w \in Words : IdAt(w) # b
                    /\ \A t \in Secs \ {s} : fresh[t] => b < blk[t] \/ b >= blk[t] + Asked(t)
           Others == /\ fresh'[s] => /\ blk'[s] > 0 /\ blk'[s] + Asked(s) <= blockAllocated'
                                     /\ b < blk'[s] + i'[s]
                                     /\ \A w \in Words : ~(/\ blk'[s] + i'[s] <= IdAt(w)
                                                           /\ IdAt(w) < blk'[s] + Asked(s))
                     /\ \A t \in Secs \ {s} : fresh'[s] /\ fresh[t] =>
                          blk'[s] + Asked(s) <= blk[t] \/ blk[t] + Asked(t) <= blk'[s]
<1>8. ASSUME b = blockAllocated, blockAllocated' \in Nat, b < blockAllocated' PROVE Fresh
  <2>1. ASSUME NEW w \in Words PROVE IdAt(w) # b
    BY <1>8, <1>5 DEF DisjointInv, WordInv
  <2>2. ASSUME NEW t \in Secs \ {s}, fresh[t] PROVE b >= blk[t] + Asked(t)
    BY <1>8, <1>4, <1>5, <1>6, <2>2 DEF Run
  <2>3. QED
    BY <1>5, <1>8, <2>1, <2>2
<1>9. ASSUME AllocateOne(s), b = blockAllocated PROVE Fresh /\ Others
  <2>1. blockAllocated' = blockAllocated + 1 /\ fresh' = fresh /\ Single(s)
    BY <1>9 DEF AllocateOne, FetchAdd
  <2>2. fresh'[s] = FALSE
    BY <2>1 DEF CallInv, Call, TypeOK
  <2>3. Fresh
    BY <1>5, <1>8, <1>9, <2>1
  <2>4. QED
    BY <2>2, <2>3
<1>10. ASSUME AllocateRun(s), b = blockAllocated PROVE Fresh /\ Others
  <2>1. /\ blockAllocated' = blockAllocated + Asked(s)
        /\ blk'[s] = blockAllocated /\ i'[s] = 1
    BY <1>10 DEF AllocateRun, FetchAdd, TypeOK
  <2>2. Fresh
    BY <1>4, <1>5, <1>7, <1>8, <1>10, <2>1
  <2>3. ASSUME NEW w \in Words PROVE ~(blk'[s] + i'[s] <= IdAt(w))
    BY <1>5, <2>1 DEF DisjointInv, WordInv
  <2>4. ASSUME NEW t \in Secs \ {s}, fresh[t] PROVE blk[t] + Asked(t) <= blk'[s]
    BY <1>5, <1>6, <2>1, <2>4 DEF Run
  <2>5. blk'[s] > 0 /\ blk'[s] + Asked(s) <= blockAllocated' /\ b < blk'[s] + i'[s]
    BY <1>4, <1>5, <1>10, <2>1
  <2>6. QED
    BY <2>2, <2>3, <2>4, <2>5
<1>11. ASSUME EnterNext(s), b = blk[s] + i[s] PROVE Fresh /\ Others
  <2>1. /\ fresh[s] /\ blockAllocated' = blockAllocated /\ blk' = blk
        /\ fresh'[s] => i'[s] = i[s] + 1
    BY <1>11 DEF EnterNext, TypeOK
  <2>2. /\ blk[s] > 0 /\ blk[s] + Asked(s) <= blockAllocated
        /\ \A w \in Words : ~(blk[s] + i[s] <= IdAt(w) /\ IdAt(w) < blk[s] + Asked(s))
    BY <1>6, <2>1 DEF Run
  <2>3. b < blk[s] + Asked(s) /\ b >= blk[s]
    BY <1>4, <1>7, <1>11
  <2>4. ASSUME NEW w \in Words PROVE IdAt(w) # b
    BY <1>4, <1>11, <2>2, <2>3
  <2>5. ASSUME NEW t \in Secs \ {s}, fresh[t]
        PROVE  /\ blk[s] + Asked(s) <= blk[t] \/ blk[t] + Asked(t) <= blk[s]
               /\ b < blk[t] \/ b >= blk[t] + Asked(t)
    <3>1. blk[s] + Asked(s) <= blk[t] \/ blk[t] + Asked(t) <= blk[s]
      BY <2>1, <2>5 DEF DisjointInv, RunInv, Apart
    <3>2. QED
      BY <1>1, <1>4, <2>3, <3>1
  <2>6. Fresh
    <3>1. b < blockAllocated
      BY <1>1, <1>4, <1>5, <2>2, <2>3
    <3>2. QED
      BY <1>5, <2>1, <2>4, <2>5, <3>1
  <2>7. ASSUME fresh'[s], NEW w \in Words
        PROVE  ~(blk'[s] + i'[s] <= IdAt(w) /\ IdAt(w) < blk'[s] + Asked(s))
    <3>1. IdAt(w) \in Nat /\ ~(blk[s] + i[s] <= IdAt(w) /\ IdAt(w) < blk[s] + Asked(s))
      BY <2>2 DEF DisjointInv, WordInv
    <3>2. i'[s] = i[s] + 1 /\ blk'[s] = blk[s]
      BY <2>1, <2>7
    <3>3. QED
      BY <1>4, <3>1, <3>2
  <2>8. fresh'[s] => b < blk'[s] + i'[s]
    BY <1>4, <1>11, <2>1
  <2>9. QED
    BY <2>1, <2>2, <2>5, <2>6, <2>7, <2>8
<1>12. Fresh /\ Others
  BY <1>9, <1>10, <1>11 DEF EnterStep
<1>13. CounterInv'
  BY <1>1, <1>5, <1>12 DEF DisjointInv, CounterInv
<1>14. WordInv'
  BY <1>1, <1>3, <1>5, <1>12, SetKeepsWords DEF DisjointInv
<1>15. ASSUME NEW t \in Secs, t # s PROVE Run(t)'
  BY <1>1, <1>3, <1>4, <1>6, <1>12, <1>15, SetKeepsRun
<1>16. Run(s)'
  <2> SUFFICES ASSUME fresh'[s] PROVE Run(s)'
    BY DEF Run
  <2>1. blk'[s] \in Nat /\ i'[s] \in Nat /\ blk'[s] > 0
    BY <1>1, <1>12 DEF TypeOK
  <2>2. ASSUME NEW w \in Words'
        PROVE  ~(blk'[s] + i'[s] <= IdAt(w)' /\ IdAt(w)' < blk'[s] + Asked(s)')
    <3>1. IdAt(w)' = IF w = x THEN b ELSE IF w \in Words THEN IdAt(w) ELSE 0
      BY <1>3 DEF Sets
    <3>2. QED
      BY <1>1, <1>4, <1>12, <2>1, <3>1
  <2>3. QED
    BY <1>4, <1>12, <2>1, <2>2 DEF Run
<1>17. ASSUME NEW t \in Secs, NEW u \in Secs \ {t} PROVE Apart(t, u)'
  <2>1. CASE t = s
    BY <1>1, <1>4, <1>12, <2>1 DEF Apart
  <2>2. CASE u = s
    BY <1>1, <1>4, <1>12, <2>2 DEF Apart
  <2>3. CASE t # s /\ u # s
    BY <1>1, <1>4, <2>3 DEF DisjointInv, RunInv, Apart
  <2>4. QED
    BY <2>1, <2>2, <2>3
<1>18. QED
  BY <1>13, <1>14, <1>15, <1>16, <1>17 DEF DisjointInv, RunInv

-----------------------------------------------------------------------------
(* All of it together is inductive.                                        *)
IInv == TypeOK /\ CallInv /\ TreeInv /\ DisjointInv

LEMMA InitHolds == Init => IInv
<1> SUFFICES ASSUME Init PROVE IInv
  OBVIOUS
<1> USE SizeTypes
<1>1. FirstBlock \in Nat \ {0} /\ mapedEnd \in Nat
  <2>1. Cardinality(Secs) \in Nat
    BY FS_CardinalityType, DataSectionAssumption
  <2>2. FirstBlock \in Nat \ {0} /\ FirstBlock - 1 \in Nat
    BY <2>1 DEF FirstBlock
  <2>3. Page(FirstBlock - 1) \in Nat
    BY <2>2, DivMod DEF Page
  <2>4. QED
    BY <2>2, <2>3 DEF Init
<1>2. TypeOK
  BY <1>1 DEF TypeOK, Init
<1>3. CallInv
  BY DEF CallInv, Call, Init
<1>4. TreeInv
  <2>1. Trees
    BY <1>2, TypeParts
  <2>2. Heights([b \in {} |-> 1])
    BY DEF Heights, Init
  <2>3. QED
    BY <2>1, <2>2 DEF TreeInv
<1>5. DisjointInv
  <2>1. ASSUME NEW w \in Words PROVE IdAt(w) = 0
    BY WordKinds DEF Init
  <2>2. CounterInv
    BY <1>1, FS_EmptySet DEF CounterInv, Init
  <2>3. WordInv
    BY <1>1, <2>1 DEF WordInv, Init
  <2>4. RunInv
    BY DEF RunInv, Run, Apart, Init
  <2>5. QED
    BY <2>2, <2>3, <2>4 DEF DisjointInv
<1>6. QED
  BY <1>2, <1>3, <1>4, <1>5 DEF IInv

LEMMA SameTrees ==
  ASSUME TreeInv, UNCHANGED tree
  PROVE  TreeInv'
<1>1. PICK h : Heights(h)
  BY DEF TreeInv
<1>2. direct' = direct /\ indirects' = indirects /\ blockIds' = blockIds
  BY DEF tree
<1>3. Heights(h)'
  BY <1>1, <1>2 DEF Heights
<1>4. Trees'
  BY <1>2 DEF TreeInv, Trees
<1>5. QED
  BY <1>3, <1>4 DEF TreeInv

LEMMA NextKeeps == IInv /\ [Next]_vars => IInv'
<1> SUFFICES ASSUME IInv, [Next]_vars PROVE IInv'
  OBVIOUS
<1> USE DEF IInv
<1>1. CASE UNCHANGED vars
  <2>1. TypeOK'
    BY <1>1 DEF TypeOK, vars, tree, call
  <2>2. CallInv'
    <3>1. ASSUME NEW t \in Secs PROVE Call(t)'
      BY <1>1, CallKept DEF CallInv, vars, call
    <3>2. QED
      BY <3>1 DEF CallInv
  <2>3. TreeInv'
    BY <1>1, SameTrees DEF vars
  <2>4. DisjointInv'
    <3>1. Words' = Words /\ \A w \in Words : IdAt(w)' = IdAt(w)
      BY <1>1 DEF Words, IdAt, vars, tree
    <3>2. \A t \in Secs : Asked(t)' = Asked(t)
      BY <1>1 DEF Asked, Single, vars, call
    <3>3. UNCHANGED <<blockAllocated, blockIds, blk, i, fresh>>
      BY <1>1 DEF vars, tree
    <3>4. CounterInv' /\ WordInv'
      BY <3>1, <3>3 DEF DisjointInv, CounterInv, WordInv
    <3>5. ASSUME NEW t \in Secs PROVE Run(t)'
      BY <3>1, <3>2, <3>3 DEF DisjointInv, RunInv, Run
    <3>6. ASSUME NEW t \in Secs, NEW u \in Secs \ {t} PROVE Apart(t, u)'
      BY <3>2, <3>3 DEF DisjointInv, RunInv, Apart
    <3>7. QED
      BY <3>4, <3>5, <3>6 DEF DisjointInv, RunInv
  <2>5. QED
    BY <2>1, <2>2, <2>3, <2>4
<1>2. ASSUME NEW s \in Secs,
             \/ OpenData(s) \/ SetHead(s) \/ WriteCharacters(s) \/ Done(s)
             \/ \E n \in Lens : Append(s, n) \/ WriteString(s, n)
             \/ \E n \in Lens, p \in Offsets : WriteAt(s, p, n)
      PROVE  IInv'
  <2>1. /\ TypeOK' /\ CallInv'
        /\ UNCHANGED <<tree, blockAllocated, blk, i, fresh, data, filled, num>>
        /\ fresh[s] = FALSE /\ \A t \in Secs \ {s} : offset'[t] = offset[t] /\ len'[t] = len[t]
    BY <1>2, CallSteps
  <2>2. TreeInv'
    BY <2>1, SameTrees
  <2>3. DisjointInv'
    BY <2>1, SameBlocks
  <2>4. QED
    BY <2>1, <2>2, <2>3
<1>3. ASSUME NEW s \in Secs, Copy(s) PROVE IInv'
  <2>1. /\ TypeOK' /\ CallInv'
        /\ UNCHANGED <<tree, blockAllocated, i, fresh>>
        /\ fresh[s] = FALSE
        /\ \A t \in Secs \ {s} : offset'[t] = offset[t] /\ len'[t] = len[t] /\ blk'[t] = blk[t]
    BY <1>3, CopyStep
  <2>2. TreeInv'
    BY <2>1, SameTrees
  <2>3. DisjointInv'
    BY <2>1, SameBlocks
  <2>4. QED
    BY <2>1, <2>2, <2>3
<1>4. ASSUME NEW s \in Secs, LoadOne(s) \/ LoadRun(s) \/ CompareNext(s) PROVE IInv'
  <2>1. /\ TypeOK' /\ CallInv'
        /\ UNCHANGED <<tree, blockAllocated, call, fresh>>
        /\ fresh[s] = FALSE
        /\ \A t \in Secs \ {s} : i'[t] = i[t] /\ blk'[t] = blk[t]
    BY <1>4, FindSteps
  <2>2. TreeInv'
    BY <2>1, SameTrees
  <2>3. DisjointInv'
    BY <2>1, SameBlocks DEF call
  <2>4. QED
    BY <2>1, <2>2, <2>3
<1>5. ASSUME NEW s \in Secs, NEW b, EnterStep(s, b) PROVE IInv'
  BY <1>5, EnterSteps, EnterKeepsBlocks
<1>6. ASSUME NEW s \in Secs, AllocateIndex(s) PROVE IInv'
  <2>1. blockAllocated \in Nat \ {0} /\ blockAllocated \notin DOMAIN blockIds
    BY DEF DisjointInv, CounterInv
  <2>2. QED
    BY <1>6, <2>1, IndexSteps, IndexKeepsBlocks
<1>7. QED
  BY <1>1, <1>2, <1>3, <1>4, <1>5, <1>6 DEF Next, WriteStep, LoadStep, EnterStep

(* The data sections stay well formed, whatever their writers do.          *)
THEOREM DataTypeCorrect == Spec => []TypeOK
<1>1. Init => IInv
  BY InitHolds
<1>2. IInv /\ [Next]_vars => IInv'
  BY NextKeeps
<1>3. IInv => TypeOK
  BY DEF IInv
<1>4. QED
  BY <1>1, <1>2, <1>3, PTL DEF Spec

(* A word that holds an id is the only one that holds it, and there are    *)
(* finitely many words.                                                    *)
LEMMA OneWordOneBlock ==
  ASSUME IInv
  PROVE  BlocksAreDisjoint
<1> DEFINE held == {w \in Words : IdAt(w) # 0}
           ids == {IdAt(w) : w \in held}
           id == [w \in held |-> IdAt(w)]
<1>1. IsFiniteSet(Words)
  <2>1. /\ IsFiniteSet(Secs) /\ IsFiniteSet(DOMAIN blockIds)
        /\ IsFiniteSet(0 .. Direct - 1) /\ IsFiniteSet(1 .. Levels) /\ IsFiniteSet(0 .. Fan - 1)
    <3>1. Direct - 1 \in Int /\ Levels \in Int /\ Fan - 1 \in Int
      BY BlockIndexAssumption
    <3>2. QED
      BY <3>1, FS_Interval, DataSectionAssumption DEF IInv, DisjointInv, CounterInv
  <2>2. ASSUME NEW kind, NEW A, NEW B, IsFiniteSet(A), IsFiniteSet(B)
        PROVE  IsFiniteSet({kind} \X A \X B)
    <3>1. IsFiniteSet(A \X B) /\ IsFiniteSet({kind})
      BY <2>2, FS_Product, FS_Singleton
    <3>2. IsFiniteSet({kind} \X (A \X B))
      BY <3>1, FS_Product
    <3> DEFINE p == [x \in {kind} \X (A \X B) |-> <<x[1], x[2][1], x[2][2]>>]
    <3>3. p \in Surjection({kind} \X (A \X B), {kind} \X A \X B)
      <4>1. ASSUME NEW y \in {kind} \X A \X B
            PROVE  \E x \in {kind} \X (A \X B) : p[x] = y
        <5>1. <<y[1], <<y[2], y[3]>>>> \in {kind} \X (A \X B)
          OBVIOUS
        <5>2. p[<<y[1], <<y[2], y[3]>>>>] = y
          BY <5>1
        <5>3. QED
          BY <5>1, <5>2
      <4>2. p \in [{kind} \X (A \X B) -> {kind} \X A \X B]
        OBVIOUS
      <4>3. QED
        BY <4>1, <4>2, Fun_IsSurj
    <3>4. QED
      BY <3>2, <3>3, FS_Surjection
  <2>3. QED
    BY <2>1, <2>2, FS_Union DEF Words
<1>2. IsFiniteSet(held)
  BY <1>1, FS_Subset
<1>3. id \in Bijection(held, ids)
  <2>1. id \in [held -> ids]
    OBVIOUS
  <2>2. \A v, w \in held : id[v] = id[w] => v = w
    BY DEF IInv, DisjointInv, WordInv
  <2>3. \A y \in ids : \E w \in held : id[w] = y
    OBVIOUS
  <2> HIDE DEF id, ids, held
  <2>4. QED
    BY <2>1, <2>2, <2>3, Fun_IsBij
<1>4. Cardinality(ids) = Cardinality(held)
  <2> HIDE DEF id, ids, held
  <2>1. QED
    BY <1>2, <1>3, FS_Bijection DEF ExistsBijection
<1>5. QED
  BY <1>4 DEF BlocksAreDisjoint

(* No block belongs to two places: single blocks, runs and index blocks    *)
(* come from one counter, and a run's blocks are its writer's own from the *)
(* fetch_add to the last word it enters them in.                           *)
THEOREM BlocksStayDisjoint == Spec => []BlocksAreDisjoint
<1>1. Init => IInv
  BY InitHolds
<1>2. IInv /\ [Next]_vars => IInv'
  BY NextKeeps
<1>3. IInv => BlocksAreDisjoint
  BY OneWordOneBlock
<1>4. QED
  BY <1>1, <1>2, <1>3, PTL DEF Spec

-----------------------------------------------------------------------------
(* The digits of an entry tell it from the others of its level.            *)
LEMMA Remainder ==
  ASSUME NEW a \in Nat, NEW n \in Nat \ {0}, NEW q \in Nat, NEW r \in 0 .. n - 1,
         a = q * n + r
  PROVE  a % n = r /\ a \div n = q
<1> DEFINE d == a \div n
           m == a % n
<1>1. d \in Nat /\ m \in 0 .. n - 1 /\ a = d * n + m
  BY DivMod
<1> HIDE DEF d, m
<1>2. ASSUME d < q PROVE FALSE
  <2>1. (d + 1) * n <= q * n
    BY <1>1, <1>2
  <2>2. (d + 1) * n = d * n + n
    BY <1>1
  <2>3. QED
    BY <1>1, <2>1, <2>2
<1>3. ASSUME q < d PROVE FALSE
  <2>1. (q + 1) * n <= d * n
    BY <1>1, <1>3
  <2>2. (q + 1) * n = q * n + n
    OBVIOUS
  <2>3. QED
    BY <1>1, <2>1, <2>2
<1>4. d = q
  BY <1>1, <1>2, <1>3
<1>5. m = r
  BY <1>1, <1>4
<1>6. QED
  BY <1>4, <1>5 DEF d, m

LEMMA RemainderOfRemainder ==
  ASSUME NEW x \in Nat, NEW Q \in Nat \ {0}, NEW F \in Nat \ {0}
  PROVE  x % (Q * F) = ((x % (Q * F)) \div F) * F + (x % F)
<1>1. Q * F \in Nat \ {0}
  OBVIOUS
<1>2. PICK y \in Nat, z \in Nat : y = x % (Q * F) /\ x = z * (Q * F) + y
  <2>1. PICK n \in Nat \ {0} : n = Q * F
    BY <1>1
  <2>2. x \div n \in Nat /\ x % n \in Nat /\ x = (x \div n) * n + (x % n)
    BY DivMod
  <2>3. QED
    BY <2>1, <2>2
<1>3. PICK d \in Nat, r \in 0 .. F - 1 : d = y \div F /\ y = d * F + r
  BY DivMod
<1>4. x = (z * Q + d) * F + r
  <2>1. z * (Q * F) = (z * Q) * F
    OBVIOUS
  <2>2. (z * Q) \in Nat /\ (z * Q + d) * F = (z * Q) * F + d * F
    OBVIOUS
  <2>3. z * (Q * F) \in Nat /\ d * F \in Nat
    BY <1>1
  <2>4. QED
    BY <1>2, <1>3, <2>1, <2>2, <2>3
<1>5. x % F = r
  <2>1. z * Q + d \in Nat
    OBVIOUS
  <2>2. QED
    BY <1>4, <2>1, Remainder
<1>6. QED
  BY <1>2, <1>3, <1>5

LEMMA SameDigits ==
  ASSUME NEW e \in 0 .. Capacity - 1, NEW f \in 0 .. Capacity - 1,
         Level[e] = Level[f], Level[e] # 0,
         \A k \in 1 .. Level[e] : topEntryId[e][k] = topEntryId[f][k]
  PROVE  e = f
<1>1. /\ Level[e] \in 1 .. Levels /\ Levels \in Nat /\ Direct \in Nat \ {0}
      /\ Fan \in Nat \ {0} /\ Capacity \in Nat
  BY BlockIndexAssumption, LevelDef, SumType DEF Capacity
<1>2. PICK L : L = Level[e]
  OBVIOUS
<1>3. L \in 1 .. Levels /\ L - 1 \in 0 .. Levels /\ L \in 0 .. Levels /\ L - 1 \in 0 .. L - 1
  BY <1>1, <1>2
<1>4. e \in Direct .. Capacity - 1 /\ f \in Direct .. Capacity - 1
  BY <1>1, LevelZero
<1> DEFINE S == LEVELS_ENTRY_SUM[L - 1]
           x == e - S
           y == f - S
<1>5. x \in Nat /\ y \in Nat /\ S \in Nat /\ x < power[L] /\ y < power[L]
  <2>1. LEVELS_ENTRY_SUM[L] = S + power[L] /\ S \in Nat /\ power[L] \in Nat
    BY <1>3, SumDef, SumType, PowerType
  <2>2. S <= e /\ S <= f /\ e < LEVELS_ENTRY_SUM[L] /\ f < LEVELS_ENTRY_SUM[L]
    BY <1>2, <1>3, LevelDef
  <2>3. QED
    BY <1>1, <2>1, <2>2
<1>6. \A k \in 1 .. L : /\ topEntryId[e][k] = (x % power[L - k + 1]) \div power[L - k]
                        /\ topEntryId[f][k] = (y % power[L - k + 1]) \div power[L - k]
  BY <1>2, <1>4 DEF topEntryId
<1> HIDE DEF S, x, y
<1> DEFINE Wrong == {m \in 0 .. L : x % power[m] # y % power[m]}
<1>7. Wrong = {}
  <2> SUFFICES ASSUME Wrong # {} PROVE FALSE
    OBVIOUS
  <2>1. PICK m \in Wrong : m \in Nat /\ (m # 0 => m - 1 \in Nat \ Wrong)
    <3>1. Wrong \in SUBSET Nat
      BY <1>1, <1>3
    <3>2. QED
      <4> HIDE DEF Wrong
      <4>1. QED
        BY <3>1, LeastNatural
  <2>2. CASE m = 0
    <3>1. power[0] = 1
      BY <1>1, PowerDef
    <3>2. x % 1 = 0 /\ y % 1 = 0
      BY <1>5
    <3>3. QED
      BY <2>1, <2>2, <3>1, <3>2
  <2>3. CASE m # 0
    <3>1. m - 1 \in 0 .. L /\ m \in 0 .. L /\ m - 1 \notin Wrong
      BY <1>3, <2>1, <2>3
    <3>2. x % power[m - 1] = y % power[m - 1]
      BY <3>1
    <3>3. power[m] = Fan * power[m - 1] /\ power[m - 1] \in Nat \ {0}
      <4>1. m \in 0 .. Levels /\ m - 1 \in 0 .. Levels
        BY <1>1, <1>3, <3>1
      <4>2. QED
        BY <2>3, <4>1, PowerDef, PowerType
    <3>4. (x % power[m]) \div power[m - 1] = (y % power[m]) \div power[m - 1]
      <4>1. PICK k \in 1 .. L : k = L - m + 1
        BY <1>3, <2>3, <3>1
      <4>2. L - k + 1 = m /\ L - k = m - 1
        BY <1>3, <2>1, <4>1
      <4>3. topEntryId[e][k] = topEntryId[f][k]
        BY <1>2
      <4>4. QED
        BY <1>6, <4>2, <4>3
    <3>5. /\ x % power[m] = ((x % power[m]) \div power[m - 1]) * power[m - 1] + (x % power[m - 1])
          /\ y % power[m] = ((y % power[m]) \div power[m - 1]) * power[m - 1] + (y % power[m - 1])
      <4>1. PICK n \in Nat \ {0} : n = power[m - 1]
        BY <3>3
      <4>2. /\ x % (Fan * n) = ((x % (Fan * n)) \div n) * n + (x % n)
            /\ y % (Fan * n) = ((y % (Fan * n)) \div n) * n + (y % n)
        BY <1>1, <1>5, RemainderOfRemainder
      <4>3. QED
        BY <3>3, <4>1, <4>2
    <3>6. x % power[m] = y % power[m]
      BY <3>2, <3>4, <3>5
    <3>7. QED
      BY <2>1, <3>6
  <2>4. QED
    BY <2>2, <2>3
<1>8. x % power[L] = y % power[L]
  BY <1>3, <1>7
<1>9. x % power[L] = x /\ y % power[L] = y
  <2>1. PICK n \in Nat \ {0} : n = power[L]
    BY <1>3, PowerType
  <2>2. x \in 0 .. n - 1 /\ y \in 0 .. n - 1 /\ x = 0 * n + x /\ y = 0 * n + y
    BY <1>5, <2>1
  <2>3. x % n = x /\ y % n = y
    BY <1>5, <2>2, Remainder
  <2>4. QED
    BY <2>1, <2>3
<1>10. x = y
  BY <1>8, <1>9
<1>11. QED
  BY <1>1, <1>5, <1>10 DEF x, y

-----------------------------------------------------------------------------
(* An entry that holds a block has its whole path; so has what lies on the *)
(* way to a part of it that is there.                                      *)
LEMMA PathAbove ==
  ASSUME NEW s \in Secs, NEW e \in Indices, NEW k \in 0 .. Level[e],
         k # 0 => Walk[<<s, e, k - 1>>] # 0
  PROVE  \A j \in 0 .. k - 1 : Walk[<<s, e, j>>] # 0
<1>1. Level[e] \in Nat
  BY IndexType
<1> DEFINE Gaps == {m \in Nat : m + 1 <= k /\ Walk[<<s, e, k - 1 - m>>] = 0}
<1>2. Gaps = {}
  <2> SUFFICES ASSUME Gaps # {} PROVE FALSE
    OBVIOUS
  <2>1. PICK m \in Gaps : m \in Nat /\ (m # 0 => m - 1 \in Nat \ Gaps)
    <3>1. Gaps \in SUBSET Nat
      OBVIOUS
    <3>2. QED
      <4> HIDE DEF Gaps
      <4>1. QED
        BY <3>1, LeastNatural
  <2>2. m + 1 <= k /\ Walk[<<s, e, k - 1 - m>>] = 0 /\ k \in Nat
    BY <1>1, <2>1
  <2>3. m # 0
    BY <2>2
  <2>4. m - 1 \notin Gaps /\ m - 1 \in Nat /\ (m - 1) + 1 <= k
    BY <2>1, <2>2, <2>3
  <2>5. Walk[<<s, e, k - 1 - (m - 1)>>] # 0
    BY <2>4
  <2>6. PICK j \in 1 .. Level[e] : j = k - 1 - (m - 1) /\ j - 1 = k - 1 - m
    BY <1>1, <2>1, <2>2, <2>3
  <2>7. Walk[<<s, e, j>>] = IF Walk[<<s, e, j - 1>>] = 0 THEN 0
                            ELSE blockIds[Walk[<<s, e, j - 1>>]][topEntryId[e][j]]
    BY WalkValue
  <2>8. QED
    BY <2>2, <2>5, <2>6, <2>7
<1>3. ASSUME NEW j \in 0 .. k - 1 PROVE Walk[<<s, e, j>>] # 0
  <2>1. PICK m \in Nat : m = k - 1 - j /\ m + 1 <= k /\ k - 1 - m = j
    BY <1>1
  <2>2. m \notin Gaps
    BY <1>2
  <2>3. QED
    BY <2>1, <2>2
<1>4. QED
  BY <1>3

LEMMA EntryHasPath ==
  ASSUME NEW s \in Secs, NEW e \in Indices, Entry(s, e) # 0
  PROVE  HasPath(s, e)
<1>1. Level[e] \in Nat
  BY IndexType
<1>2. CASE Level[e] = 0
  BY <1>2 DEF HasPath
<1>3. CASE Level[e] # 0
  <2>1. Level[e] \in 1 .. Level[e] /\ Level[e] \in 0 .. Level[e]
    BY <1>1, <1>3
  <2>2. Walk[<<s, e, Level[e] - 1>>] # 0
    BY <2>1, WalkValue DEF Entry
  <2>3. QED
    BY <2>1, <2>2, PathAbove DEF HasPath
<1>4. QED
  BY <1>2, <1>3

(* The place a walk has come to is a word, and holds what it yields.       *)
LEMMA IntoWalk ==
  ASSUME Trees, NEW h, Heights(h), NEW s \in Secs, NEW e \in Indices,
         NEW k \in 0 .. Level[e], k # 0 => Walk[<<s, e, k - 1>>] # 0
  PROVE  /\ Into(s, e, k) \in Words
         /\ IdAt(Into(s, e, k)) = Walk[<<s, e, k>>]
         /\ k # 0 => /\ Walk[<<s, e, k - 1>>] \in DOMAIN blockIds
                     /\ h[Walk[<<s, e, k - 1>>]] = Level[e] - (k - 1)
<1>1. e \in 0 .. Capacity - 1 /\ e \in Nat /\ Level[e] \in 0 .. Levels /\ Levels \in Nat
  BY IndexType
<1>2. CASE k = 0 /\ Level[e] = 0
  <2>1. e \in 0 .. Direct - 1
    BY <1>1, <1>2, LevelZero, BlockIndexAssumption
  <2>2. Walk[<<s, e, 0>>] = direct[s][e]
    BY <1>2, WalkValue
  <2>3. QED
    BY <1>2, <2>1, <2>2, WordValues DEF Into
<1>3. CASE k = 0 /\ Level[e] # 0
  <2>1. Level[e] \in 1 .. Levels
    BY <1>1, <1>3
  <2>2. Walk[<<s, e, 0>>] = indirects[s][Level[e]]
    BY <2>1, WalkValue
  <2>3. QED
    BY <1>3, <2>1, <2>2, WordValues DEF Into
<1>4. CASE k # 0
  <2>1. k \in 1 .. Level[e] /\ k - 1 \in 0 .. Level[e] /\ k - 1 < Level[e]
    BY <1>1, <1>4
  <2>2. /\ Walk[<<s, e, k - 1>>] \in DOMAIN blockIds
        /\ h[Walk[<<s, e, k - 1>>]] = Level[e] - (k - 1)
    BY <1>4, <2>1, WalkType
  <2>3. topEntryId[e][k] \in 0 .. Fan - 1
    BY <1>1, <2>1, PathType
  <2>4. Walk[<<s, e, k>>] = blockIds[Walk[<<s, e, k - 1>>]][topEntryId[e][k]]
    BY <1>4, <2>1, WalkValue
  <2>5. QED
    BY <1>4, <2>2, <2>3, <2>4, WordValues DEF Into
<1>5. QED
  BY <1>2, <1>3, <1>4

LEMMA IntoHeight ==
  ASSUME Trees, NEW h, Heights(h), NEW s \in Secs, NEW e \in Indices,
         NEW k \in 1 .. Level[e], Walk[<<s, e, k - 1>>] # 0
  PROVE  h[Walk[<<s, e, k - 1>>]] = Level[e] - (k - 1)
<1>1. k \in 0 .. Level[e] /\ k # 0
  <2>1. Level[e] \in 0 .. Levels /\ Levels \in Nat
    BY IndexType
  <2>2. QED
    BY <2>1
<1>2. QED
  BY <1>1, IntoWalk

(* Two entries do not end in the same word: their paths would be the same  *)
(* up to the section, and their digits.                                    *)
LEMMA SamePath ==
  ASSUME TreeInv, WordInv, NEW s \in Secs, NEW e \in Indices, NEW t \in Secs, NEW f \in Indices,
         HasPath(s, e), HasPath(t, f), Into(s, e, Level[e]) = Into(t, f, Level[f])
  PROVE  s = t /\ e = f
<1>1. /\ e \in 0 .. Capacity - 1 /\ e \in Nat /\ Level[e] \in 0 .. Levels /\ Levels \in Nat
      /\ f \in 0 .. Capacity - 1 /\ f \in Nat /\ Level[f] \in 0 .. Levels
  BY IndexType
<1>2. PICK h : Heights(h)
  BY DEF TreeInv
<1>3. Trees
  BY DEF TreeInv
<1>4. CASE Level[e] = 0 \/ Level[f] = 0
  BY <1>1, <1>4 DEF Into
<1>5. CASE Level[e] # 0 /\ Level[f] # 0
  <2>1. PICK L \in Nat \ {0}, M \in Nat \ {0} : L = Level[e] /\ M = Level[f]
    BY <1>1, <1>5
  <2> DEFINE Same(m) == m <= L /\ m <= M /\ Into(s, e, L - m) = Into(t, f, M - m)
             Wrong == {m \in Nat : m <= L /\ ~Same(m)}
  <2>2. Wrong = {}
    <3> SUFFICES ASSUME Wrong # {} PROVE FALSE
      OBVIOUS
    <3>1. PICK m \in Wrong : m \in Nat /\ (m # 0 => m - 1 \in Nat \ Wrong)
      <4>1. Wrong \in SUBSET Nat
        OBVIOUS
      <4>2. QED
        <5> HIDE DEF Wrong
        <5>1. QED
          BY <4>1, LeastNatural
    <3>2. m <= L /\ ~Same(m)
      BY <3>1
    <3>3. m # 0
      <4>1. Same(0)
        BY <2>1
      <4>2. QED
        BY <3>2, <4>1
    <3>4. Same(m - 1)
      <4>1. m - 1 \notin Wrong /\ m - 1 <= L /\ m - 1 \in Nat
        BY <3>1, <3>2, <3>3
      <4>2. QED
        BY <4>1
    <3>5. PICK a \in Nat, b \in Nat : a = L - (m - 1) /\ b = M - (m - 1)
      BY <3>1, <3>2, <3>3, <3>4
    <3>6. Into(s, e, a) = Into(t, f, b) /\ a \in 1 .. L /\ b \in 0 .. M
      BY <3>1, <3>2, <3>3, <3>4, <3>5
    <3>7. Into(s, e, a) = <<"blockIds", Walk[<<s, e, a - 1>>], topEntryId[e][a]>>
      BY <3>6 DEF Into
    <3>8. b # 0
      BY <2>1, <3>6, <3>7 DEF Into
    <3>9. Into(t, f, b) = <<"blockIds", Walk[<<t, f, b - 1>>], topEntryId[f][b]>>
      BY <3>8 DEF Into
    <3>10. Walk[<<s, e, a - 1>>] = Walk[<<t, f, b - 1>>]
      <4>1. Into(s, e, a)[2] = Walk[<<s, e, a - 1>>] /\ Into(t, f, b)[2] = Walk[<<t, f, b - 1>>]
        BY <3>7, <3>9
      <4>2. QED
        BY <3>6, <4>1
    <3>11. a - 1 \in 0 .. Level[e] - 1 /\ b - 1 \in 0 .. Level[f] - 1
      BY <2>1, <3>6, <3>8
    <3>12. Walk[<<s, e, a - 1>>] # 0
      BY <3>11 DEF HasPath
    <3>13. PICK c \in 0 .. Level[e] - 1, d \in 0 .. Level[f] - 1 : c = a - 1 /\ d = b - 1
      BY <3>11
    <3>14. /\ c # 0 => Walk[<<s, e, c - 1>>] # 0
           /\ d # 0 => Walk[<<t, f, d - 1>>] # 0
      <4>1. c # 0 => c - 1 \in 0 .. Level[e] - 1
        BY <2>1, <3>13
      <4>2. d # 0 => d - 1 \in 0 .. Level[f] - 1
        BY <2>1, <3>13
      <4>3. QED
        BY <4>1, <4>2 DEF HasPath
    <3>15. /\ Into(s, e, c) \in Words /\ IdAt(Into(s, e, c)) = Walk[<<s, e, c>>]
           /\ Into(t, f, d) \in Words /\ IdAt(Into(t, f, d)) = Walk[<<t, f, d>>]
      <4>1. c \in 0 .. Level[e] /\ d \in 0 .. Level[f]
        BY <1>1, <3>13
      <4>2. QED
        BY <1>2, <1>3, <3>14, <4>1, IntoWalk
    <3>16. Into(s, e, c) = Into(t, f, d)
      BY <3>10, <3>12, <3>13, <3>15 DEF WordInv
    <3>17. c = L - m /\ d = M - m /\ m <= M
      BY <3>1, <3>5, <3>8, <3>13
    <3>18. QED
      BY <3>2, <3>16, <3>17
  <2>3. ASSUME NEW m \in Nat, m <= L PROVE Same(m)
    BY <2>2, <2>3
  <2> HIDE DEF Wrong
  <2>4. L <= M /\ Into(s, e, 0) = Into(t, f, M - L)
    BY <2>1, <2>3
  <2>5. Into(s, e, 0) = <<"indirects", s, L>>
    BY <2>1 DEF Into
  <2>6. M - L = 0
    BY <2>1, <2>4, <2>5 DEF Into
  <2>7. s = t
    BY <1>5, <2>1, <2>4, <2>5, <2>6 DEF Into
  <2>8. ASSUME NEW k \in 1 .. Level[e] PROVE topEntryId[e][k] = topEntryId[f][k]
    <3>1. PICK m \in Nat : m <= L /\ L - m = k /\ M - m = k
      <4>1. L = M /\ k \in 1 .. L
        BY <2>1, <2>6
      <4>2. L - k \in Nat /\ L - k <= L /\ L - (L - k) = k /\ M - (L - k) = k
        BY <2>1, <4>1
      <4>3. QED
        BY <4>2
    <3>2. Into(s, e, k) = Into(t, f, k)
      BY <2>3, <3>1
    <3>3. k # 0
      OBVIOUS
    <3>4. QED
      BY <3>2, <3>3 DEF Into
  <2>9. e = f
    BY <1>1, <1>5, <2>1, <2>6, <2>8, SameDigits
  <2>10. QED
    BY <2>7, <2>9
<1>6. QED
  BY <1>4, <1>5

(* So no two entries hold the same block.                                  *)
LEMMA EntriesDiffer ==
  ASSUME TreeInv, WordInv, NEW s \in Secs, NEW e \in Indices, NEW t \in Secs, NEW f \in Indices,
         Entry(s, e) = Entry(t, f), Entry(s, e) # 0
  PROVE  s = t /\ e = f
<1>1. HasPath(s, e) /\ HasPath(t, f)
  BY EntryHasPath
<1>2. PICK h : Heights(h)
  BY DEF TreeInv
<1>3. ASSUME NEW u \in Secs, NEW g \in Indices, HasPath(u, g)
      PROVE  Into(u, g, Level[g]) \in Words /\ IdAt(Into(u, g, Level[g])) = Entry(u, g)
  <2>1. Level[g] \in 0 .. Level[g] /\ (Level[g] # 0 => Level[g] - 1 \in 0 .. Level[g] - 1)
    BY IndexType
  <2>2. Level[g] # 0 => Walk[<<u, g, Level[g] - 1>>] # 0
    BY <1>3, <2>1 DEF HasPath
  <2>3. QED
    BY <1>2, <2>1, <2>2, IntoWalk DEF TreeInv, Entry
<1>4. Into(s, e, Level[e]) = Into(t, f, Level[f])
  BY <1>1, <1>3 DEF WordInv
<1>5. QED
  BY <1>1, <1>4, SamePath

-----------------------------------------------------------------------------
(* The walks after a step.                                                 *)
LEMMA WalkValues ==
  \A s \in Secs, e \in Indices :
    /\ Level[e] = 0 => Walk[<<s, e, 0>>] = direct[s][e]
    /\ Level[e] > 0 => Walk[<<s, e, 0>>] = indirects[s][Level[e]]
    /\ \A k \in 1 .. Level[e] :
         Walk[<<s, e, k>>] = IF Walk[<<s, e, k - 1>>] = 0 THEN 0
                             ELSE blockIds[Walk[<<s, e, k - 1>>]][topEntryId[e][k]]
  BY WalkValue

LEMMA WalkValuesPrimed ==
  \A s \in Secs, e \in Indices :
    /\ Level[e] = 0 => Walk'[<<s, e, 0>>] = direct'[s][e]
    /\ Level[e] > 0 => Walk'[<<s, e, 0>>] = indirects'[s][Level[e]]
    /\ \A k \in 1 .. Level[e] :
         Walk'[<<s, e, k>>] = IF Walk'[<<s, e, k - 1>>] = 0 THEN 0
                              ELSE blockIds'[Walk'[<<s, e, k - 1>>]][topEntryId[e][k]]
<1>1. (\A s \in Secs, e \in Indices :
    /\ Level[e] = 0 => Walk[<<s, e, 0>>] = direct[s][e]
    /\ Level[e] > 0 => Walk[<<s, e, 0>>] = indirects[s][Level[e]]
    /\ \A k \in 1 .. Level[e] :
         Walk[<<s, e, k>>] = IF Walk[<<s, e, k - 1>>] = 0 THEN 0
                             ELSE blockIds[Walk[<<s, e, k - 1>>]][topEntryId[e][k]])'
  BY WalkValues, PTL
<1>2. QED
  BY <1>1

(* A walk that does not come to the word a step sets is not changed.       *)
LEMMA WalkKept ==
  ASSUME Trees, NEW h, Heights(h), NEW x, NEW b, Sets(x, b),
         DOMAIN blockIds \subseteq DOMAIN blockIds',
         NEW t \in Secs, NEW f \in Indices, NEW K \in 0 .. Level[f],
         \A k \in 0 .. K : (k # 0 => Walk[<<t, f, k - 1>>] # 0) => Into(t, f, k) # x
  PROVE  \A k \in 0 .. K : Walk'[<<t, f, k>>] = Walk[<<t, f, k>>]
<1> DEFINE Wrong == {k \in 0 .. K : Walk'[<<t, f, k>>] # Walk[<<t, f, k>>]}
<1>1. f \in 0 .. Capacity - 1 /\ f \in Nat /\ Level[f] \in 0 .. Levels /\ Levels \in Nat
  BY IndexType
<1> SUFFICES ASSUME Wrong # {} PROVE FALSE
  OBVIOUS
<1>2. PICK m \in Wrong : m \in Nat /\ (m # 0 => m - 1 \in Nat \ Wrong)
  <2>1. Wrong \in SUBSET Nat
    BY <1>1
  <2>2. QED
    <3> HIDE DEF Wrong
    <3>1. QED
      BY <2>1, LeastNatural
<1>3. m \in 0 .. K /\ m \in 0 .. Level[f] /\ Walk'[<<t, f, m>>] # Walk[<<t, f, m>>]
  BY <1>1, <1>2
<1>4. Words \subseteq Words'
  BY DEF Words
<1>5. m # 0 => Walk'[<<t, f, m - 1>>] = Walk[<<t, f, m - 1>>]
  BY <1>1, <1>2, <1>3
<1>6. ASSUME m # 0 => Walk[<<t, f, m - 1>>] # 0 PROVE FALSE
  <2>1. PICK w : w = Into(t, f, m)
    OBVIOUS
  <2>2. w \in Words /\ IdAt(w) = Walk[<<t, f, m>>]
    BY <1>3, <1>6, <2>1, IntoWalk
  <2>3. w # x
    BY <1>3, <1>6, <2>1
  <2>4. IdAt(w)' = IdAt(w)
    BY <1>4, <2>2, <2>3 DEF Sets
  <2>5. Walk'[<<t, f, m>>] = IdAt(w)'
    <3>1. CASE m = 0 /\ Level[f] = 0
      <4>1. w = <<"direct", t, f>>
        BY <2>1, <3>1 DEF Into
      <4>2. Walk'[<<t, f, m>>] = direct'[t][f]
        BY <3>1, WalkValuesPrimed
      <4>3. QED
        BY <4>1, <4>2 DEF IdAt
    <3>2. CASE m = 0 /\ Level[f] # 0
      <4>1. w = <<"indirects", t, Level[f]>> /\ Level[f] > 0
        BY <1>1, <2>1, <3>2 DEF Into
      <4>2. Walk'[<<t, f, m>>] = indirects'[t][Level[f]]
        BY <3>2, <4>1, WalkValuesPrimed
      <4>3. QED
        BY <4>1, <4>2 DEF IdAt
    <3>3. CASE m # 0
      <4>1. w = <<"blockIds", Walk[<<t, f, m - 1>>], topEntryId[f][m]>> /\ m \in 1 .. Level[f]
        BY <1>1, <1>3, <2>1, <3>3 DEF Into
      <4>2. Walk'[<<t, f, m>>] = blockIds'[Walk[<<t, f, m - 1>>]][topEntryId[f][m]]
        <5>1. Walk'[<<t, f, m>>] = IF Walk'[<<t, f, m - 1>>] = 0 THEN 0
                                   ELSE blockIds'[Walk'[<<t, f, m - 1>>]][topEntryId[f][m]]
          BY <4>1, WalkValuesPrimed
        <5>2. QED
          BY <1>5, <1>6, <3>3, <5>1
      <4>3. /\ w[1] = "blockIds" /\ w[2] = Walk[<<t, f, m - 1>>] /\ w[3] = topEntryId[f][m]
        BY <4>1
      <4>4. QED
        BY <4>2, <4>3 DEF IdAt
    <3>4. QED
      BY <3>1, <3>2, <3>3
  <2>6. QED
    BY <1>3, <2>2, <2>4, <2>5
<1>7. ASSUME m # 0, Walk[<<t, f, m - 1>>] = 0 PROVE FALSE
  <2>1. m \in 1 .. Level[f]
    BY <1>1, <1>3, <1>7
  <2>2. Walk[<<t, f, m>>] = 0
    BY <1>7, <2>1, WalkValue
  <2>3. Walk'[<<t, f, m>>] = IF Walk'[<<t, f, m - 1>>] = 0 THEN 0
                             ELSE blockIds'[Walk'[<<t, f, m - 1>>]][topEntryId[f][m]]
    BY <2>1, WalkValuesPrimed
  <2>4. QED
    BY <1>3, <1>5, <1>7, <2>2, <2>3
<1>8. QED
  BY <1>6, <1>7

(* Entering a block changes its own entry, and no other; ...               *)
LEMMA LeafEntries ==
  ASSUME TreeInv, WordInv, NEW s \in Secs, NEW e \in Indices, NEW b \in Nat, Leaf(s, e, b),
         NEW t \in Secs, NEW f \in Indices
  PROVE  Entry(t, f)' = IF t = s /\ f = e THEN b ELSE Entry(t, f)
<1>1. /\ e \in 0 .. Capacity - 1 /\ e \in Nat /\ Level[e] \in 0 .. Levels /\ Levels \in Nat
      /\ f \in 0 .. Capacity - 1 /\ f \in Nat /\ Level[f] \in 0 .. Levels
  BY IndexType
<1>2. PICK h : Heights(h)
  BY DEF TreeInv
<1>3. Trees /\ HasPath(s, e)
  BY DEF TreeInv, Leaf
<1>4. DOMAIN blockIds' = DOMAIN blockIds
  BY LeafKeepsTrees
<1>5. PICK x : x = Into(s, e, Level[e])
  OBVIOUS
<1>6. Sets(x, b)
  <2>1. ASSUME NEW w \in Words'
        PROVE  w \in Words /\ IdAt(w)' = IF w = Into(s, e, Level[e]) THEN b ELSE IdAt(w)
    BY LeafWords
  <2>2. QED
    BY <1>5, <2>1 DEF Sets
<1>7. Level[e] # 0 => /\ Level[e] - 1 \in 0 .. Level[e] - 1
                      /\ Walk[<<s, e, Level[e] - 1>>] # 0
  BY <1>1, <1>3 DEF HasPath
<1>8. Level[e] # 0 => h[Walk[<<s, e, Level[e] - 1>>]] = 1
  <2>1. Level[e] \in 0 .. Level[e] /\ Level[e] - (Level[e] - 1) = 1
    BY <1>1
  <2>2. QED
    BY <1>2, <1>3, <1>7, <2>1, IntoWalk
(* The walk meets the word only at its end, ...                            *)
<1>9. ASSUME NEW u \in Secs, NEW g \in Indices, NEW k \in 0 .. Level[g],
             k # 0 => Walk[<<u, g, k - 1>>] # 0, Into(u, g, k) = x
      PROVE  k = Level[g] /\ u = s /\ g = e
  <2>1. Level[g] \in 0 .. Levels /\ k \in Nat
    BY IndexType
  <2>2. k = Level[g]
    <3>1. CASE Level[e] = 0
      BY <1>5, <1>9, <3>1 DEF Into
    <3>2. CASE Level[e] # 0
      <4>1. x = <<"blockIds", Walk[<<s, e, Level[e] - 1>>], topEntryId[e][Level[e]]>>
        BY <1>5, <3>2 DEF Into
      <4>2. k # 0
        BY <1>9, <4>1 DEF Into
      <4>3. Into(u, g, k) = <<"blockIds", Walk[<<u, g, k - 1>>], topEntryId[g][k]>>
        BY <4>2 DEF Into
      <4>4. Walk[<<u, g, k - 1>>] = Walk[<<s, e, Level[e] - 1>>]
        <5>1. Into(u, g, k)[2] = Walk[<<u, g, k - 1>>] /\ x[2] = Walk[<<s, e, Level[e] - 1>>]
          BY <4>1, <4>3
        <5>2. QED
          BY <1>9, <5>1
      <4>5. h[Walk[<<u, g, k - 1>>]] = Level[g] - (k - 1)
        <5>1. k \in 1 .. Level[g] /\ Walk[<<u, g, k - 1>>] # 0
          BY <1>9, <2>1, <4>2
        <5>2. QED
          BY <1>2, <1>3, <5>1, IntoHeight
      <4>6. Level[g] - (k - 1) = 1
        BY <1>8, <3>2, <4>4, <4>5
      <4>7. QED
        BY <2>1, <4>6
    <3>3. QED
      BY <3>1, <3>2
  <2>3. HasPath(u, g)
    BY <1>9, <2>2, PathAbove DEF HasPath
  <2>4. QED
    BY <1>3, <1>5, <1>9, <2>2, <2>3, SamePath
<1>10. CASE ~(t = s /\ f = e)
  <2>1. Level[f] \in 0 .. Level[f]
    BY <1>1
  <2>2. \A k \in 0 .. Level[f] : (k # 0 => Walk[<<t, f, k - 1>>] # 0) => Into(t, f, k) # x
    BY <1>9, <1>10
  <2>3. Walk'[<<t, f, Level[f]>>] = Walk[<<t, f, Level[f]>>]
    BY <1>2, <1>3, <1>4, <1>6, <2>1, <2>2, WalkKept
  <2>4. QED
    BY <1>10, <2>3 DEF Entry
<1>11. CASE t = s /\ f = e
  <2>1. CASE Level[e] = 0
    <3>1. x = <<"direct", s, e>> /\ e \in 0 .. Direct - 1
      BY <1>1, <1>5, <2>1, LevelZero, BlockIndexAssumption DEF Into
    <3>2. Walk'[<<s, e, 0>>] = direct'[s][e]
      BY <2>1, WalkValuesPrimed
    <3>3. direct'[s][e] = b
      BY <1>3, <2>1, <3>1 DEF Leaf, Enters, SetWord, Trees
    <3>4. QED
      BY <1>11, <2>1, <3>2, <3>3 DEF Entry
  <2>2. CASE Level[e] # 0
    <3>1. PICK l \in 1 .. Level[e] : l = Level[e] /\ l - 1 \in 0 .. Level[e] /\ l # 0
      BY <1>1, <2>2
    <3>2. \A k \in 0 .. l - 1 : (k # 0 => Walk[<<s, e, k - 1>>] # 0) => Into(s, e, k) # x
      <4>1. ASSUME NEW k \in 0 .. l - 1, k # 0 => Walk[<<s, e, k - 1>>] # 0, Into(s, e, k) = x
            PROVE  FALSE
        <5>1. k \in 0 .. Level[e] /\ k # Level[e]
          BY <1>1, <3>1
        <5>2. QED
          BY <1>9, <4>1, <5>1
      <4>2. QED
        BY <4>1
    <3>3. l - 1 \in 0 .. l - 1
      BY <1>1, <3>1
    <3>4. Walk'[<<s, e, l - 1>>] = Walk[<<s, e, l - 1>>]
      BY <1>2, <1>3, <1>4, <1>6, <3>1, <3>2, <3>3, WalkKept
    <3>5. Walk'[<<s, e, l>>] = blockIds'[Walk[<<s, e, l - 1>>]][topEntryId[e][l]]
      <4>1. Walk'[<<s, e, l>>] = IF Walk'[<<s, e, l - 1>>] = 0 THEN 0
                                 ELSE blockIds'[Walk'[<<s, e, l - 1>>]][topEntryId[e][l]]
        BY WalkValuesPrimed
      <4>2. QED
        BY <1>7, <2>2, <3>1, <3>4, <4>1
    <3>6. x = <<"blockIds", Walk[<<s, e, l - 1>>], topEntryId[e][l]>>
      BY <1>5, <3>1 DEF Into
    <3>7. x \in Words
      <4>1. l \in 0 .. Level[e] /\ (l # 0 => Walk[<<s, e, l - 1>>] # 0)
        BY <1>1, <1>7, <3>1
      <4>2. Into(s, e, l) \in Words
        BY <1>2, <1>3, <4>1, IntoWalk
      <4>3. QED
        BY <1>5, <3>1, <4>2
    <3>8. x \in Words' /\ IdAt(x)' = b
      <4>1. Words \subseteq Words'
        BY <1>4 DEF Words
      <4>2. QED
        BY <1>6, <3>7, <4>1 DEF Sets
    <3>9. IdAt(x)' = blockIds'[Walk[<<s, e, l - 1>>]][topEntryId[e][l]]
      <4>1. /\ x[1] = "blockIds" /\ x[2] = Walk[<<s, e, l - 1>>] /\ x[3] = topEntryId[e][l]
        BY <3>6
      <4>2. QED
        BY <4>1 DEF IdAt
    <3>10. QED
      BY <1>11, <3>1, <3>5, <3>8, <3>9 DEF Entry
  <2>3. QED
    BY <2>1, <2>2
<1>12. QED
  BY <1>10, <1>11

(* ... a new index block changes none: those below it hold nothing.        *)
LEMMA EntriesHavePaths ==
  \A s \in Secs, e \in Indices :
    Entry(s, e) # 0 => \A k \in 0 .. Level[e] : Walk[<<s, e, k>>] # 0
<1> SUFFICES ASSUME NEW s \in Secs, NEW e \in Indices, Entry(s, e) # 0,
                    NEW k \in 0 .. Level[e]
             PROVE  Walk[<<s, e, k>>] # 0
  OBVIOUS
<1>1. Level[e] \in Nat
  BY IndexType
<1>2. k = Level[e] \/ k \in 0 .. Level[e] - 1
  BY <1>1
<1>3. QED
  BY <1>2, EntryHasPath DEF HasPath, Entry

LEMMA EntriesHavePathsPrimed ==
  \A s \in Secs, e \in Indices :
    Walk'[<<s, e, Level[e]>>] # 0 => \A k \in 0 .. Level[e] : Walk'[<<s, e, k>>] # 0
<1>1. (\A s \in Secs, e \in Indices :
        Entry(s, e) # 0 => \A k \in 0 .. Level[e] : Walk[<<s, e, k>>] # 0)'
  BY EntriesHavePaths, PTL
<1>2. QED
  BY <1>1 DEF Entry

LEMMA BranchEntries ==
  ASSUME TreeInv, WordInv, NEW s \in Secs, NEW e \in Indices, NEW new \in Nat \ {0},
         new \notin DOMAIN blockIds, NEW k \in 0 .. Level[e] - 1, Branch(s, e, k, new),
         NEW t \in Secs, NEW f \in Indices
  PROVE  Entry(t, f)' = Entry(t, f)
<1>1. /\ Level[e] \in 1 .. Levels /\ Levels \in Nat /\ k \in Nat /\ k < Level[e]
      /\ f \in 0 .. Capacity - 1 /\ f \in Nat /\ Level[f] \in 0 .. Levels
  BY IndexType
<1>2. PICK h : Heights(h)
  BY DEF TreeInv
<1>3. Trees
  BY DEF TreeInv
<1>4. DOMAIN blockIds' = DOMAIN blockIds \cup {new}
  BY BranchKeepsTrees
<1>5. PICK x : x = Into(s, e, k)
  OBVIOUS
<1>6. Sets(x, new)
  <2>1. ASSUME NEW w \in Words'
        PROVE  IdAt(w)' = IF w = Into(s, e, k) THEN new ELSE IF w \in Words THEN IdAt(w) ELSE 0
    BY BranchWords
  <2>2. QED
    BY <1>5, <2>1 DEF Sets
<1>7. /\ x \in Words /\ IdAt(x) = 0
      /\ k # 0 => h[Walk[<<s, e, k - 1>>]] = Level[e] - (k - 1)
  <2>1. k \in 0 .. Level[e] /\ (k # 0 => Walk[<<s, e, k - 1>>] # 0) /\ Walk[<<s, e, k>>] = 0
    BY <1>1 DEF Branch
  <2>2. QED
    BY <1>2, <1>3, <1>5, <2>1, IntoWalk
<1>8. Words \subseteq Words'
  BY <1>4 DEF Words
<1>9. CASE \A m \in 0 .. Level[f] : (m # 0 => Walk[<<t, f, m - 1>>] # 0) => Into(t, f, m) # x
  <2>1. Level[f] \in 0 .. Level[f]
    BY <1>1
  <2>2. Walk'[<<t, f, Level[f]>>] = Walk[<<t, f, Level[f]>>]
    BY <1>2, <1>3, <1>4, <1>6, <1>9, <2>1, WalkKept
  <2>3. QED
    BY <2>2 DEF Entry
<1>10. ASSUME NEW m \in 0 .. Level[f], m # 0 => Walk[<<t, f, m - 1>>] # 0, Into(t, f, m) = x
       PROVE  Entry(t, f)' = Entry(t, f)
  <2>1. Walk[<<t, f, m>>] = 0 /\ (m # 0 => h[Walk[<<t, f, m - 1>>]] = Level[f] - (m - 1))
    BY <1>2, <1>3, <1>7, <1>10, IntoWalk
  <2>2. m # Level[f]
    <3>1. CASE k = 0
      BY <1>1, <1>5, <1>10, <3>1 DEF Into
    <3>2. CASE k # 0
      <4>1. x = <<"blockIds", Walk[<<s, e, k - 1>>], topEntryId[e][k]>>
        BY <1>5, <3>2 DEF Into
      <4>2. m # 0
        BY <1>10, <4>1 DEF Into
      <4>3. Into(t, f, m) = <<"blockIds", Walk[<<t, f, m - 1>>], topEntryId[f][m]>>
        BY <4>2 DEF Into
      <4>4. Walk[<<t, f, m - 1>>] = Walk[<<s, e, k - 1>>]
        <5>1. Into(t, f, m)[2] = Walk[<<t, f, m - 1>>] /\ x[2] = Walk[<<s, e, k - 1>>]
          BY <4>1, <4>3
        <5>2. QED
          BY <1>10, <5>1
      <4>5. Level[f] - (m - 1) = Level[e] - (k - 1)
        BY <1>7, <2>1, <3>2, <4>2, <4>4
      <4>6. QED
        BY <1>1, <4>5
    <3>3. QED
      BY <3>1, <3>2
  <2>3. m \in Nat /\ m + 1 \in 1 .. Level[f] /\ m + 1 \in 0 .. Level[f] /\ (m + 1) - 1 = m
    BY <1>1, <2>2
  <2>4. Entry(t, f) = 0
    BY <2>1, EntriesHavePaths
  <2>5. Walk'[<<t, f, m>>] = IdAt(x)'
    <3>1. CASE m = 0
      <4>1. x = <<"indirects", t, Level[f]>> /\ Level[f] > 0
        BY <1>1, <1>10, <2>2, <3>1 DEF Into
      <4>2. Walk'[<<t, f, m>>] = indirects'[t][Level[f]]
        BY <3>1, <4>1, WalkValuesPrimed
      <4>3. QED
        BY <4>1, <4>2 DEF IdAt
    <3>2. CASE m # 0
      <4>1. m - 1 \in 0 .. m - 1 /\ m - 1 \in 0 .. Level[f] /\ m \in 1 .. Level[f]
        BY <1>1, <3>2
      <4>2. \A j \in 0 .. m - 1 : Walk[<<t, f, j>>] # 0
        BY <1>10, PathAbove
      <4>3. \A j \in 0 .. m - 1 : (j # 0 => Walk[<<t, f, j - 1>>] # 0) => Into(t, f, j) # x
        <5>1. ASSUME NEW j \in 0 .. m - 1, j # 0 => Walk[<<t, f, j - 1>>] # 0, Into(t, f, j) = x
              PROVE  FALSE
          <6>1. j \in 0 .. Level[f]
            BY <1>1
          <6>2. Walk[<<t, f, j>>] = 0
            BY <1>2, <1>3, <1>7, <5>1, <6>1, IntoWalk
          <6>3. QED
            BY <4>2, <6>2
        <5>2. QED
          BY <5>1
      <4>4. Walk'[<<t, f, m - 1>>] = Walk[<<t, f, m - 1>>]
        <5>1. \A j \in 0 .. m - 1 : Walk'[<<t, f, j>>] = Walk[<<t, f, j>>]
          <6>1. DOMAIN blockIds \subseteq DOMAIN blockIds'
            BY <1>4
          <6>2. QED
            BY <1>2, <1>3, <1>6, <4>1, <4>3, <6>1, WalkKept
        <5>2. QED
          BY <4>1, <5>1
      <4>5. Walk'[<<t, f, m>>] = IF Walk'[<<t, f, m - 1>>] = 0 THEN 0
                                 ELSE blockIds'[Walk'[<<t, f, m - 1>>]][topEntryId[f][m]]
        BY <4>1, WalkValuesPrimed
      <4>6. Walk'[<<t, f, m>>] = blockIds'[Walk[<<t, f, m - 1>>]][topEntryId[f][m]]
        BY <1>10, <3>2, <4>4, <4>5
      <4>7. /\ x[1] = "blockIds" /\ x[2] = Walk[<<t, f, m - 1>>] /\ x[3] = topEntryId[f][m]
        BY <1>10, <3>2 DEF Into
      <4>8. QED
        BY <4>6, <4>7 DEF IdAt
    <3>3. QED
      BY <3>1, <3>2
  <2>6. Walk'[<<t, f, m>>] = new
    BY <1>6, <1>7, <1>8, <2>5 DEF Sets
  <2>7. Walk'[<<t, f, m + 1>>] = blockIds'[new][topEntryId[f][m + 1]]
    <3>1. Walk'[<<t, f, m + 1>>] = IF Walk'[<<t, f, (m + 1) - 1>>] = 0 THEN 0
                                   ELSE blockIds'[Walk'[<<t, f, (m + 1) - 1>>]][topEntryId[f][m + 1]]
      BY <2>3, WalkValuesPrimed
    <3>2. QED
      BY <2>3, <2>6, <3>1
  <2>8. blockIds'[new][topEntryId[f][m + 1]] = 0
    <3>1. PICK w : w = <<"blockIds", new, topEntryId[f][m + 1]>>
      OBVIOUS
    <3>2. topEntryId[f][m + 1] \in 0 .. Fan - 1
      BY <1>1, <2>3, PathType
    <3>3. w \in Words' /\ w \notin Words /\ IdAt(w)' = blockIds'[new][topEntryId[f][m + 1]]
      BY <1>4, <3>1, <3>2 DEF Words, IdAt
    <3>4. IdAt(w)' = 0
      BY <1>6, <1>7, <3>3 DEF Sets
    <3>5. QED
      BY <3>3, <3>4
  <2>9. Walk'[<<t, f, Level[f]>>] = 0
    BY <2>3, <2>7, <2>8, EntriesHavePathsPrimed
  <2>10. QED
    BY <2>4, <2>9 DEF Entry
<1>11. QED
  BY <1>9, <1>10

-----------------------------------------------------------------------------
(* When no write ends behind its section and the head lies in one block,   *)
(* the blocks of a section are entered from the first on, without a gap;   *)
(* all but the place of the call in progress is there; what a walk has     *)
(* seen follows its first block; and what was copied is where it was put.  *)
Place(s, p) == Entry(s, Index(p)) * BlockSize + (p % BlockSize)

Prefix(s) == \A d, e \in Indices : d < e /\ Entry(s, e) # 0 => Entry(s, d) # 0

Covered(s) ==
  \A p \in 0 .. MaxSize :
    p < sectionSize[s] /\ (p < offset[s] \/ p >= offset[s] + len[s] + todo[s]) =>
      Entry(s, Index(p)) # 0

Follows(s) ==
  /\ i[s] > 0 \/ num[s] > 0 => blk[s] # 0
  /\ \A j \in Nat : j < i[s] \/ j < num[s] => Entry(s, Index(offset[s]) + j) = blk[s] + j
  /\ fresh[s] => \A e \in Indices : Index(offset[s]) + i[s] <= e => Entry(s, e) = 0

Stored(s) ==
  \A p \in filled[s] : /\ Entry(s, Index(p)) # 0
                       /\ Place(s, p) \in DOMAIN data /\ data[Place(s, p)] = <<s, p>>

ReadInv == \A s \in Secs : Prefix(s) /\ Covered(s) /\ Follows(s) /\ Stored(s)

(* The index of a position of the section is one of its entries.           *)
LEMMA PositionType ==
  ASSUME NEW p \in 0 .. MaxSize
  PROVE  p \in Nat /\ Index(p) \in Indices /\ Index(p) \in Nat
<1>1. MaxSize \in Nat
  BY SizeTypes
<1>2. QED
  BY <1>1, IndexMonotone DEF Indices

LEMMA RunIndices ==
  ASSUME TypeOK, NEW s \in Secs, Call(s), len[s] > 0, NEW j \in Nat, j < Asked(s)
  PROVE  Index(offset[s]) + j \in Indices
<1>1. /\ BlockSize \in Nat \ {0} /\ MaxSize \in Nat
      /\ len[s] \in Nat /\ offset[s] \in Nat /\ todo[s] \in Nat
  BY SizeTypes DEF TypeOK
<1>2. offset[s] + len[s] <= MaxSize /\ j * BlockSize < len[s]
  <2>1. j * BlockSize < len[s]
    BY AskedType
  <2>2. offset[s] + len[s] + todo[s] <= MaxSize
    BY <1>1 DEF Call
  <2>3. QED
    BY <1>1, <2>1, <2>2
<1>3. Index(offset[s]) \in Nat /\ Index(offset[s]) * BlockSize <= offset[s]
  BY <1>1, IndexFloor
<1>4. PICK d \in Nat : d = Index(offset[s])
  BY <1>3
<1>5. (d + j) * BlockSize <= MaxSize
  <2>1. (d + j) * BlockSize = d * BlockSize + j * BlockSize
    BY <1>1
  <2>2. d * BlockSize \in Nat /\ j * BlockSize \in Nat
    BY <1>1
  <2>3. QED
    BY <1>1, <1>2, <1>3, <1>4, <2>1, <2>2
<1>6. d + j <= Index(MaxSize) /\ Index(MaxSize) \in Nat
  <2>1. d + j \in Nat
    OBVIOUS
  <2>2. QED
    BY <1>1, <1>5, <2>1, QuotientAtLeast, DivMod DEF Index
<1>7. QED
  BY <1>4, <1>6 DEF Indices

(* A step that leaves the trees alone leaves the entries alone.            *)
LEMMA SameEntries ==
  ASSUME UNCHANGED tree, NEW t \in Secs, NEW f \in Indices
  PROVE  Entry(t, f)' = Entry(t, f)
  BY DEF Entry, Walk, tree

(* What is known of a section holds on while its entries and its call do   *)
(* not change.                                                             *)
LEMMA ReadKept ==
  ASSUME NEW t \in Secs, \A f \in Indices : Entry(t, f)' = Entry(t, f),
         TypeOK, Call(t), Prefix(t), Covered(t), Follows(t),
         sectionSize'[t] = sectionSize[t], offset'[t] = offset[t], len'[t] = len[t],
         todo'[t] = todo[t], blk'[t] = blk[t], num'[t] = num[t], i'[t] = i[t],
         fresh'[t] = fresh[t]
  PROVE  Prefix(t)' /\ Covered(t)' /\ Follows(t)'
<1>1. Prefix(t)'
  BY DEF Prefix
<1>2. Covered(t)'
  <2>1. ASSUME NEW p \in 0 .. MaxSize, p < sectionSize[t],
               p < offset[t] \/ p >= offset[t] + len[t] + todo[t]
        PROVE  Entry(t, Index(p))' # 0
    BY <2>1, PositionType DEF Covered
  <2>2. QED
    BY <2>1 DEF Covered
<1>3. Follows(t)'
  <2>1. ASSUME NEW j \in Nat, j < i[t] \/ j < num[t]
        PROVE  Entry(t, Index(offset[t]) + j)' = blk[t] + j
    <3>1. len[t] > 0 /\ j < Asked(t)
      <4>1. i[t] \in Nat /\ num[t] \in Nat /\ Asked(t) \in Nat
        BY AskedType DEF TypeOK
      <4>2. CASE j < i[t]
        BY <4>1, <4>2 DEF Call
      <4>3. CASE j < num[t]
        BY <4>1, <4>3 DEF Call
      <4>4. QED
        BY <2>1, <4>2, <4>3
    <3>2. PICK e \in Indices : e = Index(offset[t]) + j
      BY <3>1, RunIndices
    <3>3. QED
      BY <2>1, <3>2 DEF Follows
  <2>2. QED
    BY <2>1 DEF Follows, Index
<1>4. QED
  BY <1>1, <1>2, <1>3

LEMMA StoredKept ==
  ASSUME NEW t \in Secs, \A f \in Indices : Entry(t, f) # 0 => Entry(t, f)' = Entry(t, f),
         TypeOK, Stored(t), filled'[t] = filled[t], data' = data
  PROVE  Stored(t)'
<1>1. ASSUME NEW p \in filled[t] PROVE Entry(t, Index(p))' = Entry(t, Index(p))
  <2>1. p \in 0 .. MaxSize
    BY DEF TypeOK
  <2>2. QED
    BY <2>1, PositionType DEF Stored
<1>2. QED
  BY <1>1 DEF Stored, Place

(* A call begins where everything is there, or behind it; the head that is *)
(* skipped lies in the block of the header.                                *)
LEMMA CallsKeepReads ==
  ASSUME IInv, ReadInv, ~Beyond, HeadLength <= BlockSize, NEW s \in Secs,
         \/ OpenData(s) \/ SetHead(s) \/ WriteCharacters(s) \/ Done(s)
         \/ \E n \in Lens : Append(s, n) \/ WriteString(s, n)
         \/ \E n \in Lens, p \in Offsets : WriteAt(s, p, n)
  PROVE  ReadInv'
<1> USE SizeTypes
<1>1. TypeOK /\ CallInv /\ Call(s)
  BY DEF IInv, CallInv
<1>2. /\ TypeOK' /\ UNCHANGED <<tree, blockAllocated, blk, i, fresh, data, filled, num>>
      /\ fresh[s] = FALSE /\ num[s] = 0 /\ i[s] = 0 /\ len[s] = 0
      /\ \A t \in Secs \ {s} : /\ offset'[t] = offset[t] /\ len'[t] = len[t]
                               /\ sectionSize'[t] = sectionSize[t] /\ todo'[t] = todo[t]
  BY <1>1, CallSteps
<1>3. \A t \in Secs, f \in Indices : Entry(t, f)' = Entry(t, f)
  BY <1>2, SameEntries
<1>4. /\ sectionSize \in [Secs -> 0 .. MaxSize] /\ pc \in [Secs -> {"idle", "write", "header"}]
      /\ offset \in [Secs -> Nat] /\ len \in [Secs -> Nat] /\ todo \in [Secs -> Nat]
  BY <1>1 DEF TypeOK
<1> DEFINE In(p) == Entry(s, Index(p)) # 0
           Goal == \A p \in 0 .. MaxSize :
                     /\ p < sectionSize'[s]
                     /\ p < offset'[s] \/ p >= offset'[s] + len'[s] + todo'[s]
                     => In(p)
<1>5. \A p \in 0 .. MaxSize : p < sectionSize[s] /\ (p < offset[s] \/ p >= offset[s] + todo[s]) => In(p)
  BY <1>2, <1>4 DEF ReadInv, Covered
<1>6. pc[s] = "idle" => todo[s] = 0
  BY <1>1 DEF Call
<1>7. \A p \in 0 .. MaxSize : p < sectionSize[s] /\ todo[s] = 0 => In(p)
  BY <1>4, <1>5
<1> HIDE DEF In
<1>8. ASSUME OpenData(s) PROVE Goal
  <2>1. sectionSize'[s] = HeaderLen /\ offset'[s] = 0 /\ len'[s] = HeaderLen /\ todo'[s] = todo[s]
    BY <1>4, <1>8 DEF OpenData, Enter
  <2>2. QED
    BY <1>4, <2>1
<1>9. ASSUME NEW n \in Lens, Append(s, n) PROVE Goal
  <2>1. /\ sectionSize'[s] = sectionSize[s] + n /\ offset'[s] = sectionSize[s]
        /\ len'[s] = n /\ todo'[s] = todo[s] /\ pc[s] = "idle"
    BY <1>4, <1>9 DEF Append, Enter, Goto
  <2>2. ASSUME NEW p \in 0 .. MaxSize, p < sectionSize'[s],
               p < offset'[s] \/ p >= offset'[s] + len'[s] + todo'[s]
        PROVE  p < sectionSize[s]
    <3>1. sectionSize[s] \in Nat /\ n \in Nat /\ todo'[s] = 0
      BY <1>4, <1>6, <2>1
    <3>2. QED
      BY <2>1, <2>2, <3>1
  <2>3. QED
    BY <1>6, <1>7, <2>1, <2>2
<1>10. ASSUME NEW n \in Lens, WriteString(s, n) PROVE Goal
  <2>1. /\ sectionSize'[s] = sectionSize[s] + 1 + n /\ offset'[s] = sectionSize[s]
        /\ len'[s] = 1 /\ todo'[s] = n /\ pc[s] = "idle"
    BY <1>4, <1>10 DEF WriteString, Enter, Goto
  <2>2. QED
    BY <1>4, <1>6, <1>7, <2>1
<1>11. ASSUME NEW n \in Lens, NEW o \in Offsets, WriteAt(s, o, n) PROVE Goal
  <2>1. sectionSize'[s] = sectionSize[s] /\ pc[s] = "idle"
    BY <1>4, <1>11 DEF WriteAt, Goto
  <2>2. QED
    BY <1>6, <1>7, <2>1
<1>12. ASSUME WriteCharacters(s) PROVE Goal
  <2>1. /\ sectionSize'[s] = sectionSize[s] /\ offset'[s] = offset[s]
        /\ len'[s] = todo[s] /\ todo'[s] = 0
    BY <1>4, <1>12 DEF WriteCharacters, Enter
  <2>2. QED
    BY <1>4, <1>5, <2>1
<1>13. ASSUME Done(s) PROVE Goal
  <2>1. sectionSize'[s] = sectionSize[s] /\ todo[s] = 0
    BY <1>13 DEF Done
  <2>2. QED
    BY <1>7, <2>1
<1>14. ASSUME SetHead(s) PROVE Goal
  <2>1. sectionSize'[s] = HeadLength /\ pc[s] = "header"
    BY <1>4, <1>14 DEF SetHead, Goto
  <2>2. sectionSize[s] = HeaderLen /\ todo[s] = 0
    BY <1>1, <2>1 DEF Call
  <2>3. In(0)
    BY <1>7, <2>2
  <2>4. ASSUME NEW p \in 0 .. MaxSize, p < HeadLength PROVE In(p)
    <3>1. p < BlockSize /\ p \in Nat
      BY <2>4
    <3>2. p = 0 * BlockSize + p /\ p \in 0 .. BlockSize - 1
      BY <3>1
    <3>3. 0 = 0 * BlockSize + 0 /\ 0 \in 0 .. BlockSize - 1
      OBVIOUS
    <3>4. Index(p) = 0 /\ Index(0) = 0
      BY <3>1, <3>2, <3>3, Remainder DEF Index
    <3>5. QED
      BY <2>3, <3>4 DEF In
  <2>5. QED
    BY <2>1, <2>4
<1>15. Goal
  BY <1>8, <1>9, <1>10, <1>11, <1>12, <1>13, <1>14
<1>16. ASSUME NEW t \in Secs PROVE Prefix(t)' /\ Covered(t)' /\ Follows(t)'
  <2>1. CASE t = s
    <3>1. Prefix(s)'
      BY <1>3 DEF Prefix, ReadInv
    <3>2. Covered(s)'
      <4>1. ASSUME NEW p \in 0 .. MaxSize, In(p) PROVE Entry(s, Index(p))' # 0
        BY <1>3, <4>1, PositionType DEF In
      <4>2. QED
        BY <1>15, <4>1 DEF Covered
    <3>3. Follows(s)'
      <4>1. num'[s] = 0 /\ i'[s] = 0 /\ fresh'[s] = FALSE
        BY <1>2
      <4>2. QED
        BY <4>1 DEF Follows
    <3>4. QED
      BY <2>1, <3>1, <3>2, <3>3
  <2>2. CASE t # s
    BY <1>1, <1>2, <1>3, <2>2, ReadKept DEF CallInv, ReadInv
  <2>3. QED
    BY <2>1, <2>2
<1>17. ASSUME NEW t \in Secs PROVE Stored(t)'
  BY <1>1, <1>2, <1>3, StoredKept DEF ReadInv
<1>18. QED
  BY <1>16, <1>17 DEF ReadInv

(* What a walk finds follows its first block.                              *)
LEMMA FindsKeepReads ==
  ASSUME IInv, ReadInv, NEW s \in Secs, LoadOne(s) \/ LoadRun(s) \/ CompareNext(s)
  PROVE  ReadInv'
<1>1. TypeOK /\ CallInv /\ Call(s) /\ TreeInv
  BY DEF IInv, CallInv
<1>2. /\ TypeOK' /\ UNCHANGED <<sectionSize, tree, blockAllocated, data, call, fresh, filled>>
      /\ fresh[s] = FALSE
      /\ \A t \in Secs \ {s} : i'[t] = i[t] /\ blk'[t] = blk[t] /\ num'[t] = num[t]
  BY <1>1, FindSteps
<1>3. \A t \in Secs, f \in Indices : Entry(t, f)' = Entry(t, f)
  BY <1>2, SameEntries
<1>4. Looks(s) /\ len[s] > 0 /\ num[s] = 0 /\ i[s] \in Nat /\ i[s] < Asked(s) /\ Sought(s) \in Indices
  <2>1. Looks(s)
    BY DEF LoadOne, LoadRun, CompareNext, Finds
  <2>2. QED
    BY <1>1, <2>1, SoughtType DEF Looks, Writing, TypeOK
<1>5. blk[s] \in Nat /\ num[s] \in Nat /\ Asked(s) \in Nat /\ Index(offset[s]) \in Nat
  BY <1>1, AskedType, IndexFloor DEF TypeOK
<1>6. PICK d \in Nat, k \in Nat : d = Index(offset[s]) /\ k = i[s] /\ Sought(s) = d + k
  BY <1>4, <1>5 DEF Sought
<1> DEFINE Seen(n, b) == /\ b # 0
                         /\ \A j \in Nat : j < n => Entry(s, d + j) = b + j
           Goal == \E n \in Nat, b \in Nat :
                     /\ blk'[s] = b /\ Seen(n, b)
                     /\ \/ i'[s] = 0 /\ num'[s] = n
                        \/ i'[s] = n /\ num'[s] = 0
<1>7. ASSUME k = 0, Entry(s, Sought(s)) # 0 PROVE Seen(1, Entry(s, Sought(s)))
  <2>1. ASSUME NEW j \in Nat, j < 1 PROVE d + j = Sought(s) /\ j = 0
    BY <1>6, <1>7, <2>1
  <2>2. Entry(s, Sought(s)) \in Nat
    BY <1>1, <1>4, EntryType
  <2>3. ASSUME NEW j \in Nat, j < 1
        PROVE  Entry(s, d + j) = Entry(s, Sought(s)) + j
    BY <2>1, <2>2, <2>3
  <2>4. QED
    BY <1>7, <2>3
<1>8. ASSUME LoadOne(s) PROVE Goal
  <2>1. i[s] = 0
    BY <1>1, <1>4, <1>8 DEF LoadOne, Call
  <2>2. blk'[s] = Entry(s, Sought(s)) /\ num'[s] = 1 /\ i'[s] = 0 /\ Entry(s, Sought(s)) # 0
    BY <1>1, <1>8, <2>1 DEF LoadOne, TypeOK
  <2>3. Entry(s, Sought(s)) \in Nat
    BY <1>1, <1>4, EntryType
  <2>4. Seen(1, Entry(s, Sought(s)))
    BY <1>6, <1>7, <2>1, <2>2
  <2> HIDE DEF Seen
  <2>5. QED
    BY <2>2, <2>3, <2>4
<1>9. ASSUME LoadRun(s) PROVE Goal
  <2>1. i[s] = 0
    BY <1>9 DEF LoadRun
  <2>2. blk'[s] = Entry(s, Sought(s)) /\ num'[s] = 0 /\ i'[s] = 1 /\ Entry(s, Sought(s)) # 0
    BY <1>1, <1>4, <1>9, <2>1 DEF LoadRun, TypeOK
  <2>3. Entry(s, Sought(s)) \in Nat
    BY <1>1, <1>4, EntryType
  <2>4. Seen(1, Entry(s, Sought(s)))
    BY <1>6, <1>7, <2>1, <2>2
  <2> HIDE DEF Seen
  <2>5. QED
    BY <2>2, <2>3, <2>4
<1>10. ASSUME CompareNext(s) PROVE Goal
  <2> DEFINE follows == Entry(s, Sought(s)) = blk[s] + i[s]
             more == follows /\ i[s] + 1 < Asked(s)
  <2>1. /\ i[s] > 0 /\ blk'[s] = blk[s]
        /\ i'[s] = (IF more THEN i[s] + 1 ELSE 0)
        /\ num'[s] = (IF more THEN 0 ELSE IF follows THEN Asked(s) ELSE i[s])
    BY <1>1, <1>10 DEF CompareNext, TypeOK
  <2>2. Seen(k, blk[s])
    <3>1. blk[s] # 0 /\ \A j \in Nat : j < i[s] => Entry(s, Index(offset[s]) + j) = blk[s] + j
      BY <2>1 DEF ReadInv, Follows
    <3>2. QED
      BY <1>6, <3>1
  <2>3. follows => Seen(k + 1, blk[s])
    <3>1. ASSUME follows, NEW j \in Nat, j < k + 1 PROVE Entry(s, d + j) = blk[s] + j
      <4>1. CASE j < k
        BY <2>2, <4>1
      <4>2. CASE j = k
        BY <1>6, <3>1, <4>2
      <4>3. QED
        BY <3>1, <4>1, <4>2
    <3>2. QED
      BY <2>2, <3>1
  <2> HIDE DEF Seen, follows
  <2>4. CASE more
    <3>1. i'[s] = k + 1 /\ num'[s] = 0
      BY <1>6, <2>1, <2>4
    <3>2. QED
      BY <1>5, <2>1, <2>3, <2>4, <3>1
  <2>5. CASE ~more /\ follows
    <3>1. i'[s] = 0 /\ num'[s] = k + 1
      BY <1>4, <1>5, <1>6, <2>1, <2>5
    <3>2. QED
      BY <1>5, <2>1, <2>3, <2>5, <3>1
  <2>6. CASE ~follows
    BY <1>5, <1>6, <2>1, <2>2, <2>6
  <2>7. QED
    BY <2>4, <2>5, <2>6
<1>11. Goal
  BY <1>8, <1>9, <1>10
<1>12. ASSUME NEW t \in Secs PROVE Prefix(t)' /\ Covered(t)' /\ Follows(t)'
  <2>1. CASE t = s
    <3>1. Prefix(s)'
      BY <1>3 DEF Prefix, ReadInv
    <3>2. Covered(s)'
      <4>1. ASSUME NEW p \in 0 .. MaxSize, p < sectionSize[s],
                   p < offset[s] \/ p >= offset[s] + len[s] + todo[s]
            PROVE  Entry(s, Index(p))' # 0
        BY <1>3, <4>1, PositionType DEF ReadInv, Covered
      <4>2. QED
        BY <1>2, <4>1 DEF Covered, call
    <3>3. Follows(s)'
      <4>1. PICK n \in Nat, b \in Nat :
              /\ blk'[s] = b /\ Seen(n, b)
              /\ \/ i'[s] = 0 /\ num'[s] = n
                 \/ i'[s] = n /\ num'[s] = 0
        BY <1>11
      <4>2. fresh'[s] = FALSE /\ offset'[s] = offset[s]
        BY <1>2 DEF call
      <4>3. ASSUME NEW j \in Nat, j < n PROVE d + j \in Indices
        <5>1. n <= Asked(s)
          <6>1. TypeOK' /\ Call(s)' /\ Asked(s)' = Asked(s)
            BY <1>1, <1>2, FindSteps, AskedKept DEF CallInv, call
          <6>2. QED
            BY <1>5, <4>1, <6>1 DEF Call
        <5>2. QED
          BY <1>1, <1>4, <1>5, <1>6, <4>3, <5>1, RunIndices
      <4>4. ASSUME NEW j \in Nat, j < i'[s] \/ j < num'[s]
            PROVE  Entry(s, Index(offset[s]) + j)' = blk'[s] + j
        <5>1. j < n
          BY <4>1, <4>4
        <5>2. PICK f \in Indices : f = Index(offset[s]) + j
          BY <1>6, <4>3, <5>1
        <5>3. Entry(s, f) = b + j
          BY <1>6, <4>1, <5>1, <5>2
        <5>4. QED
          BY <1>3, <4>1, <4>2, <5>2, <5>3 DEF Index
      <4>5. QED
        BY <4>1, <4>2, <4>4 DEF Follows, Index
    <3>4. QED
      BY <2>1, <3>1, <3>2, <3>3
  <2>2. CASE t # s
    BY <1>1, <1>2, <1>3, <2>2, ReadKept DEF CallInv, ReadInv, call
  <2>3. QED
    BY <2>1, <2>2
<1>13. ASSUME NEW t \in Secs PROVE Stored(t)'
  BY <1>1, <1>2, <1>3, StoredKept DEF ReadInv
<1>14. QED
  BY <1>12, <1>13 DEF ReadInv

(* A position in a run of N blocks from B on, which begins at position o:  *)
(* the block it lies in, and where.                                        *)
Within(o, N, p) == o <= p /\ p < o + (N * BlockSize - (o % BlockSize))

LiesIn(o, B, N, p) ==
  \E j \in Nat : /\ j < N /\ Index(p) = Index(o) + j
                 /\ (B + j) * BlockSize + (p % BlockSize)
                      = B * BlockSize + (o % BlockSize) + (p - o)

LEMMA Spot ==
  ASSUME NEW o \in Nat, NEW B \in Nat, NEW N \in Nat, NEW p \in Nat, Within(o, N, p)
  PROVE  LiesIn(o, B, N, p)
<1>0. o <= p /\ p < o + (N * BlockSize - (o % BlockSize))
  BY DEF Within
<1>1. BlockSize \in Nat \ {0}
  BY SizeTypes
<1>2. PICK d \in Nat, r \in 0 .. BlockSize - 1 :
        d = Index(o) /\ r = o % BlockSize /\ o = d * BlockSize + r
  BY IndexFloor
<1>3. PICK q \in Nat, z \in 0 .. BlockSize - 1 :
        q = Index(p) /\ z = p % BlockSize /\ p = q * BlockSize + z
  BY IndexFloor
<1>4. d <= q
  BY <1>0, <1>2, <1>3, IndexMonotone
<1>5. PICK j \in Nat : q = d + j
  <2>1. q - d \in Nat /\ q = d + (q - d)
    BY <1>4
  <2>2. QED
    BY <2>1
<1>6. j < N
  <2>1. p < d * BlockSize + N * BlockSize
    <3>1. N * BlockSize \in Nat /\ d * BlockSize \in Nat
      BY <1>1
    <3>2. QED
      BY <1>0, <1>1, <1>2, <3>1
  <2>2. d * BlockSize + N * BlockSize = (d + N) * BlockSize
    BY <1>1
  <2>3. p \div BlockSize < d + N
    <3>1. PICK m \in Nat : m = d + N
      OBVIOUS
    <3>2. p < m * BlockSize
      BY <2>1, <2>2, <3>1
    <3>3. QED
      BY <1>1, <3>1, <3>2, QuotientBelow
  <2>4. QED
    BY <1>3, <1>5, <2>3 DEF Index
<1>7. (B + j) * BlockSize + z = B * BlockSize + r + (p - o)
  <2>1. /\ (B + j) * BlockSize = B * BlockSize + j * BlockSize
        /\ q * BlockSize = d * BlockSize + j * BlockSize
    BY <1>1, <1>5
  <2>2. B * BlockSize \in Nat /\ j * BlockSize \in Nat /\ d * BlockSize \in Nat
    BY <1>1
  <2>3. QED
    BY <1>0, <1>1, <1>2, <1>3, <2>1, <2>2
<1>8. QED
  BY <1>2, <1>3, <1>5, <1>6, <1>7 DEF LiesIn

(* The memcpy puts the cells where the index says that they lie, and meets *)
(* no cells of other positions there.                                      *)
LEMMA CopyKeepsReads ==
  ASSUME IInv, ReadInv, NEW s \in Secs, Copy(s)
  PROVE  ReadInv'
<1> USE SizeTypes
<1>1. TypeOK /\ CallInv /\ Call(s) /\ TreeInv /\ WordInv
  BY DEF IInv, CallInv, DisjointInv
<1>2. /\ TypeOK' /\ UNCHANGED <<sectionSize, todo, tree, i, fresh>>
      /\ fresh[s] = FALSE /\ i[s] = 0 /\ num'[s] = 0
      /\ \A t \in Secs \ {s} : /\ offset'[t] = offset[t] /\ len'[t] = len[t]
                               /\ blk'[t] = blk[t] /\ num'[t] = num[t] /\ filled'[t] = filled[t]
  BY <1>1, CopyStep
<1>3. \A t \in Secs, f \in Indices : Entry(t, f)' = Entry(t, f)
  BY <1>2, SameEntries
<1>4. PICK o \in Nat, B \in Nat, N \in Nat, l \in Nat :
        o = offset[s] /\ B = blk[s] /\ N = num[s] /\ l = len[s]
  BY <1>1 DEF TypeOK
<1>5. PICK n \in Nat : /\ n = CopyLen(s) /\ 1 <= n /\ n <= l
                       /\ n <= N * BlockSize - (o % BlockSize)
  <2>1. num[s] > 0
    BY DEF Copy
  <2>2. CopyLen(s) \in Nat /\ 1 <= CopyLen(s) /\ CopyLen(s) <= len[s]
    BY <1>1, <2>1, CopyLenType
  <2>3. CopyLen(s) <= N * BlockSize - (o % BlockSize)
    <3>1. N * BlockSize \in Nat /\ o % BlockSize \in Nat
      BY DivMod
    <3>2. QED
      BY <1>4, <3>1 DEF CopyLen, Smaller
  <2>4. QED
    BY <1>4, <2>2, <2>3
<1>6. PICK to \in Nat : to = B * BlockSize + (o % BlockSize)
  <2>1. B * BlockSize \in Nat /\ o % BlockSize \in Nat
    BY DivMod
  <2>2. QED
    BY <2>1
<1>7. /\ N > 0 /\ buf[s] = o /\ o + l + todo[s] <= MaxSize /\ todo[s] \in Nat
      /\ DOMAIN data' = DOMAIN data \cup to .. to + n - 1
      /\ \A c \in DOMAIN data' :
           data'[c] = IF c \in to .. to + n - 1 THEN <<s, o + (c - to)>> ELSE data[c]
      /\ filled'[s] = filled[s] \cup o .. o + n - 1
      /\ offset'[s] = o + n /\ len'[s] = l - n
  <2>1. N > 0 /\ buf[s] = o /\ o + l + todo[s] <= MaxSize /\ todo[s] \in Nat
    <3>1. num[s] > 0
      BY DEF Copy
    <3>2. pc[s] # "idle"
      BY <1>1, <3>1 DEF Call, TypeOK
    <3>3. QED
      BY <1>1, <1>4, <3>1, <3>2 DEF Call, TypeOK
  <2>2. /\ data' = [c \in DOMAIN data \cup to .. to + n - 1 |->
                      IF c \in to .. to + n - 1 THEN <<s, buf[s] + c - to>> ELSE data[c]]
        /\ filled' = [filled EXCEPT ![s] = @ \cup o .. o + n - 1]
        /\ offset' = [offset EXCEPT ![s] = @ + n]
        /\ len' = [len EXCEPT ![s] = @ - n]
    BY <1>4, <1>5, <1>6 DEF Copy
  <2>3. \A c \in to .. to + n - 1 : buf[s] + c - to = o + (c - to)
    BY <2>1
  <2>4. QED
    BY <1>1, <1>4, <2>1, <2>2, <2>3 DEF TypeOK
(* Each position copied lies in the block the walk has found for it.       *)
<1>8. ASSUME NEW p \in o .. o + n - 1
      PROVE  /\ p \in 0 .. MaxSize /\ Index(p) \in Indices /\ Entry(s, Index(p)) # 0
             /\ Place(s, p) = to + (p - o) /\ to + (p - o) \in to .. to + n - 1
  <2>1. p \in Nat /\ o <= p /\ p < o + (N * BlockSize - (o % BlockSize)) /\ p \in 0 .. MaxSize
    <3>1. N * BlockSize \in Nat /\ o % BlockSize \in Nat
      BY DivMod
    <3>2. QED
      BY <1>5, <1>7, <3>1
  <2>2. PICK j \in Nat : /\ j < N /\ Index(p) = Index(o) + j
                         /\ (B + j) * BlockSize + (p % BlockSize)
                              = B * BlockSize + (o % BlockSize) + (p - o)
    <3>1. Within(o, N, p)
      BY <2>1 DEF Within
    <3>2. LiesIn(o, B, N, p)
      BY <2>1, <3>1, Spot
    <3>3. QED
      BY <3>2 DEF LiesIn
  <2>3. Entry(s, Index(p)) = B + j /\ B # 0
    BY <1>4, <1>7, <2>2 DEF ReadInv, Follows
  <2>4. Index(p) \in Indices
    BY <2>1, PositionType
  <2>5. QED
    BY <1>5, <1>6, <2>1, <2>2, <2>3, <2>4 DEF Place
<1>9. ASSUME NEW t \in Secs PROVE Prefix(t)' /\ Covered(t)' /\ Follows(t)'
  <2>1. CASE t = s
    <3>1. Prefix(s)'
      BY <1>3 DEF Prefix, ReadInv
    <3>2. Covered(s)'
      <4>1. ASSUME NEW p \in 0 .. MaxSize, p < sectionSize[s],
                   p < o + n \/ p >= (o + n) + (l - n) + todo[s]
            PROVE  Entry(s, Index(p))' # 0
        <5>1. p \in o .. o + n - 1 \/ p < o \/ p >= o + l + todo[s]
          BY <1>5, <1>7, <4>1
        <5>2. CASE p \in o .. o + n - 1
          BY <1>3, <1>8, <5>2
        <5>3. CASE p < o \/ p >= o + l + todo[s]
          BY <1>3, <1>4, <4>1, <5>3, PositionType DEF ReadInv, Covered
        <5>4. QED
          BY <5>1, <5>2, <5>3
      <4>2. QED
        BY <1>2, <1>7, <4>1 DEF Covered
    <3>3. Follows(s)'
      <4>1. num'[s] = 0 /\ i'[s] = 0 /\ fresh'[s] = FALSE
        BY <1>2
      <4>2. QED
        BY <4>1 DEF Follows
    <3>4. QED
      BY <2>1, <3>1, <3>2, <3>3
  <2>2. CASE t # s
    BY <1>1, <1>2, <1>3, <2>2, ReadKept DEF CallInv, ReadInv
  <2>3. QED
    BY <2>1, <2>2
<1>10. ASSUME NEW t \in Secs, NEW p \in filled[t], Place(t, p) \in to .. to + n - 1
       PROVE  t = s /\ p = o + (Place(t, p) - to)
  <2>1. PICK c \in to .. to + n - 1 : c = Place(t, p)
    BY <1>10
  <2>2. PICK g \in o .. o + n - 1 : g = o + (c - to)
    BY <1>5, <2>1
  <2>3. p \in 0 .. MaxSize
    BY <1>1 DEF TypeOK
  <2>4. /\ Index(p) \in Indices /\ Index(g) \in Indices /\ g \in 0 .. MaxSize
        /\ Entry(t, Index(p)) # 0 /\ Place(s, g) = c
    BY <1>8, <2>1, <2>2, <2>3, PositionType DEF ReadInv, Stored
  <2>5. PICK u \in Nat, v \in Nat : u = Entry(t, Index(p)) /\ v = Entry(s, Index(g))
    BY <1>1, <2>4, EntryType
  <2>6. /\ p % BlockSize \in 0 .. BlockSize - 1 /\ g % BlockSize \in 0 .. BlockSize - 1
        /\ p = Index(p) * BlockSize + (p % BlockSize)
        /\ g = Index(g) * BlockSize + (g % BlockSize)
    BY <2>3, <2>4, PositionType, IndexFloor
  <2>7. c = u * BlockSize + (p % BlockSize) /\ c = v * BlockSize + (g % BlockSize) /\ c \in Nat
    BY <2>1, <2>4, <2>5 DEF Place
  <2>8. u = v /\ p % BlockSize = g % BlockSize
    <3>1. c % BlockSize = p % BlockSize /\ c \div BlockSize = u
      <4>1. PICK r \in 0 .. BlockSize - 1 : r = p % BlockSize
        BY <2>6
      <4>2. c = u * BlockSize + r
        BY <2>7, <4>1
      <4>3. c % BlockSize = r /\ c \div BlockSize = u
        BY <4>2, Remainder
      <4>4. QED
        BY <4>1, <4>3
    <3>2. c % BlockSize = g % BlockSize /\ c \div BlockSize = v
      <4>1. PICK r \in 0 .. BlockSize - 1 : r = g % BlockSize
        BY <2>6
      <4>2. c = v * BlockSize + r
        BY <2>7, <4>1
      <4>3. c % BlockSize = r /\ c \div BlockSize = v
        BY <4>2, Remainder
      <4>4. QED
        BY <4>1, <4>3
    <3>3. QED
      BY <3>1, <3>2
  <2>9. t = s /\ Index(p) = Index(g)
    <3>1. PICK e \in Indices, f \in Indices : e = Index(p) /\ f = Index(g)
      BY <2>4
    <3>2. Entry(t, e) = Entry(s, f) /\ Entry(t, e) # 0
      BY <2>4, <2>5, <2>8, <3>1
    <3>3. QED
      BY <1>1, <3>1, <3>2, EntriesDiffer
  <2>10. QED
    BY <2>1, <2>2, <2>6, <2>8, <2>9
<1>11. ASSUME NEW t \in Secs, NEW p \in filled'[t]
       PROVE  /\ Entry(t, Index(p))' # 0
              /\ Place(t, p) \in DOMAIN data' /\ data'[Place(t, p)] = <<t, p>>
              /\ Entry(t, Index(p))' = Entry(t, Index(p))
  <2>1. CASE p \in filled[t]
    <3>1. Index(p) \in Indices
      BY <1>1, <2>1, PositionType DEF TypeOK
    <3>2. Entry(t, Index(p)) # 0 /\ Place(t, p) \in DOMAIN data /\ data[Place(t, p)] = <<t, p>>
      BY <2>1 DEF ReadInv, Stored
    <3>3. Place(t, p) \in to .. to + n - 1 => t = s /\ p = o + (Place(t, p) - to)
      BY <1>10, <2>1
    <3>4. QED
      BY <1>3, <1>7, <3>1, <3>2, <3>3
  <2>2. CASE p \notin filled[t]
    <3>1. t = s /\ p \in o .. o + n - 1
      BY <1>2, <1>7, <2>2
    <3>2. /\ Index(p) \in Indices /\ Entry(s, Index(p)) # 0
          /\ Place(s, p) = to + (p - o) /\ to + (p - o) \in to .. to + n - 1
      BY <1>8, <3>1
    <3>3. o + ((to + (p - o)) - to) = p
      BY <3>1
    <3>4. QED
      BY <1>3, <1>7, <3>1, <3>2, <3>3
  <2>3. QED
    BY <2>1, <2>2
<1>12. ASSUME NEW t \in Secs PROVE Stored(t)'
  BY <1>11 DEF Stored, Place
<1>13. QED
  BY <1>9, <1>12 DEF ReadInv

(* Before the entry a walk looks for, everything is there: it was covered  *)
(* when the call began, or the walk has seen it.                           *)
LEMMA BeforeSought ==
  ASSUME IInv, ReadInv, ~Beyond, NEW s \in Secs, len[s] > 0, NEW d \in Indices, d < Sought(s)
  PROVE  Entry(s, d) # 0
<1> USE SizeTypes
<1>1. TypeOK /\ Call(s)
  BY DEF IInv, CallInv
<1>2. /\ offset[s] \in Nat /\ len[s] \in Nat /\ todo[s] \in Nat /\ i[s] \in Nat
      /\ sectionSize[s] \in 0 .. MaxSize /\ d \in Nat
  BY <1>1, IndexType DEF TypeOK
<1>3. offset[s] + len[s] + todo[s] <= sectionSize[s]
  BY <1>1, <1>2 DEF Call
<1>4. PICK a \in Nat : a = Index(offset[s]) /\ a * BlockSize <= offset[s]
  BY <1>2, IndexFloor
<1>5. CASE d < a
  <2>1. PICK p \in Nat : p = d * BlockSize
    BY <1>2
  <2>2. p < offset[s]
    <3>1. (d + 1) * BlockSize <= a * BlockSize
      BY <1>2, <1>4, <1>5
    <3>2. (d + 1) * BlockSize = d * BlockSize + BlockSize
      BY <1>2
    <3>3. a * BlockSize \in Nat
      BY <1>4
    <3>4. QED
      BY <1>2, <1>4, <2>1, <3>1, <3>2, <3>3
  <2>3. p \in 0 .. MaxSize /\ p < sectionSize[s]
    BY <1>2, <1>3, <2>2
  <2>4. Index(p) = d
    <3>1. p = d * BlockSize + 0 /\ 0 \in 0 .. BlockSize - 1
      BY <1>2, <2>1
    <3>2. QED
      BY <1>2, <3>1, Remainder DEF Index
  <2>5. QED
    BY <2>2, <2>3, <2>4 DEF ReadInv, Covered
<1>6. CASE a <= d
  <2>1. PICK j \in Nat : d = a + j
    <3>1. d - a \in Nat /\ d = a + (d - a)
      BY <1>2, <1>4, <1>6
    <3>2. QED
      BY <3>1
  <2>2. j < i[s]
    BY <1>2, <1>4, <2>1 DEF Sought
  <2>3. Entry(s, d) = blk[s] + j /\ blk[s] # 0 /\ blk[s] \in Nat
    <3>1. Follows(s) /\ blk[s] \in Nat
      BY <1>1 DEF ReadInv, TypeOK
    <3>2. Entry(s, a + j) = blk[s] + j
      BY <1>4, <2>2, <3>1 DEF Follows
    <3>3. blk[s] # 0
      BY <1>2, <2>2, <3>1 DEF Follows
    <3>4. QED
      BY <2>1, <3>1, <3>2, <3>3
  <2>4. QED
    BY <2>3
<1>7. QED
  BY <1>2, <1>4, <1>5, <1>6

(* A block is entered behind all others of its section.                    *)
LEMMA EntersKeepReads ==
  ASSUME IInv, ReadInv, ~Beyond, NEW s \in Secs, NEW b, EnterStep(s, b)
  PROVE  ReadInv'
<1> USE SizeTypes
<1>1. /\ TypeOK /\ CallInv /\ Call(s) /\ TreeInv /\ WordInv
      /\ blockAllocated \in Nat \ {0}
  BY DEF IInv, CallInv, DisjointInv, CounterInv
<1>2. /\ TypeOK' /\ CallInv' /\ Sought(s) \in Indices /\ b \in Nat /\ Leaf(s, Sought(s), b)
      /\ UNCHANGED <<sectionSize, data, call, filled>>
      /\ \A t \in Secs \ {s} : /\ i'[t] = i[t] /\ blk'[t] = blk[t]
                               /\ fresh'[t] = fresh[t] /\ num'[t] = num[t]
  BY <1>1, EnterSteps
<1>3. Looks(s) /\ len[s] > 0 /\ num[s] = 0 /\ i[s] < Asked(s) /\ i[s] \in Nat /\ blk[s] \in Nat
  <2>1. Looks(s)
    BY DEF EnterStep, AllocateOne, AllocateRun, EnterNext, Finds
  <2>2. QED
    BY <1>1, <2>1 DEF Looks, Writing, TypeOK
<1>4. Asked(s) \in Nat /\ Index(offset[s]) \in Nat
  BY <1>1, AskedType, IndexFloor DEF TypeOK
<1>5. PICK e \in Indices, d \in Nat, k \in Nat :
        e = Sought(s) /\ d = Index(offset[s]) /\ k = i[s] /\ e = d + k
  BY <1>2, <1>3, <1>4 DEF Sought
<1>6. \A t \in Secs, f \in Indices : Entry(t, f)' = IF t = s /\ f = e THEN b ELSE Entry(t, f)
  BY <1>1, <1>2, <1>5, LeafEntries
<1>7. Entry(s, e) = 0
  BY <1>5 DEF EnterStep, AllocateOne, AllocateRun, EnterNext, ReadInv, Follows
<1>8. b # 0
  <2>1. fresh[s] => i[s] > 0
    BY <1>1 DEF Call
  <2>2. fresh[s] => blk[s] # 0
    BY <2>1 DEF ReadInv, Follows
  <2>3. QED
    BY <1>1, <1>3, <2>2 DEF EnterStep, EnterNext
<1>9. \A f \in Indices : f < e => Entry(s, f) # 0
  BY <1>3, <1>5, BeforeSought
<1>10. \A f \in Indices : f \in Nat /\ (e < f => Entry(s, f) = 0)
  BY <1>7, IndexType DEF ReadInv, Prefix
(* The walk has seen one block more. *)
<1> DEFINE Goal == /\ blk'[s] # 0 /\ blk'[s] \in Nat /\ b = blk'[s] + k
                   /\ k # 0 => blk'[s] = blk[s]
                   /\ i'[s] \in Nat /\ num'[s] \in Nat /\ i'[s] <= k + 1 /\ num'[s] <= k + 1
                   /\ fresh'[s] => i'[s] = k + 1
<1>11. ASSUME AllocateOne(s), b = blockAllocated PROVE Goal
  <2>1. i[s] = 0 /\ fresh[s] = FALSE
    BY <1>1, <1>3, <1>11 DEF AllocateOne, Call, TypeOK
  <2>2. blk'[s] = blockAllocated /\ num'[s] = 1 /\ i'[s] = 0 /\ fresh'[s] = FALSE
    BY <1>1, <1>11, <2>1 DEF AllocateOne, TypeOK
  <2>3. QED
    BY <1>1, <1>5, <1>11, <2>1, <2>2
<1>12. ASSUME AllocateRun(s), b = blockAllocated PROVE Goal
  <2>1. i[s] = 0 /\ blk'[s] = blockAllocated /\ num'[s] = 0 /\ i'[s] = 1
    BY <1>1, <1>3, <1>12 DEF AllocateRun, TypeOK
  <2>2. QED
    BY <1>1, <1>5, <1>12, <2>1
<1>13. ASSUME EnterNext(s), b = blk[s] + i[s] PROVE Goal
  <2> DEFINE end == Continuous(Asked(s), blk[s])
  <2>1. end \in Nat /\ end <= Asked(s)
    BY <1>3, <1>4, ContinuousType
  <2>2. /\ i' = [i EXCEPT ![s] = IF i[s] + 1 = Asked(s) THEN 0 ELSE i[s] + 1]
        /\ num' = [num EXCEPT ![s] = IF i[s] + 1 = Asked(s) THEN end ELSE 0]
        /\ fresh' = [fresh EXCEPT ![s] = i[s] + 1 # Asked(s)]
        /\ fresh[s] /\ blk' = blk
    BY <1>13 DEF EnterNext
  <2> HIDE DEF end
  <2>3. /\ i'[s] = (IF i[s] + 1 = Asked(s) THEN 0 ELSE i[s] + 1)
        /\ num'[s] = (IF i[s] + 1 = Asked(s) THEN end ELSE 0)
        /\ fresh'[s] = (i[s] + 1 # Asked(s))
    BY <1>1, <2>2 DEF TypeOK
  <2>4. blk[s] # 0
    BY <1>1, <2>2 DEF Call, ReadInv, Follows
  <2>5. CASE i[s] + 1 = Asked(s)
    BY <1>3, <1>5, <1>13, <2>1, <2>2, <2>3, <2>4, <2>5
  <2>6. CASE i[s] + 1 # Asked(s)
    BY <1>3, <1>5, <1>13, <2>2, <2>3, <2>4, <2>6
  <2>7. QED
    BY <2>5, <2>6
<1>14. Goal
  BY <1>11, <1>12, <1>13 DEF EnterStep
<1>15. ASSUME NEW t \in Secs PROVE Prefix(t)' /\ Covered(t)' /\ Follows(t)'
  <2>1. CASE t = s
    <3>1. Prefix(s)'
      <4>1. ASSUME NEW f \in Indices, NEW g \in Indices, f < g, Entry(s, g)' # 0
            PROVE  Entry(s, f)' # 0
        <5>1. CASE g = e
          BY <1>6, <1>9, <1>10, <4>1, <5>1
        <5>2. CASE g # e
          <6>1. Entry(s, g) # 0
            BY <1>6, <4>1, <5>2
          <6>2. Entry(s, f) # 0
            BY <4>1, <6>1 DEF ReadInv, Prefix
          <6>3. QED
            BY <1>6, <1>7, <6>2
        <5>3. QED
          BY <5>1, <5>2
      <4>2. QED
        BY <4>1 DEF Prefix
    <3>2. Covered(s)'
      <4>1. ASSUME NEW p \in 0 .. MaxSize, p < sectionSize[s],
                   p < offset[s] \/ p >= offset[s] + len[s] + todo[s]
            PROVE  Entry(s, Index(p))' # 0
        BY <1>6, <1>8, <4>1, PositionType DEF ReadInv, Covered
      <4>2. QED
        BY <1>2, <4>1 DEF Covered, call
    <3>3. Follows(s)'
      <4>0. offset'[s] = offset[s]
        BY <1>2 DEF call
      <4>1. ASSUME NEW j \in Nat, j < i'[s] \/ j < num'[s]
            PROVE  Entry(s, Index(offset[s]) + j)' = blk'[s] + j
        <5>1. j < k + 1
          BY <1>14, <4>1
        <5>2. PICK f \in Indices : f = d + j
          <6>1. j < Asked(s)
            BY <1>3, <1>4, <1>5, <5>1
          <6>2. QED
            BY <1>1, <1>3, <1>5, <6>1, RunIndices
        <5>3. CASE j = k
          <6>1. Entry(s, f)' = b
            BY <1>5, <1>6, <5>2, <5>3
          <6>2. QED
            BY <1>5, <1>14, <4>0, <5>2, <5>3, <6>1 DEF Index
        <5>4. CASE j # k
          <6>1. j < i[s] /\ k # 0
            BY <1>5, <5>1, <5>4
          <6>2. Entry(s, f) = blk[s] + j
            BY <1>5, <5>2, <6>1 DEF ReadInv, Follows
          <6>3. f # e
            BY <1>5, <5>2, <5>4
          <6>4. Entry(s, f)' = blk'[s] + j
            BY <1>6, <1>14, <6>1, <6>2, <6>3
          <6>5. QED
            BY <1>5, <4>0, <5>2, <6>4 DEF Index
        <5>5. QED
          BY <5>3, <5>4
      <4>2. ASSUME fresh'[s], NEW f \in Indices, Index(offset[s]) + i'[s] <= f
            PROVE  Entry(s, f)' = 0
        <5>1. e < f
          BY <1>5, <1>10, <1>14, <4>2
        <5>2. QED
          BY <1>5, <1>6, <1>10, <5>1
      <4>3. QED
        BY <1>14, <4>0, <4>1, <4>2 DEF Follows, Index
    <3>4. QED
      BY <2>1, <3>1, <3>2, <3>3
  <2>2. CASE t # s
    <3>1. \A f \in Indices : Entry(t, f)' = Entry(t, f)
      BY <1>6, <2>2
    <3>2. QED
      BY <1>1, <1>2, <2>2, <3>1, ReadKept DEF CallInv, ReadInv, call
  <2>3. QED
    BY <2>1, <2>2
<1>16. ASSUME NEW t \in Secs PROVE Stored(t)'
  <2>1. \A f \in Indices : Entry(t, f) # 0 => Entry(t, f)' = Entry(t, f)
    BY <1>6, <1>7
  <2>2. QED
    BY <1>1, <1>2, <2>1, StoredKept DEF ReadInv
<1>17. QED
  BY <1>15, <1>16 DEF ReadInv

(* A new index block holds nothing yet.                                    *)
LEMMA IndexKeepsReads ==
  ASSUME IInv, ReadInv, NEW s \in Secs, AllocateIndex(s)
  PROVE  ReadInv'
<1>1. /\ TypeOK /\ CallInv /\ TreeInv /\ WordInv
      /\ blockAllocated \in Nat \ {0} /\ blockAllocated \notin DOMAIN blockIds
  BY DEF IInv, DisjointInv, CounterInv
<1>2. /\ Sought(s) \in Indices
      /\ UNCHANGED <<sectionSize, data, call, filled, blk, num, i, fresh>>
  BY <1>1, IndexSteps
<1>3. PICK k \in 0 .. Level[Sought(s)] - 1 : Branch(s, Sought(s), k, blockAllocated)
  BY <1>1, IndexSteps
<1>4. \A t \in Secs, f \in Indices : Entry(t, f)' = Entry(t, f)
  BY <1>1, <1>2, <1>3, BranchEntries
<1>5. ASSUME NEW t \in Secs PROVE Prefix(t)' /\ Covered(t)' /\ Follows(t)'
  BY <1>1, <1>2, <1>4, ReadKept DEF CallInv, ReadInv, call
<1>6. ASSUME NEW t \in Secs PROVE Stored(t)'
  BY <1>1, <1>2, <1>4, StoredKept DEF ReadInv
<1>7. QED
  BY <1>5, <1>6 DEF ReadInv

(* At the beginning all entries are zero.                                  *)
LEMMA EntriesEmpty ==
  ASSUME Init, NEW s \in Secs, NEW e \in Indices
  PROVE  Entry(s, e) = 0
<1>1. TypeOK /\ TreeInv /\ DisjointInv
  BY InitHolds DEF IInv
<1>2. SUFFICES ASSUME Entry(s, e) # 0 PROVE FALSE
  OBVIOUS
<1>3. PICK h : Heights(h)
  BY <1>1 DEF TreeInv
<1>4. /\ Level[e] \in 0 .. Level[e]
      /\ Level[e] # 0 => Level[e] - 1 \in 0 .. Level[e]
  BY IndexType
<1>5. Level[e] # 0 => Walk[<<s, e, Level[e] - 1>>] # 0
  BY <1>2, <1>4, EntriesHavePaths
<1>6. Into(s, e, Level[e]) \in Words /\ IdAt(Into(s, e, Level[e])) = Entry(s, e)
  BY <1>1, <1>3, <1>4, <1>5, IntoWalk DEF TreeInv, Entry
<1>7. ASSUME NEW w \in Words PROVE IdAt(w) = 0
  BY WordKinds DEF Init
<1>8. QED
  BY <1>2, <1>6, <1>7

LEMMA InitReads == Init => ReadInv
<1> SUFFICES ASSUME Init PROVE ReadInv
  OBVIOUS
<1>1. ASSUME NEW s \in Secs, NEW e \in Indices PROVE Entry(s, e) = 0
  BY EntriesEmpty
<1>2. ASSUME NEW s \in Secs PROVE Prefix(s) /\ Covered(s) /\ Follows(s) /\ Stored(s)
  <2>1. Prefix(s)
    BY <1>1 DEF Prefix
  <2>2. Covered(s)
    BY DEF Covered, Init
  <2>3. Follows(s)
    BY DEF Follows, Init
  <2>4. Stored(s)
    BY DEF Stored, Init
  <2>5. QED
    BY <2>1, <2>2, <2>3, <2>4
<1>3. QED
  BY <1>2 DEF ReadInv

LEMMA NextKeepsReads ==
  ASSUME ~Beyond, HeadLength <= BlockSize, IInv, ReadInv, [Next]_vars
  PROVE  ReadInv'
<1>1. CASE UNCHANGED vars
  <2>1. \A t \in Secs, f \in Indices : Entry(t, f)' = Entry(t, f)
    BY <1>1, SameEntries DEF vars
  <2>2. TypeOK /\ CallInv
    BY DEF IInv
  <2>3. ASSUME NEW t \in Secs PROVE Prefix(t)' /\ Covered(t)' /\ Follows(t)'
    BY <1>1, <2>1, <2>2, ReadKept DEF CallInv, ReadInv, vars, call
  <2>4. ASSUME NEW t \in Secs PROVE Stored(t)'
    BY <1>1, <2>1, <2>2, StoredKept DEF ReadInv, vars
  <2>5. QED
    BY <2>3, <2>4 DEF ReadInv
<1>2. ASSUME NEW s \in Secs,
             \/ OpenData(s) \/ SetHead(s) \/ WriteCharacters(s) \/ Done(s)
             \/ \E n \in Lens : Append(s, n) \/ WriteString(s, n)
             \/ \E n \in Lens, p \in Offsets : WriteAt(s, p, n)
      PROVE  ReadInv'
  BY <1>2, CallsKeepReads
<1>3. ASSUME NEW s \in Secs, Copy(s) PROVE ReadInv'
  BY <1>3, CopyKeepsReads
<1>4. ASSUME NEW s \in Secs, LoadOne(s) \/ LoadRun(s) \/ CompareNext(s) PROVE ReadInv'
  BY <1>4, FindsKeepReads
<1>5. ASSUME NEW s \in Secs, NEW b, EnterStep(s, b) PROVE ReadInv'
  BY <1>5, EntersKeepReads
<1>6. ASSUME NEW s \in Secs, AllocateIndex(s) PROVE ReadInv'
  BY <1>6, IndexKeepsReads
<1>7. QED
  BY <1>1, <1>2, <1>3, <1>4, <1>5, <1>6 DEF Next, WriteStep, LoadStep, EnterStep

(* What is stored is what a read returns, and in full: its positions lie   *)
(* in the section, so that the length is not cut.                          *)
LEMMA StoredIsReadable ==
  ASSUME IInv, ReadInv, ~Beyond
  PROVE  WrittenIsReadable
<1> SUFFICES ASSUME NEW s \in Secs, NEW o \in filled[s], NEW n \in Lens,
                    o .. o + n - 1 \subseteq filled[s]
             PROVE  Read(s, o, n) = [j \in 1 .. n |-> <<s, o + j - 1>>]
  BY DEF WrittenIsReadable
<1> USE SizeTypes
<1>1. TypeOK /\ Call(s) /\ TreeInv
  BY DEF IInv, CallInv
<1>2. /\ n \in Nat \ {0} /\ o \in 0 .. MaxSize /\ sectionSize[s] \in 0 .. MaxSize
      /\ filled[s] \subseteq 0 .. MaxSize
  BY <1>1 DEF TypeOK
<1>3. o + n - 1 \in filled[s] /\ o + n - 1 < sectionSize[s]
  <2>1. o + n - 1 \in o .. o + n - 1
    BY <1>2
  <2>2. QED
    BY <1>1, <2>1 DEF Call
<1>4. ReadLen(s, o, n) = n
  <2>1. PICK d \in Nat : d = sectionSize[s] - o /\ n <= d /\ d <= MaxSize
    BY <1>2, <1>3
  <2>2. Word \in Nat \ {0} /\ d \in 0 .. Word - 1 /\ d = 0 * Word + d
    BY <2>1, DataSectionAssumption
  <2>3. d % Word = d
    BY <2>2, Remainder
  <2>4. QED
    BY <1>2, <2>1, <2>3 DEF ReadLen, Smaller
<1>5. ASSUME NEW j \in 1 .. n PROVE Cell(s, o + j - 1) = <<s, o + j - 1>>
  <2>1. PICK p \in filled[s] : p = o + j - 1
    <3>1. o + j - 1 \in o .. o + n - 1
      BY <1>2
    <3>2. QED
      BY <3>1
  <2>2. Entry(s, Index(p)) # 0 /\ Place(s, p) \in DOMAIN data /\ data[Place(s, p)] = <<s, p>>
    BY DEF ReadInv, Stored
  <2>3. Index(p) \in Indices
    BY <1>2, PositionType
  <2>4. HasPath(s, Index(p))
    BY <2>2, <2>3, EntryHasPath
  <2>5. Cell(s, p) = <<s, p>>
    BY <2>2, <2>4 DEF Cell, Place
  <2>6. QED
    BY <2>1, <2>5
<1>6. QED
  BY <1>4, <1>5 DEF Read

(* What a writer has written is what a read of the same place returns, as  *)
(* long as no write ends behind the end of its section (where the size     *)
(* does not follow it) and the head lies in one block (64 of 512 bytes in  *)
(* the code).                                                              *)
THEOREM WrittenStaysReadable ==
  ASSUME ~Beyond, HeadLength <= BlockSize
  PROVE  Spec => []WrittenIsReadable
<1>1. Init => IInv /\ ReadInv
  BY InitHolds, InitReads
<1>2. (IInv /\ ReadInv) /\ [Next]_vars => (IInv /\ ReadInv)'
  BY NextKeeps, NextKeepsReads
<1>3. IInv /\ ReadInv => WrittenIsReadable
  BY StoredIsReadable
<1>4. QED
  BY <1>1, <1>2, <1>3, PTL DEF Spec

-----------------------------------------------------------------------------
(* Pages. A run that is cut at the end of the page of its first block goes *)
(* on on the next page only, when it is no longer than a page and a block. *)
Longest == (BlocksPerPage + 1) * BlockSize

LEMMA PageFloor ==
  ASSUME NEW b \in Nat
  PROVE  /\ Page(b) \in Nat /\ b % BlocksPerPage \in 0 .. BlocksPerPage - 1
         /\ b = Page(b) * BlocksPerPage + (b % BlocksPerPage)
  BY SizeTypes, DivMod DEF Page

LEMMA PageMonotone ==
  ASSUME NEW a \in Nat, NEW b \in Nat, a <= b
  PROVE  Page(a) <= Page(b)
<1>1. BlocksPerPage \in Nat \ {0}
  BY SizeTypes
<1>2. /\ Page(a) \in Nat /\ a = Page(a) * BlocksPerPage + (a % BlocksPerPage)
      /\ a % BlocksPerPage \in 0 .. BlocksPerPage - 1
  BY PageFloor
<1>3. PICK q \in Nat : q = Page(a) /\ q * BlocksPerPage <= a
  BY <1>1, <1>2
<1>4. q * BlocksPerPage <= b
  <2>1. q * BlocksPerPage \in Nat
    BY <1>1
  <2>2. QED
    BY <1>3, <2>1
<1>5. q <= b \div BlocksPerPage
  BY <1>1, <1>4, QuotientAtLeast
<1>6. QED
  BY <1>3, <1>5 DEF Page

LEMMA RunOfPages ==
  ASSUME NEW a \in Nat, a <= BlocksPerPage + 1, NEW b \in Nat,
         NEW n \in Nat, n = Continuous(a, b), NEW j \in Nat, j < a
  PROVE  /\ j < n => Page(b + j) = Page(b)
         /\ n <= j => Page(b + j) = Page(b + n)
<1>1. PICK P \in Nat \ {0} : P = BlocksPerPage
  BY SizeTypes
<1>2. PICK q \in Nat, r \in 0 .. P - 1 :
        q = Page(b) /\ r = b % BlocksPerPage /\ b = q * P + r
  BY <1>1, PageFloor
<1>3. n = IF a < P - r THEN a ELSE P - r
  BY <1>1, <1>2 DEF Continuous, Smaller
<1>4. 1 <= n /\ n <= a /\ n <= P - r
  BY <1>2, <1>3
<1>5. ASSUME j < n PROVE Page(b + j) = q
  <2>1. r + j \in 0 .. P - 1 /\ b + j \in Nat
    BY <1>2, <1>4, <1>5
  <2>2. b + j = q * P + (r + j)
    <3>1. PICK m \in Nat : m = q * P
      OBVIOUS
    <3>2. QED
      BY <1>2, <3>1
  <2>3. (b + j) \div P = q
    BY <2>1, <2>2, Remainder
  <2>4. QED
    BY <1>1, <2>3 DEF Page
<1>6. ASSUME NEW k \in Nat, n <= k, k < a PROVE Page(b + k) = q + 1
  <2>1. n = P - r
    BY <1>2, <1>3, <1>6
  <2>2. r + k - P \in 0 .. P - 1 /\ b + k \in Nat
    BY <1>1, <1>2, <1>6, <2>1
  <2>3. b + k = (q + 1) * P + (r + k - P)
    <3>1. PICK m \in Nat : m = q * P
      OBVIOUS
    <3>2. (q + 1) * P = m + P
      BY <3>1
    <3>3. QED
      BY <1>2, <3>1, <3>2
  <2>4. (b + k) \div P = q + 1
    <3>1. PICK y \in Nat, c \in Nat, m \in Nat :
            y = q + 1 /\ c = b + k /\ m = y * P /\ m <= c /\ c < m + P
      BY <2>2, <2>3
    <3>2. y <= c \div P /\ c \div P \in Nat
      BY <3>1, QuotientAtLeast, DivMod
    <3>3. (y + 1) * P = m + P /\ y + 1 \in Nat
      BY <3>1
    <3>4. c \div P < y + 1
      BY <3>1, <3>3, QuotientBelow
    <3>5. QED
      BY <3>1, <3>2, <3>4
  <2>5. QED
    BY <1>1, <2>4 DEF Page
<1>7. ASSUME n <= j PROVE Page(b + j) = Page(b + n)
  <2>1. Page(b + j) = q + 1
    BY <1>6, <1>7
  <2>2. n < a /\ n <= n
    BY <1>7
  <2>3. Page(b + n) = q + 1
    BY <1>4, <1>6, <2>2
  <2>4. QED
    BY <2>1, <2>3
<1>8. QED
  BY <1>2, <1>4, <1>5, <1>7

LEMMA LoadedMaps ==
  ASSUME mapedEnd \in Nat, NEW b \in Nat
  PROVE  mapedEnd <= Loaded(b) /\ Page(b) < Loaded(b)
<1>1. Page(b) \in Nat
  BY PageFloor
<1>2. QED
  BY <1>1 DEF Loaded, Larger

LEMMA AskedBound ==
  ASSUME TypeOK, NEW s \in Secs, len[s] <= Longest
  PROVE  Asked(s) <= BlocksPerPage + 1
<1>1. /\ BlockSize \in Nat \ {0} /\ BlocksPerPage \in Nat \ {0} /\ len[s] \in Nat
  BY SizeTypes DEF TypeOK
<1>2. CASE Single(s)
  BY <1>1, <1>2 DEF Asked
<1>3. CASE ~Single(s)
  <2>1. PICK m \in Nat : m = (BlocksPerPage + 1) * BlockSize /\ len[s] <= m
    BY <1>1 DEF Longest
  <2>2. (BlocksPerPage + 2) * BlockSize = m + BlockSize
    BY <1>1, <2>1
  <2>3. PICK a \in Nat : a = len[s] + BlockSize - 1 /\ a < (BlocksPerPage + 2) * BlockSize
    BY <1>1, <2>1, <2>2
  <2>4. BlocksPerPage + 2 \in Nat
    BY <1>1
  <2>5. a \div BlockSize < BlocksPerPage + 2
    BY <1>1, <2>3, <2>4, QuotientBelow
  <2>6. a \div BlockSize \in Nat /\ Asked(s) = a \div BlockSize
    BY <1>1, <1>3, <2>3, DivMod DEF Asked, upperBlockNum
  <2>7. QED
    BY <1>1, <2>5, <2>6
<1>4. QED
  BY <1>2, <1>3

(* The blocks of a section lie on mapped pages, but for those of a run     *)
(* that is being entered and, of the call in progress, those on the one    *)
(* page its next load maps.                                                *)
Unmapped(s, f) == Entry(s, f) # 0 /\ mapedEnd <= Page(Entry(s, f))

Rest(s) == Index(offset[s]) + num[s]

Mapped(s) ==
  /\ len[s] <= Longest /\ todo[s] <= Longest
  /\ i[s] > 0 => Page(blk[s]) < mapedEnd
  /\ num[s] > 0 => Page(blk[s] + num[s] - 1) < mapedEnd
  /\ \A f \in Indices : Unmapped(s, f) =>
       \/ fresh[s] /\ Index(offset[s]) <= f
       \/ /\ ~fresh[s] /\ i[s] = 0 /\ offset[s] % BlockSize = 0
          /\ num[s] * BlockSize < len[s]
          /\ Rest(s) \in Indices /\ Entry(s, Rest(s)) # 0
          /\ Page(Entry(s, f)) = Page(Entry(s, Rest(s)))

MapInv == \A s \in Secs : Mapped(s)

(* This holds on while the section and its call do not change.             *)
LEMMA MapKept ==
  ASSUME TypeOK, TreeInv, NEW t \in Secs, Mapped(t),
         \A f \in Indices : Entry(t, f)' = Entry(t, f),
         mapedEnd' \in Nat, mapedEnd <= mapedEnd',
         offset'[t] = offset[t], len'[t] = len[t], todo'[t] = todo[t],
         blk'[t] = blk[t], num'[t] = num[t], i'[t] = i[t], fresh'[t] = fresh[t]
  PROVE  Mapped(t)'
<1>1. mapedEnd \in Nat /\ blk[t] \in Nat /\ num[t] \in Nat
  BY DEF TypeOK
<1>2. ASSUME NEW b \in Nat, Page(b) < mapedEnd PROVE Page(b) < mapedEnd'
  BY <1>1, <1>2, PageFloor
<1>3. i'[t] > 0 => Page(blk'[t]) < mapedEnd'
  BY <1>1, <1>2 DEF Mapped
<1>4. num'[t] > 0 => Page(blk'[t] + num'[t] - 1) < mapedEnd'
  <2> SUFFICES ASSUME num[t] > 0 PROVE Page(blk[t] + num[t] - 1) < mapedEnd'
    OBVIOUS
  <2>1. blk[t] + num[t] - 1 \in Nat
    BY <1>1
  <2>2. QED
    BY <1>2, <2>1 DEF Mapped
<1>5. ASSUME NEW f \in Indices, Unmapped(t, f)'
      PROVE  \/ fresh[t] /\ Index(offset[t]) <= f
             \/ /\ ~fresh[t] /\ i[t] = 0 /\ offset[t] % BlockSize = 0
                /\ num[t] * BlockSize < len[t]
                /\ Rest(t) \in Indices /\ Entry(t, Rest(t)) # 0
                /\ Page(Entry(t, f)) = Page(Entry(t, Rest(t)))
  <2>1. PICK b \in Nat : b = Entry(t, f)
    BY EntryType
  <2>2. Entry(t, f)' = b /\ b # 0 /\ mapedEnd' <= Page(b)
    BY <1>5, <2>1 DEF Unmapped, Page
  <2>3. Unmapped(t, f)
    BY <1>1, <2>1, <2>2, PageFloor DEF Unmapped
  <2>4. QED
    BY <2>3 DEF Mapped
<1>6. Rest(t)' = Rest(t) /\ Index(offset[t])' = Index(offset[t])
  BY DEF Rest, Index
<1>7. ASSUME NEW f \in Indices, Unmapped(t, f)'
      PROVE  \/ fresh'[t] /\ Index(offset'[t]) <= f
             \/ /\ ~fresh'[t] /\ i'[t] = 0 /\ offset'[t] % BlockSize = 0
                /\ num'[t] * BlockSize < len'[t]
                /\ Rest(t)' \in Indices /\ Entry(t, Rest(t))' # 0
                /\ Page(Entry(t, f))' = Page(Entry(t, Rest(t)))'
  <2>1. CASE fresh[t] /\ Index(offset[t]) <= f
    BY <2>1
  <2>2. CASE ~(fresh[t] /\ Index(offset[t]) <= f)
    <3>1. PICK g \in Indices : g = Rest(t)
      BY <1>5, <1>7, <2>2
    <3>2. /\ ~fresh[t] /\ i[t] = 0 /\ offset[t] % BlockSize = 0
          /\ num[t] * BlockSize < len[t] /\ Entry(t, g) # 0
          /\ Page(Entry(t, f)) = Page(Entry(t, g))
      BY <1>5, <1>7, <2>2, <3>1
    <3>3. Entry(t, g)' = Entry(t, g) /\ Entry(t, f)' = Entry(t, f)
      OBVIOUS
    <3>4. Rest(t)' = g /\ Entry(t, Rest(t))' = Entry(t, g)
      BY <1>6, <3>1, <3>3
    <3>5. Page(Entry(t, f))' = Page(Entry(t, Rest(t)))'
      BY <3>2, <3>3, <3>4 DEF Page
    <3>6. QED
      BY <3>2, <3>4, <3>5
  <2>3. QED
    BY <2>1, <2>2
<1>8. len'[t] <= Longest /\ todo'[t] <= Longest
  BY DEF Mapped
<1>9. QED
  BY <1>3, <1>4, <1>7, <1>8 DEF Mapped, Longest

(* A call begins and ends where all blocks are mapped.                     *)
LEMMA CallsKeepMaps ==
  ASSUME IInv, MapInv, HeadLength <= BlockSize, \A n \in Lens : n <= Longest, NEW s \in Secs,
         \/ OpenData(s) \/ SetHead(s) \/ WriteCharacters(s) \/ Done(s)
         \/ \E n \in Lens : Append(s, n) \/ WriteString(s, n)
         \/ \E n \in Lens, p \in Offsets : WriteAt(s, p, n)
  PROVE  MapInv'
<1> USE SizeTypes
<1>1. TypeOK /\ TreeInv /\ CallInv
  BY DEF IInv
<1>2. /\ TypeOK' /\ UNCHANGED <<tree, blk, i, fresh, num>>
      /\ fresh[s] = FALSE /\ num[s] = 0 /\ i[s] = 0 /\ len[s] = 0
      /\ \A t \in Secs \ {s} : /\ offset'[t] = offset[t] /\ len'[t] = len[t]
                               /\ todo'[t] = todo[t]
  BY <1>1, CallSteps
<1>3. \A t \in Secs, f \in Indices : Entry(t, f)' = Entry(t, f)
  BY <1>2, SameEntries
<1>4. mapedEnd' = mapedEnd /\ mapedEnd \in Nat
  BY <1>1 DEF TypeOK, OpenData, SetHead, WriteCharacters, Done, Append, WriteString, WriteAt,
              Enter, Leave
<1>5. 1 <= Longest /\ BlockSize <= Longest /\ HeaderLen <= Longest /\ Longest \in Nat
  <2>1. BlocksPerPage * BlockSize \in Nat
    OBVIOUS
  <2>2. Longest = BlocksPerPage * BlockSize + BlockSize
    BY DEF Longest
  <2>3. QED
    BY <2>1, <2>2
<1>6. len[s] <= Longest /\ todo[s] <= Longest /\ \A f \in Indices : ~Unmapped(s, f)
  BY <1>2 DEF MapInv, Mapped
<1>7. len \in [Secs -> Nat] /\ todo \in [Secs -> Nat]
  BY <1>1 DEF TypeOK
<1> DEFINE Goal == len'[s] <= Longest /\ todo'[s] <= Longest
<1>8. ASSUME OpenData(s) PROVE Goal
  BY <1>5, <1>6, <1>7, <1>8 DEF OpenData, Enter
<1>9. ASSUME NEW n \in Lens, Append(s, n) PROVE Goal
  BY <1>6, <1>7, <1>9 DEF Append, Enter
<1>10. ASSUME NEW n \in Lens, WriteString(s, n) PROVE Goal
  BY <1>5, <1>7, <1>10 DEF WriteString, Enter
<1>11. ASSUME NEW n \in Lens, NEW o \in Offsets, WriteAt(s, o, n) PROVE Goal
  BY <1>6, <1>7, <1>11 DEF WriteAt, Enter
<1>12. ASSUME WriteCharacters(s) PROVE Goal
  BY <1>5, <1>6, <1>7, <1>12 DEF WriteCharacters, Enter
<1>13. ASSUME SetHead(s) \/ Done(s) PROVE Goal
  BY <1>6, <1>13 DEF SetHead, Done, Leave
<1>14. Goal
  BY <1>8, <1>9, <1>10, <1>11, <1>12, <1>13
<1>15. ASSUME NEW t \in Secs PROVE Mapped(t)'
  <2>1. CASE t = s
    <3>1. ASSUME NEW f \in Indices PROVE ~Unmapped(s, f)'
      BY <1>3, <1>4, <1>6 DEF Unmapped, Page
    <3>2. i'[s] = 0 /\ num'[s] = 0
      BY <1>2
    <3>3. QED
      BY <1>14, <2>1, <3>1, <3>2 DEF Mapped, Longest
  <2>2. CASE t # s
    BY <1>1, <1>2, <1>3, <1>4, <2>2, MapKept DEF MapInv
  <2>3. QED
    BY <2>1, <2>2
<1>16. QED
  BY <1>15 DEF MapInv

(* Loading the first block of a walk maps what the call had left; the      *)
(* blocks that are found to follow it are mapped.                          *)
LEMMA FindsKeepMaps ==
  ASSUME IInv, ReadInv, ReadInv', MapInv, NEW s \in Secs, LoadOne(s) \/ LoadRun(s) \/ CompareNext(s)
  PROVE  MapInv'
<1> USE SizeTypes
<1>1. TypeOK /\ TreeInv /\ CallInv /\ Call(s) /\ Mapped(s) /\ mapedEnd \in Nat
  BY DEF IInv, CallInv, MapInv, TypeOK
<1>2. /\ TypeOK' /\ CallInv' /\ fresh[s] = FALSE
      /\ UNCHANGED <<sectionSize, tree, blockAllocated, data, call, fresh, filled>>
      /\ \A t \in Secs \ {s} : i'[t] = i[t] /\ blk'[t] = blk[t] /\ num'[t] = num[t]
  BY <1>1, FindSteps
<1>3. \A t \in Secs, f \in Indices : Entry(t, f)' = Entry(t, f)
  BY <1>2, SameEntries
<1>4. Looks(s) /\ len[s] > 0 /\ num[s] = 0 /\ i[s] \in Nat /\ Sought(s) \in Indices
  <2>1. Looks(s)
    BY DEF LoadOne, LoadRun, CompareNext, Finds
  <2>2. QED
    BY <1>1, <2>1, SoughtType DEF Looks, Writing, TypeOK
<1>5. PICK b \in Nat : b = Entry(s, Sought(s))
  BY <1>1, <1>4, EntryType
<1> DEFINE Goal == /\ mapedEnd' \in Nat /\ mapedEnd <= mapedEnd'
                   /\ i'[s] > 0 => Page(blk'[s]) < mapedEnd'
                   /\ num'[s] > 0 => Page(blk'[s] + num'[s] - 1) < mapedEnd'
                   /\ \A f \in Indices : ~Unmapped(s, f)'
<1>6. ASSUME mapedEnd' = Loaded(b), b # 0, i[s] = 0
      PROVE  /\ mapedEnd' \in Nat /\ mapedEnd <= mapedEnd' /\ Page(b) < mapedEnd'
             /\ \A f \in Indices : ~Unmapped(s, f)'
  <2>1. /\ mapedEnd' \in Nat /\ mapedEnd <= mapedEnd' /\ Page(b) < mapedEnd'
    BY <1>1, <1>6, LoadedMaps, LoadedType
  <2>2. ASSUME NEW f \in Indices, Unmapped(s, f)' PROVE FALSE
    <3>1. PICK c \in Nat : c = Entry(s, f)
      BY <1>1, EntryType
    <3>2. c # 0 /\ mapedEnd' <= Page(c) /\ Page(c) \in Nat
      BY <1>3, <2>2, <3>1, PageFloor DEF Unmapped, Page
    <3>3. Unmapped(s, f)
      BY <1>1, <2>1, <3>1, <3>2 DEF Unmapped
    <3>4. Page(c) = Page(Entry(s, Rest(s)))
      BY <1>1, <1>2, <3>1, <3>3 DEF Mapped
    <3>5. Rest(s) = Sought(s)
      BY <1>4, <1>6 DEF Rest, Sought
    <3>6. QED
      BY <1>5, <2>1, <3>2, <3>4, <3>5
  <2>3. QED
    BY <2>1, <2>2
<1>7. ASSUME LoadOne(s) PROVE Goal
  <2>1. /\ mapedEnd' = Loaded(b) /\ b # 0 /\ i'[s] = i[s]
        /\ blk' = [blk EXCEPT ![s] = b] /\ num' = [num EXCEPT ![s] = 1]
    BY <1>5, <1>7 DEF LoadOne
  <2>2. i[s] = 0
    BY <1>1, <1>4, <1>7 DEF Call, LoadOne
  <2>3. blk'[s] = b /\ num'[s] = 1
    BY <1>1, <2>1 DEF TypeOK
  <2>4. blk'[s] + num'[s] - 1 = b
    BY <2>3
  <2>5. QED
    BY <1>6, <2>1, <2>2, <2>4
<1>8. ASSUME LoadRun(s) PROVE Goal
  <2>1. /\ mapedEnd' = Loaded(b) /\ b # 0 /\ i[s] = 0 /\ num'[s] = num[s]
        /\ blk' = [blk EXCEPT ![s] = b]
    BY <1>5, <1>8 DEF LoadRun
  <2>2. blk'[s] = b
    BY <1>1, <2>1 DEF TypeOK
  <2>3. QED
    BY <1>4, <1>6, <2>1, <2>2
<1>9. ASSUME CompareNext(s) PROVE Goal
  <2>1. mapedEnd' = mapedEnd /\ blk' = blk /\ i[s] > 0
    BY <1>9 DEF CompareNext
  <2>2. Page(blk'[s]) < mapedEnd'
    BY <1>1, <2>1 DEF Mapped
  <2>3. ASSUME NEW f \in Indices PROVE ~Unmapped(s, f)
    BY <1>1, <1>2, <2>1 DEF Mapped
  <2>4. ASSUME NEW f \in Indices PROVE ~Unmapped(s, f)'
    BY <1>3, <2>1, <2>3 DEF Unmapped, Page
  <2>5. ASSUME num'[s] > 0 PROVE Page(blk'[s] + num'[s] - 1) < mapedEnd'
    <3>1. PICK B \in Nat, N \in Nat : B = blk'[s] /\ N = num'[s] /\ N > 0
      BY <1>2, <2>5 DEF TypeOK
    <3>2. PICK j \in Nat : j = N - 1 /\ j < N
      BY <3>1
    <3>3. B # 0
      BY <3>1 DEF ReadInv, Follows
    <3>4. PICK g \in Indices : g = Index(offset[s]) + j
      <4>1. num'[s] <= Asked(s)' /\ Asked(s)' = Asked(s)
        BY <1>2, <2>5, AskedKept DEF CallInv, Call, call
      <4>2. j < Asked(s)
        BY <1>1, <3>1, <3>2, <4>1, AskedType
      <4>3. QED
        BY <1>1, <1>4, <4>2, RunIndices
    <3>5. Entry(s, g)' = B + j
      <4>1. Entry(s, Index(offset[s]) + j)' = blk'[s] + j
        BY <3>1, <3>2 DEF ReadInv, Follows
      <4>2. offset'[s] = offset[s]
        BY <1>2 DEF call
      <4>3. QED
        BY <3>1, <3>4, <4>1, <4>2 DEF Index
    <3>6. Entry(s, g) = B + j
      BY <1>3, <3>5
    <3>7. Page(B + j) < mapedEnd
      <4>1. B + j # 0 /\ B + j \in Nat
        BY <3>3
      <4>2. Page(B + j) \in Nat
        BY <4>1, PageFloor
      <4>3. QED
        BY <1>1, <2>3, <3>6, <4>1, <4>2 DEF Unmapped
    <3>8. B + N - 1 = B + j
      BY <3>1, <3>2
    <3>9. QED
      BY <2>1, <3>1, <3>7, <3>8
  <2>6. QED
    BY <1>1, <2>1, <2>2, <2>4, <2>5
<1>10. Goal
  BY <1>7, <1>8, <1>9
<1>11. ASSUME NEW t \in Secs PROVE Mapped(t)'
  <2>1. CASE t = s
    <3>1. len'[s] <= Longest /\ todo'[s] <= Longest
      BY <1>1, <1>2 DEF Mapped, call
    <3>2. QED
      BY <1>10, <2>1, <3>1 DEF Mapped, Longest
  <2>2. CASE t # s
    BY <1>1, <1>2, <1>3, <1>10, <2>2, MapKept DEF MapInv, call
  <2>3. QED
    BY <2>1, <2>2
<1>12. QED
  BY <1>11 DEF MapInv

(* A new block is mapped; of a run that has all its entries, only those    *)
(* behind the page of its first block are not.                             *)
LEMMA EntersKeepMaps ==
  ASSUME IInv, ReadInv, ReadInv', MapInv, NEW s \in Secs, NEW b, EnterStep(s, b)
  PROVE  MapInv'
<1> USE SizeTypes
<1>1. /\ TypeOK /\ CallInv /\ Call(s) /\ TreeInv /\ WordInv /\ Mapped(s) /\ mapedEnd \in Nat
      /\ blockAllocated \in Nat \ {0}
  BY DEF IInv, CallInv, DisjointInv, CounterInv, MapInv, TypeOK
<1>2. /\ TypeOK' /\ CallInv' /\ Sought(s) \in Indices /\ b \in Nat /\ Leaf(s, Sought(s), b)
      /\ UNCHANGED <<sectionSize, data, call, filled>>
      /\ \A t \in Secs \ {s} : /\ i'[t] = i[t] /\ blk'[t] = blk[t]
                               /\ fresh'[t] = fresh[t] /\ num'[t] = num[t]
  BY <1>1, EnterSteps
<1>3. Looks(s) /\ len[s] > 0 /\ num[s] = 0 /\ i[s] < Asked(s) /\ i[s] \in Nat /\ blk[s] \in Nat
  <2>1. Looks(s)
    BY DEF EnterStep, AllocateOne, AllocateRun, EnterNext, Finds
  <2>2. QED
    BY <1>1, <2>1 DEF Looks, Writing, TypeOK
<1>4. Asked(s) \in Nat /\ Index(offset[s]) \in Nat
  BY <1>1, AskedType, IndexFloor DEF TypeOK
<1>5. PICK e \in Indices, d \in Nat, k \in Nat :
        e = Sought(s) /\ d = Index(offset[s]) /\ k = i[s] /\ e = d + k
  BY <1>2, <1>3, <1>4 DEF Sought
<1>6. \A t \in Secs, f \in Indices : Entry(t, f)' = IF t = s /\ f = e THEN b ELSE Entry(t, f)
  BY <1>1, <1>2, <1>5, LeafEntries
<1>7. offset'[s] = offset[s] /\ len'[s] = len[s] /\ todo'[s] = todo[s]
  BY <1>2 DEF call
<1> DEFINE Left(f) == \/ fresh'[s] /\ d <= f
                      \/ /\ ~fresh'[s] /\ i'[s] = 0 /\ offset[s] % BlockSize = 0
                         /\ num'[s] * BlockSize < len[s]
                         /\ Rest(s)' \in Indices /\ Entry(s, Rest(s))' # 0
                         /\ Page(Entry(s, f))' = Page(Entry(s, Rest(s)))'
           Goal == /\ mapedEnd' \in Nat /\ mapedEnd <= mapedEnd'
                   /\ i'[s] > 0 => Page(blk'[s]) < mapedEnd'
                   /\ num'[s] > 0 => Page(blk'[s] + num'[s] - 1) < mapedEnd'
                   /\ \A f \in Indices : Unmapped(s, f)' => Left(f)
<1>8. ASSUME mapedEnd' = Loaded(b), i[s] = 0, ~fresh[s], Entry(s, e) = 0
      PROVE  /\ mapedEnd' \in Nat /\ mapedEnd <= mapedEnd' /\ Page(b) < mapedEnd'
             /\ \A f \in Indices : ~Unmapped(s, f)'
  <2>1. /\ mapedEnd' \in Nat /\ mapedEnd <= mapedEnd' /\ Page(b) < mapedEnd'
    BY <1>1, <1>2, <1>8, LoadedMaps, LoadedType
  <2>2. ASSUME NEW f \in Indices PROVE ~Unmapped(s, f)
    <3>1. Rest(s) = e
      BY <1>3, <1>5, <1>8 DEF Rest
    <3>2. QED
      BY <1>1, <1>8, <3>1 DEF Mapped
  <2>3. ASSUME NEW f \in Indices, Unmapped(s, f)' PROVE FALSE
    <3>1. CASE f = e
      <4>1. Entry(s, f)' = b
        BY <1>6, <3>1
      <4>2. mapedEnd' <= Page(b) /\ Page(b) \in Nat
        BY <1>2, <2>3, <4>1, PageFloor DEF Unmapped, Page
      <4>3. QED
        BY <2>1, <4>2
    <3>2. CASE f # e
      <4>1. PICK c \in Nat : c = Entry(s, f)
        BY <1>1, EntryType
      <4>2. Entry(s, f)' = c
        BY <1>6, <3>2, <4>1
      <4>3. c # 0 /\ mapedEnd' <= Page(c) /\ Page(c) \in Nat
        BY <2>3, <4>2, PageFloor DEF Unmapped, Page
      <4>4. Unmapped(s, f)
        BY <1>1, <2>1, <4>1, <4>3 DEF Unmapped
      <4>5. QED
        BY <2>2, <4>4
    <3>3. QED
      BY <3>1, <3>2
  <2>4. QED
    BY <2>1, <2>3
<1>9. ASSUME AllocateOne(s), b = blockAllocated PROVE Goal
  <2>1. /\ mapedEnd' = Loaded(b) /\ Entry(s, e) = 0 /\ i' = i /\ Single(s)
        /\ blk' = [blk EXCEPT ![s] = b] /\ num' = [num EXCEPT ![s] = 1]
    BY <1>5, <1>9 DEF AllocateOne
  <2>2. i[s] = 0 /\ ~fresh[s]
    BY <1>1, <1>3, <2>1 DEF Call
  <2>3. blk'[s] = b /\ num'[s] = 1 /\ blk'[s] + num'[s] - 1 = b
    BY <1>1, <1>2, <2>1 DEF TypeOK
  <2>4. QED
    BY <1>8, <2>1, <2>2, <2>3
<1>10. ASSUME AllocateRun(s), b = blockAllocated PROVE Goal
  <2>1. /\ mapedEnd' = Loaded(b) /\ Entry(s, e) = 0 /\ i[s] = 0 /\ num' = num
        /\ blk' = [blk EXCEPT ![s] = b]
    BY <1>5, <1>10 DEF AllocateRun
  <2>2. ~fresh[s]
    BY <1>1, <2>1 DEF Call
  <2>3. blk'[s] = b
    BY <1>1, <2>1 DEF TypeOK
  <2>4. QED
    BY <1>3, <1>8, <2>1, <2>2, <2>3
<1>11. ASSUME EnterNext(s), b = blk[s] + i[s] PROVE Goal
  <2>1. PICK A \in Nat, B \in Nat, n \in Nat :
          A = Asked(s) /\ B = blk[s] /\ n = Continuous(A, B)
    BY <1>3, <1>4, ContinuousType
  <2>2. /\ fresh[s] /\ mapedEnd' = mapedEnd /\ blk'[s] = B
        /\ i'[s] = (IF k + 1 = A THEN 0 ELSE k + 1)
        /\ num'[s] = (IF k + 1 = A THEN n ELSE 0)
        /\ fresh'[s] = (k + 1 # A)
    BY <1>1, <1>5, <1>11, <2>1 DEF EnterNext, TypeOK
  <2>3. i[s] > 0 /\ ~Single(s) /\ Page(B) < mapedEnd /\ Page(B) \in Nat
    BY <1>1, <2>1, <2>2, PageFloor DEF Call, Mapped
  <2>4. A <= BlocksPerPage + 1 /\ A >= 1 /\ k < A
    BY <1>1, <1>3, <1>5, <2>1, AskedBound DEF Mapped
  <2>5. ASSUME NEW f \in Indices, Unmapped(s, f)' PROVE f \in Nat /\ d <= f
    <3>1. CASE f = e
      BY <1>5, <3>1, IndexType
    <3>2. CASE f # e
      <4>1. Unmapped(s, f)
        BY <1>6, <2>2, <2>5, <3>2 DEF Unmapped, Page
      <4>2. QED
        BY <1>1, <1>5, <2>2, <4>1, IndexType DEF Mapped
    <3>3. QED
      BY <3>1, <3>2
  <2>6. CASE k + 1 # A
    <3>1. fresh'[s] /\ num'[s] = 0
      BY <2>2, <2>6
    <3>2. QED
      BY <1>1, <2>2, <2>3, <2>5, <3>1
  <2>7. CASE k + 1 = A
    <3>1. ~fresh'[s] /\ i'[s] = 0 /\ num'[s] = n
      BY <2>2, <2>7
    <3>2. 1 <= n /\ n <= A
      BY <2>1, <2>4, ContinuousType
    <3>3. Page(blk'[s] + num'[s] - 1) < mapedEnd'
      <4>1. PICK j \in Nat : j = n - 1 /\ j < n /\ j < A /\ B + n - 1 = B + j
        BY <3>2
      <4>2. Page(B + j) = Page(B)
        BY <2>1, <2>4, <4>1, RunOfPages
      <4>3. QED
        BY <2>2, <2>3, <3>1, <4>1, <4>2
    (* The entries of the run. *)
    <3>4. ASSUME NEW j \in Nat, j < A
          PROVE  d + j \in Indices /\ Entry(s, d + j)' = B + j
      <4>1. PICK f \in Indices : f = d + j
        BY <1>1, <1>3, <1>5, <2>1, <3>4, RunIndices
      <4>2. CASE j = k
        BY <1>5, <1>6, <1>11, <2>1, <4>1, <4>2
      <4>3. CASE j # k
        <5>1. j < i[s]
          BY <1>5, <2>7, <3>4, <4>3
        <5>2. Entry(s, f) = B + j
          BY <1>5, <2>1, <4>1, <5>1 DEF ReadInv, Follows
        <5>3. f # e
          BY <1>5, <4>1, <4>3
        <5>4. QED
          BY <1>6, <4>1, <5>2, <5>3
      <4>4. QED
        BY <4>2, <4>3
    <3>5. ASSUME NEW f \in Indices, Unmapped(s, f)' PROVE Left(f)
      <4>1. f \in Nat /\ d <= f
        BY <2>5, <3>5
      <4>2. PICK j \in Nat : f = d + j
        <5>1. f - d \in Nat /\ f = d + (f - d)
          BY <4>1
        <5>2. QED
          BY <5>1
      <4>3. j < A
        <5>1. CASE f = e
          BY <1>5, <2>4, <4>2, <5>1
        <5>2. CASE f # e
          <6>1. Entry(s, f) # 0
            BY <1>6, <3>5, <5>2 DEF Unmapped
          <6>2. ~(d + k <= f)
            BY <1>5, <2>2, <6>1 DEF ReadInv, Follows
          <6>3. QED
            BY <2>4, <4>2, <6>2
        <5>3. QED
          BY <5>1, <5>2
      <4>4. Entry(s, f)' = B + j /\ mapedEnd <= Page(B + j)
        <5>1. Entry(s, f)' = B + j
          BY <3>4, <4>2, <4>3
        <5>2. QED
          BY <2>2, <3>5, <5>1 DEF Unmapped, Page
      <4>5. n <= j
        <5>1. ASSUME j < n PROVE FALSE
          <6>1. Page(B + j) = Page(B)
            BY <2>1, <2>4, <4>3, <5>1, RunOfPages
          <6>2. QED
            BY <1>1, <2>3, <4>4, <6>1
        <5>2. QED
          BY <3>2, <5>1
      <4>6. n < A /\ n * BlockSize < len[s]
        <5>1. n < A
          BY <3>2, <4>3, <4>5
        <5>2. QED
          BY <1>1, <1>3, <2>1, <3>2, <5>1, AskedType
      <4>7. d + n \in Indices /\ Entry(s, d + n)' = B + n /\ B + n # 0
        BY <3>2, <3>4, <4>6
      <4>8. Page(B + j) = Page(B + n)
        BY <2>1, <2>4, <4>3, <4>5, RunOfPages
      <4>9. Rest(s)' = d + n
        BY <1>5, <1>7, <3>1 DEF Rest, Index
      <4>10. PICK g \in Indices : g = d + n
        BY <4>7
      <4>11. Rest(s)' \in Indices /\ Entry(s, Rest(s))' = B + n
        BY <4>7, <4>9, <4>10
      <4>12. Page(Entry(s, f))' = Page(Entry(s, Rest(s)))'
        BY <4>4, <4>8, <4>11 DEF Page
      <4>13. offset[s] % BlockSize = 0
        BY <2>3 DEF Single
      <4>14. QED
        BY <3>1, <4>6, <4>7, <4>11, <4>12, <4>13
    <3>6. QED
      BY <1>1, <2>2, <3>1, <3>3, <3>5
  <2>8. QED
    BY <2>6, <2>7
<1>12. Goal
  BY <1>9, <1>10, <1>11 DEF EnterStep
<1>13. ASSUME NEW t \in Secs PROVE Mapped(t)'
  <2>1. CASE t = s
    <3>1. len'[s] <= Longest /\ todo'[s] <= Longest
      BY <1>1, <1>7 DEF Mapped
    <3>2. Index(offset'[s]) = d
      BY <1>5, <1>7
    <3>3. ASSUME NEW f \in Indices, Unmapped(s, f)'
          PROVE  \/ fresh'[s] /\ Index(offset'[s]) <= f
                 \/ /\ ~fresh'[s] /\ i'[s] = 0 /\ offset'[s] % BlockSize = 0
                    /\ num'[s] * BlockSize < len'[s]
                    /\ Rest(s)' \in Indices /\ Entry(s, Rest(s))' # 0
                    /\ Page(Entry(s, f))' = Page(Entry(s, Rest(s)))'
      <4>1. Left(f)
        BY <1>12, <3>3
      <4>2. QED
        BY <1>7, <3>2, <4>1
    <3>4. QED
      BY <1>12, <2>1, <3>1, <3>3 DEF Mapped, Longest
  <2>2. CASE t # s
    <3>1. \A f \in Indices : Entry(t, f)' = Entry(t, f)
      BY <1>6, <2>2
    <3>2. QED
      BY <1>1, <1>2, <1>12, <2>2, <3>1, MapKept DEF MapInv, call
  <2>3. QED
    BY <2>1, <2>2
<1>14. QED
  BY <1>13 DEF MapInv

LEMMA IndexKeepsMaps ==
  ASSUME IInv, MapInv, NEW s \in Secs, AllocateIndex(s)
  PROVE  MapInv'
<1>1. /\ TypeOK /\ CallInv /\ TreeInv /\ WordInv /\ mapedEnd \in Nat
      /\ blockAllocated \in Nat \ {0} /\ blockAllocated \notin DOMAIN blockIds
  <2>1. mapedEnd \in Nat
    BY DEF IInv, TypeOK
  <2>2. QED
    BY <2>1 DEF IInv, DisjointInv, CounterInv
<1>2. /\ Sought(s) \in Indices
      /\ UNCHANGED <<sectionSize, data, call, filled, blk, num, i, fresh>>
  BY <1>1, IndexSteps
<1>3. PICK k \in 0 .. Level[Sought(s)] - 1 : Branch(s, Sought(s), k, blockAllocated)
  BY <1>1, IndexSteps
<1>4. \A t \in Secs, f \in Indices : Entry(t, f)' = Entry(t, f)
  BY <1>1, <1>2, <1>3, BranchEntries
<1>5. mapedEnd' \in Nat /\ mapedEnd <= mapedEnd'
  <2>1. mapedEnd' = Loaded(blockAllocated)
    BY DEF AllocateIndex
  <2>2. QED
    BY <1>1, <2>1, LoadedMaps, LoadedType
<1>6. ASSUME NEW t \in Secs PROVE Mapped(t)'
  BY <1>1, <1>2, <1>4, <1>5, MapKept DEF MapInv, call
<1>7. QED
  BY <1>6 DEF MapInv

(* What a copy leaves begins with the block behind the last one copied.    *)
LEMMA CopyKeepsMaps ==
  ASSUME IInv, MapInv, NEW s \in Secs, Copy(s)
  PROVE  MapInv'
<1> USE SizeTypes
<1>1. TypeOK /\ CallInv /\ Call(s) /\ TreeInv /\ Mapped(s) /\ mapedEnd \in Nat
  BY DEF IInv, CallInv, MapInv, TypeOK
<1>2. /\ TypeOK' /\ UNCHANGED <<todo, tree, i, fresh>>
      /\ fresh[s] = FALSE /\ i[s] = 0 /\ num'[s] = 0
      /\ \A t \in Secs \ {s} : /\ offset'[t] = offset[t] /\ len'[t] = len[t]
                               /\ blk'[t] = blk[t] /\ num'[t] = num[t]
  BY <1>1, CopyStep
<1>3. \A t \in Secs, f \in Indices : Entry(t, f)' = Entry(t, f)
  BY <1>2, SameEntries
<1>4. PICK o \in Nat, N \in Nat, l \in Nat : o = offset[s] /\ N = num[s] /\ l = len[s]
  BY <1>1 DEF TypeOK
<1>5. PICK n \in Nat : n = CopyLen(s) /\ n <= l
  <2>1. num[s] > 0
    BY DEF Copy
  <2>2. QED
    BY <1>1, <1>4, <2>1, CopyLenType
<1>6. offset'[s] = o + n /\ len'[s] = l - n /\ mapedEnd' = mapedEnd
  BY <1>1, <1>4, <1>5 DEF Copy, TypeOK
<1>7. ASSUME NEW f \in Indices, Unmapped(s, f)'
      PROVE  /\ (o + n) % BlockSize = 0 /\ 0 < l - n /\ Rest(s)' = Rest(s)
             /\ Rest(s) \in Indices /\ Entry(s, Rest(s)) # 0
             /\ Page(Entry(s, f)) = Page(Entry(s, Rest(s)))
  <2>1. Unmapped(s, f)
    BY <1>3, <1>6, <1>7 DEF Unmapped, Page
  <2>2. /\ o % BlockSize = 0 /\ N * BlockSize < l
        /\ Rest(s) \in Indices /\ Entry(s, Rest(s)) # 0
        /\ Page(Entry(s, f)) = Page(Entry(s, Rest(s)))
    BY <1>1, <1>2, <1>4, <2>1 DEF Mapped
  <2>3. n = N * BlockSize
    <3>1. PICK m \in Nat : m = N * BlockSize
      OBVIOUS
    <3>2. QED
      BY <1>4, <1>5, <2>2, <3>1 DEF CopyLen, Smaller
  <2>4. PICK d \in Nat : d = Index(o) /\ o = d * BlockSize
    <3>1. PICK q \in Nat : q = Index(o) /\ o = q * BlockSize + (o % BlockSize)
      BY IndexFloor
    <3>2. q * BlockSize \in Nat
      OBVIOUS
    <3>3. QED
      BY <2>2, <3>1, <3>2
  <2>5. o + n = (d + N) * BlockSize + 0 /\ 0 \in 0 .. BlockSize - 1 /\ d + N \in Nat
    BY <2>3, <2>4
  <2>6. (o + n) % BlockSize = 0 /\ Index(o + n) = d + N
    BY <2>5, Remainder DEF Index
  <2>7. Rest(s)' = Rest(s)
    BY <1>2, <1>4, <1>6, <2>4, <2>6 DEF Rest, Index
  <2>8. QED
    BY <2>2, <2>3, <2>6, <2>7
<1>8. ASSUME NEW t \in Secs PROVE Mapped(t)'
  <2>1. CASE t = s
    <3>1. len'[s] <= Longest /\ todo'[s] <= Longest
      <4>1. Longest \in Nat
        BY DEF Longest
      <4>2. QED
        BY <1>1, <1>2, <1>4, <1>5, <1>6, <4>1 DEF Mapped
    <3>2. ASSUME NEW f \in Indices, Unmapped(s, f)'
          PROVE  /\ ~fresh'[s] /\ i'[s] = 0 /\ offset'[s] % BlockSize = 0
                 /\ num'[s] * BlockSize < len'[s]
                 /\ Rest(s)' \in Indices /\ Entry(s, Rest(s))' # 0
                 /\ Page(Entry(s, f))' = Page(Entry(s, Rest(s)))'
      <4>1. PICK g \in Indices : g = Rest(s) /\ g = Rest(s)'
        BY <1>7, <3>2
      <4>2. Entry(s, g)' = Entry(s, g) /\ Entry(s, f)' = Entry(s, f)
        BY <1>3
      <4>3. Entry(s, Rest(s))' = Entry(s, g) /\ Entry(s, g) # 0
        BY <1>7, <3>2, <4>1, <4>2
      <4>4. Page(Entry(s, f))' = Page(Entry(s, Rest(s)))'
        BY <1>7, <3>2, <4>1, <4>2, <4>3 DEF Page
      <4>5. num'[s] * BlockSize < len'[s]
        BY <1>2, <1>6, <1>7, <3>2
      <4>6. QED
        BY <1>2, <1>6, <1>7, <3>2, <4>1, <4>3, <4>4, <4>5
    <3>3. QED
      BY <1>2, <2>1, <3>1, <3>2 DEF Mapped, Longest
  <2>2. CASE t # s
    BY <1>1, <1>2, <1>3, <1>6, <2>2, MapKept DEF MapInv
  <2>3. QED
    BY <2>1, <2>2
<1>9. QED
  BY <1>8 DEF MapInv

LEMMA InitMaps == Init => MapInv
<1> SUFFICES ASSUME Init, NEW s \in Secs PROVE Mapped(s)
  BY DEF MapInv
<1>1. /\ len[s] = 0 /\ todo[s] = 0 /\ i[s] = 0 /\ num[s] = 0 /\ sectionSize[s] = 0
      /\ fresh[s] = FALSE /\ filled[s] = {}
  BY DEF Init
<1>2. Longest \in Nat
  BY SizeTypes DEF Longest
<1>3. ASSUME NEW e \in Indices PROVE Entry(s, e) = 0
  BY EntriesEmpty
<1>4. QED
  BY <1>1, <1>2, <1>3 DEF Mapped, Unmapped

LEMMA NextKeepsMaps ==
  ASSUME ~Beyond, HeadLength <= BlockSize, \A n \in Lens : n <= Longest,
         IInv, ReadInv, MapInv, [Next]_vars
  PROVE  MapInv'
<1>1. ReadInv'
  BY NextKeepsReads
<1>2. CASE UNCHANGED vars
  <2>1. \A t \in Secs, f \in Indices : Entry(t, f)' = Entry(t, f)
    BY <1>2, SameEntries DEF vars
  <2>2. TypeOK /\ TreeInv /\ mapedEnd \in Nat
    BY DEF IInv, TypeOK
  <2>3. mapedEnd' \in Nat /\ mapedEnd <= mapedEnd'
    BY <1>2, <2>2 DEF vars
  <2>4. ASSUME NEW t \in Secs PROVE Mapped(t)'
    BY <1>2, <2>1, <2>2, <2>3, MapKept DEF MapInv, vars, call
  <2>5. QED
    BY <2>4 DEF MapInv
<1>3. ASSUME NEW s \in Secs,
             \/ OpenData(s) \/ SetHead(s) \/ WriteCharacters(s) \/ Done(s)
             \/ \E n \in Lens : Append(s, n) \/ WriteString(s, n)
             \/ \E n \in Lens, p \in Offsets : WriteAt(s, p, n)
      PROVE  MapInv'
  BY <1>3, CallsKeepMaps
<1>4. ASSUME NEW s \in Secs, Copy(s) PROVE MapInv'
  BY <1>4, CopyKeepsMaps
<1>5. ASSUME NEW s \in Secs, LoadOne(s) \/ LoadRun(s) \/ CompareNext(s) PROVE MapInv'
  BY <1>1, <1>5, FindsKeepMaps
<1>6. ASSUME NEW s \in Secs, NEW b, EnterStep(s, b) PROVE MapInv'
  BY <1>1, <1>6, EntersKeepMaps
<1>7. ASSUME NEW s \in Secs, AllocateIndex(s) PROVE MapInv'
  BY <1>7, IndexKeepsMaps
<1>8. QED
  BY <1>2, <1>3, <1>4, <1>5, <1>6, <1>7 DEF Next, WriteStep, LoadStep, EnterStep

(* The last cell of a copy lies in the blocks that were loaded or found.   *)
LEMMA LoadedIsMapped ==
  ASSUME IInv, MapInv
  PROVE  CopyIsMapped
<1> SUFFICES ASSUME NEW s \in Secs, num[s] > 0
             PROVE  Page(blk[s] + ((offset[s] % BlockSize) + CopyLen(s) - 1) \div BlockSize) < mapedEnd
  BY DEF CopyIsMapped
<1> USE SizeTypes
<1>1. TypeOK /\ Call(s) /\ Mapped(s) /\ mapedEnd \in Nat
  BY DEF IInv, CallInv, MapInv, TypeOK
<1>2. PICK B \in Nat, N \in Nat, l \in Nat, r \in 0 .. BlockSize - 1 :
        B = blk[s] /\ N = num[s] /\ l = len[s] /\ r = offset[s] % BlockSize
  BY <1>1, DivMod DEF TypeOK
<1>3. PICK n \in Nat : n = CopyLen(s) /\ 1 <= n
  BY <1>1, CopyLenType
<1>4. PICK m \in Nat : m = N * BlockSize
  OBVIOUS
<1>5. n <= m - r
  BY <1>2, <1>3, <1>4 DEF CopyLen, Smaller
<1>6. PICK c \in Nat : c = r + n - 1 /\ c < N * BlockSize
  BY <1>2, <1>3, <1>4, <1>5
<1>7. PICK q \in Nat : q = c \div BlockSize /\ q < N
  BY <1>6, QuotientBelow, DivMod
<1>8. B + q \in Nat /\ B + N - 1 \in Nat /\ B + q <= B + N - 1
  BY <1>7
<1>9. Page(B + q) <= Page(B + N - 1) /\ Page(B + q) \in Nat /\ Page(B + N - 1) \in Nat
  BY <1>8, PageMonotone, PageFloor
<1>10. Page(B + N - 1) < mapedEnd
  BY <1>1, <1>2 DEF Mapped
<1>11. Page(B + q) < mapedEnd
  BY <1>1, <1>9, <1>10
<1>12. (offset[s] % BlockSize) + CopyLen(s) - 1 = c
  BY <1>2, <1>3, <1>6
<1>13. QED
  BY <1>2, <1>7, <1>11, <1>12

(* memcpy only touches mapped pages (fsl_lib.cpp:566-600), as long as no   *)
(* write is longer than a page and one block (33280 bytes in the code), no *)
(* write ends behind its section, and the head lies in one block. Longer   *)
(* writes, such as those of the record layer when it flushes 1024 records  *)
(* of more than 32 bytes (ral/section.h:654), may leave the mapping: see   *)
(* the run data_large_write.                                               *)
THEOREM CopiesStayMapped ==
  ASSUME ~Beyond, HeadLength <= BlockSize, \A n \in Lens : n <= (BlocksPerPage + 1) * BlockSize
  PROVE  Spec => []CopyIsMapped
<1>1. Init => IInv /\ ReadInv /\ MapInv
  BY InitHolds, InitReads, InitMaps
<1>2. \A n \in Lens : n <= Longest
  BY DEF Longest
<1>3. (IInv /\ ReadInv /\ MapInv) /\ [Next]_vars => (IInv /\ ReadInv /\ MapInv)'
  BY <1>2, NextKeeps, NextKeepsReads, NextKeepsMaps
<1>4. IInv /\ MapInv => CopyIsMapped
  BY LoadedIsMapped
<1>5. QED
  BY <1>1, <1>3, <1>4, PTL DEF Spec
=============================================================================
