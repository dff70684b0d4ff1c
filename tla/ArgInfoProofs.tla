---------------------------- MODULE ArgInfoProofs ----------------------------
(***************************************************************************)
(* What the comparisons of argument lists decide, for lists of every       *)
(* length and regions of every size: the walk over two lists finds their   *)
(* conflicts if they are tidy and alike, and the regions that are left out *)
(* of later comparisons may be if those of the older list are uniform, all *)
(* as defined below. The runs of ArgList find what happens to others.      *)
(***************************************************************************)
EXTENDS ArgInfo, FiniteSetTheorems, TLAPS

(***************************************************************************)
(* Taking an element out of an argument list leaves an argument list,      *)
(* whatever index is given.                                                *)
(***************************************************************************)
LEMMA WithoutType ==
  ASSUME NEW argv1 \in Seq(Region), NEW j
  PROVE  Without(argv1, j) \in Seq(Region)
<1> DEFINE n == Len(argv1) - 1
           e(k) == argv1[IF k < j THEN k ELSE k + 1]
<1>1. CASE Len(argv1) = 0
  <2>1. Without(argv1, j) = <<>>
    BY <1>1 DEF Without
  <2> QED BY <2>1
<1>2. CASE Len(argv1) # 0
  <2>1. n \in Nat
    BY <1>2
  <2>2. \A k \in 1 .. n : e(k) \in Region
    BY <1>2
  <2>3. [k \in 1 .. n |-> e(k)] \in [1 .. n -> Region]
    BY <2>2
  <2> QED BY <2>1, <2>3 DEF Without
<1> QED BY <1>1, <1>2

LEMMA RemoveCoveredType ==
  ASSUME NEW args1, NEW argv1 \in Seq(Region), NEW hit
  PROVE  RemoveCovered(args1, argv1, hit) \in Seq(Region)
BY WithoutType DEF RemoveCovered

-----------------------------------------------------------------------------
(***************************************************************************)
(* A set of natural numbers that is not empty has a smallest member.       *)
(***************************************************************************)
LEMMA SmallestOf == ASSUME NEW T \in SUBSET Nat, T # {}
                    PROVE  \E m \in T : \A n \in T : m <= n
<1> DEFINE I(n) == 0 .. n
           C == { I(n) : n \in T }
<1>1. C \subseteq FiniteSubsetsOf(Nat)
  <2> SUFFICES ASSUME NEW n \in T PROVE I(n) \in FiniteSubsetsOf(Nat)
    OBVIOUS
  <2>1. n \in Nat /\ I(n) \subseteq Nat
    OBVIOUS
  <2>2. IsFiniteSet(I(n))
    BY <2>1, FS_Interval
  <2> QED BY <2>1, <2>2 DEF FiniteSubsetsOf
<1>2. C # {}
  OBVIOUS
<1>3. \E x \in C : \A y \in C : ~ (<<y, x>> \in StrictSubsetOrdering(Nat))
  BY <1>1, <1>2, FS_StrictSubsetOrderingWellFounded, WFMin, Zenon
<1>4. PICK m \in T : \A n \in T : ~ (<<I(n), I(m)>> \in StrictSubsetOrdering(Nat))
  BY <1>3
<1>5. ASSUME NEW n \in T PROVE m <= n
  <2>1. ~ (I(n) \subseteq I(m) /\ I(n) # I(m))
    <3> I(n) \in SUBSET Nat /\ I(m) \in SUBSET Nat
      OBVIOUS
    <3> HIDE DEF I
    <3> SUFFICES ASSUME I(n) \subseteq I(m), I(n) # I(m)
                 PROVE  <<I(n), I(m)>> \in StrictSubsetOrdering(Nat)
      BY <1>4
    <3> QED BY DEF StrictSubsetOrdering
  <2>2. SUFFICES ASSUME n < m PROVE FALSE
    OBVIOUS
  <2>3. I(n) \subseteq I(m) /\ m \in I(m) /\ m \notin I(n)
    BY <2>2
  <2> QED BY <2>1, <2>3
<1> QED BY <1>5

(***************************************************************************)
(* Induction on the natural numbers, over a set S instead of a formula.    *)
(***************************************************************************)
LEMMA Induct == ASSUME NEW S, 0 \in S, \A n \in Nat : n \in S => n + 1 \in S
                PROVE  Nat \subseteq S
<1> SUFFICES ASSUME Nat \ S # {} PROVE FALSE
  OBVIOUS
<1>1. PICK m \in Nat \ S : \A n \in Nat \ S : m <= n
  BY SmallestOf
<1>2. m - 1 \in Nat /\ m - 1 \notin Nat \ S
  BY <1>1
<1> QED BY <1>1, <1>2

(***************************************************************************)
(* A walk over two lists of lengths m and n, which stops at the end of one *)
(* of them or at a place of Stop, with a result from V that depends on the *)
(* place, and elsewhere advances one of its two indices, the first at the  *)
(* places of Down: there is a function that returns its result from every  *)
(* place, built from the ends of the lists backwards.                      *)
(***************************************************************************)
WalkData(m, n, P, Stop, Down, V, result) ==
  /\ m \in Nat /\ n \in Nat /\ P = (1 .. m + 1) \X (1 .. n + 1)
  /\ Stop \subseteq P /\ Down \subseteq P /\ result \in [P -> V]

WalkFrom(m, n, Stop, Down, result, f, p) ==
  IF p[1] > m \/ p[2] > n \/ p \in Stop THEN result[p]
  ELSE IF p \in Down THEN f[<<p[1] + 1, p[2]>>]
  ELSE f[<<p[1], p[2] + 1>>]

LEMMA WalkFunction ==
  ASSUME NEW m, NEW n, NEW P, NEW Stop, NEW Down, NEW V, NEW result,
         WalkData(m, n, P, Stop, Down, V, result)
  PROVE  \E f \in [P -> V] :
            \A p \in P : f[p] = WalkFrom(m, n, Stop, Down, result, f, p)
<1> DEFINE Step(f, p) == WalkFrom(m, n, Stop, Down, result, f, p)
           Far == m + n + 2
           Done(l, f) == \A p \in P : p[1] + p[2] + l >= Far => f[p] = Step(f, p)
           S == { l \in Nat : \E f \in [P -> V] : Done(l, f) }
<1> m \in Nat /\ n \in Nat /\ P = (1 .. m + 1) \X (1 .. n + 1) /\ result \in [P -> V]
  BY DEF WalkData
<1>0. Far \in Nat /\ \A p \in P : p[1] \in Nat /\ p[2] \in Nat
  OBVIOUS
<1>1. 0 \in S
  <2>1. \A p \in P : p[1] + p[2] + 0 >= Far => p[1] > m
    OBVIOUS
  <2>2. Done(0, result)
    <3> HIDE DEF Far
    <3> QED BY <2>1 DEF WalkFrom
  <2> HIDE DEF Done
  <2> QED BY <2>2
<1>2. ASSUME NEW l \in Nat, l \in S PROVE l + 1 \in S
  <2>1. PICK f \in [P -> V] : Done(l, f)
    BY <1>2
  <2> DEFINE g == [p \in P |-> IF p[1] + p[2] + l + 1 = Far THEN Step(f, p) ELSE f[p]]
  <2>t. ASSUME NEW p \in P, ~ (p[1] > m \/ p[2] > n)
        PROVE  <<p[1] + 1, p[2]>> \in P /\ <<p[1], p[2] + 1>> \in P
    BY <2>t
  <2>v. ASSUME NEW p \in P PROVE Step(f, p) \in V
    <3>1. CASE p[1] > m \/ p[2] > n
      BY <3>1 DEF WalkFrom
    <3>2. CASE ~ (p[1] > m \/ p[2] > n)
      <4>1. <<p[1] + 1, p[2]>> \in P /\ <<p[1], p[2] + 1>> \in P
        BY <2>t, <3>2
      <4> QED BY <4>1 DEF WalkFrom
    <3> QED BY <3>1, <3>2
  <2>2. \A p \in P : p[1] + p[2] + l >= Far => g[p] = f[p]
    <3>1. \A p \in P : p[1] + p[2] + l >= Far => p[1] + p[2] + l + 1 # Far
      BY <1>0
    <3> HIDE DEF Far, Step
    <3> QED BY <3>1
  <2>g. g \in [P -> V]
    <3> HIDE DEF Step, Far
    <3> QED BY <2>v
  <2>3. ASSUME NEW p \in P, p[1] + p[2] + l + 1 >= Far
        PROVE  g[p] = Step(g, p)
    <3>1. g[p] = Step(f, p)
      <4>1. p[1] + p[2] + l + 1 = Far \/ p[1] + p[2] + l >= Far
        BY <1>0, <2>3
      <4> HIDE DEF Far, Step
      <4> QED BY <2>1, <4>1
    <3>2. Step(f, p) = Step(g, p)
      <4>1. CASE p[1] > m \/ p[2] > n
        BY <4>1 DEF WalkFrom
      <4>2. CASE ~ (p[1] > m \/ p[2] > n)
        <5>1. <<p[1] + 1, p[2]>> \in P /\ <<p[1], p[2] + 1>> \in P
          BY <2>t, <4>2
        <5>2. p[1] + 1 + p[2] + l >= Far /\ p[1] + (p[2] + 1) + l >= Far
          BY <1>0, <2>3
        <5>3. g[<<p[1] + 1, p[2]>>] = f[<<p[1] + 1, p[2]>>] /\ g[<<p[1], p[2] + 1>>] = f[<<p[1], p[2] + 1>>]
          BY <2>2, <5>1, <5>2
        <5> HIDE DEF g
        <5> QED BY <5>3 DEF WalkFrom
      <4> QED BY <4>1, <4>2
    <3> QED BY <3>1, <3>2
  <2>4. Done(l + 1, g)
    <3> HIDE DEF g, Step, Far
    <3>1. \A p \in P : p[1] + p[2] + (l + 1) = p[1] + p[2] + l + 1
      BY <1>0
    <3> QED BY <2>3, <3>1
  <2> HIDE DEF g, Done
  <2> QED BY <2>4, <2>g
<1>3. Far \in S
  <2> HIDE DEF S
  <2> QED BY <1>0, <1>1, <1>2, Induct
<1>4. PICK f \in [P -> V] : Done(Far, f)
  BY <1>3
<1>5. \A p \in P : p[1] + p[2] + Far >= Far
  BY <1>0
<1> QED BY <1>4, <1>5

(***************************************************************************)
(* The places of the two indices of a walk, and one step of MergeWalk at   *)
(* place p, f being what it returns from the places after it.              *)
(***************************************************************************)
Places(a, b) == (1 .. Len(a) + 1) \X (1 .. Len(b) + 1)

WalkStep(a, b, f, p) ==
  IF p[1] > Len(a) \/ p[2] > Len(b) THEN NoConflict
  ELSE IF Conflict(a, p[1], b[p[2]]) THEN p
  ELSE IF a[p[1]].addr < b[p[2]].addr THEN f[<<p[1] + 1, p[2]>>]
  ELSE f[<<p[1], p[2] + 1>>]

(***************************************************************************)
(* The recursive function of MergeWalk is defined.                         *)
(***************************************************************************)
LEMMA WalkExists ==
  ASSUME NEW a, NEW b, Len(a) \in Nat, Len(b) \in Nat
  PROVE  \E f : f = [p \in Places(a, b) |-> WalkStep(a, b, f, p)]
<1> DEFINE P == Places(a, b)
           End(p) == p[1] > Len(a) \/ p[2] > Len(b)
           Stop == { p \in P : Conflict(a, p[1], b[p[2]]) }
           Down == { p \in P : a[p[1]].addr < b[p[2]].addr }
           result == [p \in P |-> IF End(p) THEN NoConflict ELSE p]
           V == P \cup {NoConflict}
<1>1. result \in [P -> V] /\ Stop \in SUBSET P /\ Down \in SUBSET P
  OBVIOUS
<1> HIDE DEF Stop, Down, result, V
<1>2. PICK f \in [P -> V] : \A p \in P : f[p] = WalkFrom(Len(a), Len(b), Stop, Down, result, f, p)
  <2> DEFINE m == Len(a)
             n == Len(b)
  <2>1. m \in Nat /\ n \in Nat /\ P = (1 .. m + 1) \X (1 .. n + 1)
    BY DEF Places
  <2> HIDE DEF m, n, P
  <2>d. WalkData(m, n, P, Stop, Down, V, result)
    BY <1>1, <2>1 DEF WalkData
  <2>2. \E f \in [P -> V] : \A p \in P : f[p] = WalkFrom(m, n, Stop, Down, result, f, p)
    BY <2>d, WalkFunction
  <2> QED BY <2>2 DEF m, n
<1>3. \A p \in P : f[p] = WalkStep(a, b, f, p)
  <2> HIDE DEF P
  <2> QED BY <1>2 DEF WalkFrom, WalkStep, Stop, Down, result
<1> HIDE DEF P
<1>4. f = [p \in P |-> WalkStep(a, b, f, p)]
  BY <1>2, <1>3
<1> QED BY <1>4 DEF P

(***************************************************************************)
(* So MergeWalk takes the steps it is written with.                        *)
(***************************************************************************)
LEMMA WalkUnfolds ==
  ASSUME NEW a, NEW b, Len(a) \in Nat, Len(b) \in Nat
  PROVE  \E f : /\ MergeWalk(a, b) = f[<<1, 1>>]
                /\ \A p \in Places(a, b) : f[p] = WalkStep(a, b, f, p)
<1> DEFINE f == CHOOSE g : g = [p \in Places(a, b) |-> WalkStep(a, b, g, p)]
<1>1. f = [p \in Places(a, b) |-> WalkStep(a, b, f, p)]
  BY WalkExists
<1>2. MergeWalk(a, b) = f[<<1, 1>>]
  BY DEF MergeWalk, WalkStep, Places
<1> HIDE DEF f
<1> QED BY <1>1, <1>2

-----------------------------------------------------------------------------

(***************************************************************************)
(* Two regions meet: arrays when they are the same one, others when their  *)
(* bytes overlap.                                                          *)
(***************************************************************************)
Meets(r, s) == IF is_array(r) /\ is_array(s) THEN r.addr = s.addr ELSE overlaps(r, s)

(***************************************************************************)
(* A list in address order of objects apart from each other, though an     *)
(* array may have several regions in it.                                   *)
(***************************************************************************)
Tidy(a) ==
  \A i, j \in DOMAIN a : i < j =>
     IF is_array(a[i]) /\ is_array(a[j])
     THEN a[i].addr <= a[j].addr
     ELSE a[i].addr < a[j].addr /\ ~ overlaps(a[i], a[j])

(***************************************************************************)
(* The regions of one array are all read or all written: with both kinds,  *)
(* the scan may take a section that is only read for one that covers       *)
(* (workitem.cpp, line 146).                                               *)
(***************************************************************************)
Uniform(a) ==
  \A i, j \in DOMAIN a :
     is_array(a[i]) /\ is_array(a[j]) /\ a[i].addr = a[j].addr => a[i].wr = a[j].wr

(***************************************************************************)
(* Two regions that meet are regions of the same array, or no arrays. Of   *)
(* the latter, if both are only read they must be the same object: the     *)
(* walk goes past the region with the smaller address although it may      *)
(* reach further than the other.                                           *)
(***************************************************************************)
SameKind(r, s) ==
  IF is_array(r) THEN is_array(s) /\ DOMAIN r.range = DOMAIN s.range ELSE ~ is_array(s)

SameObject(r, s) ==
  /\ SameKind(r, s)
  /\ is_array(r) \/ r.wr \/ s.wr \/ (r.addr = s.addr /\ r.size = s.size)

Alike(a, b) ==
  \A i \in DOMAIN a, j \in DOMAIN b : Meets(a[i], b[j]) => SameObject(a[i], b[j])

(***************************************************************************)
(* The regions r and s have a cell in common that one of them writes.      *)
(***************************************************************************)
Clash(r, s) == (r.wr \/ s.wr) /\ \E x : x \in Cells(r) /\ x \in Cells(s)

(***************************************************************************)
(* Lists conflict when a region of one clashes with one of the other.      *)
(***************************************************************************)
LEMMA ClashDecides ==
  ASSUME NEW a, NEW b
  PROVE  Conflicting(a, b) <=> \E i \in DOMAIN a, j \in DOMAIN b : Clash(a[i], b[j])
BY DEF Conflicting, Written, Accessed, Clash

(***************************************************************************)
(* The cells of a region that is no array.                                 *)
(***************************************************************************)
LEMMA ScalarCells ==
  ASSUME NEW r \in Region, ~ is_array(r), NEW x
  PROVE  x \in Cells(r) <=> \E n \in r.addr .. r.addr + r.size - 1 : x = <<n, <<>>>>
BY DEF Cells

(***************************************************************************)
(* The cells of a region of an array: one for each choice of an index      *)
(* within the range of each dimension.                                     *)
(***************************************************************************)
LEMMA ArrayCells ==
  ASSUME NEW r \in Region, is_array(r), NEW x
  PROVE  x \in Cells(r) <=>
            \E f : /\ x = <<r.addr, f>>
                   /\ f = [d \in DOMAIN r.range |-> f[d]]
                   /\ \A d \in DOMAIN r.range : f[d] \in r.range[d][1] .. r.range[d][2]
<1> DEFINE extent(d) == r.range[d][1] .. r.range[d][2]
           all == UNION { extent(d) : d \in DOMAIN r.range }
           indices == [DOMAIN r.range -> all]
<1>1. Cells(r) = { <<r.addr, f>> : f \in { g \in indices : \A d \in DOMAIN g : g[d] \in extent(d) } }
  BY DEF Cells
<1>2. \A d \in DOMAIN r.range : extent(d) \subseteq all
  OBVIOUS
<1> HIDE DEF all, extent
<1>3. ASSUME x \in Cells(r)
      PROVE  \E f : /\ x = <<r.addr, f>>
                    /\ f = [d \in DOMAIN r.range |-> f[d]]
                    /\ \A d \in DOMAIN r.range : f[d] \in extent(d)
  BY <1>1, <1>3
<1>4. ASSUME NEW f, x = <<r.addr, f>>, f = [d \in DOMAIN r.range |-> f[d]],
             \A d \in DOMAIN r.range : f[d] \in extent(d)
      PROVE  x \in Cells(r)
  <2>1. f \in indices
    BY <1>2, <1>4
  <2> QED BY <1>1, <1>4, <2>1
<1> QED BY <1>3, <1>4 DEF extent

(***************************************************************************)
(* Regions that have a cell in common are both arrays, the same one and    *)
(* with ranges that overlap in every dimension, or both no arrays.         *)
(***************************************************************************)
LEMMA SharedCell ==
  ASSUME NEW r \in Region, NEW s \in Region, NEW x, x \in Cells(r), x \in Cells(s)
  PROVE  /\ is_array(r) <=> is_array(s)
         /\ is_array(r) => /\ r.addr = s.addr /\ DOMAIN r.range = DOMAIN s.range
                           /\ \A d \in DOMAIN r.range :
                                 overlaps_intervals(s.range[d][1], s.range[d][2],
                                                    r.range[d][1], r.range[d][2])
         /\ ~ is_array(r) => \E n \in Nat : /\ r.addr <= n /\ n <= r.addr + r.size - 1
                                            /\ s.addr <= n /\ n <= s.addr + s.size - 1
<1>t. /\ r.addr \in Nat /\ r.size \in Nat /\ s.addr \in Nat /\ s.size \in Nat
      /\ r.range \in Seq(Int \X Int) /\ s.range \in Seq(Int \X Int)
  BY DEF Region
<1>1. CASE is_array(r) /\ is_array(s)
  <2>1. PICK f : /\ x = <<r.addr, f>> /\ f = [d \in DOMAIN r.range |-> f[d]]
                 /\ \A d \in DOMAIN r.range : f[d] \in r.range[d][1] .. r.range[d][2]
    BY <1>1, ArrayCells
  <2>2. PICK g : /\ x = <<s.addr, g>> /\ g = [d \in DOMAIN s.range |-> g[d]]
                 /\ \A d \in DOMAIN s.range : g[d] \in s.range[d][1] .. s.range[d][2]
    BY <1>1, ArrayCells
  <2>3. f = g /\ r.addr = s.addr
    BY <2>1, <2>2
  <2>4. DOMAIN r.range = DOMAIN s.range
    BY <2>1, <2>2, <2>3
  <2>5. ASSUME NEW d \in DOMAIN r.range
        PROVE  overlaps_intervals(s.range[d][1], s.range[d][2], r.range[d][1], r.range[d][2])
    <3>1. r.range[d] \in Int \X Int /\ s.range[d] \in Int \X Int
      BY <1>t, <2>4
    <3>2. f[d] \in r.range[d][1] .. r.range[d][2] /\ f[d] \in s.range[d][1] .. s.range[d][2]
      BY <2>1, <2>2, <2>3, <2>4
    <3> QED BY <3>1, <3>2 DEF overlaps_intervals
  <2> QED BY <1>1, <2>3, <2>4, <2>5
<1>2. CASE ~ is_array(r) /\ ~ is_array(s)
  <2>1. PICK n \in r.addr .. r.addr + r.size - 1 : x = <<n, <<>>>>
    BY <1>2, ScalarCells
  <2>2. PICK m \in s.addr .. s.addr + s.size - 1 : x = <<m, <<>>>>
    BY <1>2, ScalarCells
  <2>3. n = m /\ n \in Nat
    BY <1>t, <2>1, <2>2
  <2> QED BY <1>t, <1>2, <2>3
<1>3. ASSUME NEW u \in {r, s}, NEW v \in {r, s}, is_array(u), ~ is_array(v) PROVE FALSE
  <2>1. PICK f : x = <<u.addr, f>> /\ f = [d \in DOMAIN u.range |-> f[d]]
    BY <1>3, ArrayCells
  <2>2. PICK n \in v.addr .. v.addr + v.size - 1 : x = <<n, <<>>>>
    BY <1>3, ScalarCells
  <2>3. f = <<>>
    BY <2>1, <2>2
  <2>4. DOMAIN u.range = {}
    BY <2>1, <2>3
  <2>5. u.range = <<>>
    <3>1. u.range \in Seq(Int \X Int)
      BY <1>t, <1>3
    <3>2. Len(u.range) \in Nat /\ DOMAIN u.range = 1 .. Len(u.range)
      BY <3>1
    <3>3. 1 \notin 1 .. Len(u.range)
      BY <2>4, <3>2
    <3>4. Len(u.range) = 0
      BY <3>2, <3>3
    <3> QED BY <3>1, <3>4
  <2> QED BY <1>3, <2>5 DEF is_array
<1> QED BY <1>1, <1>2, <1>3

-----------------------------------------------------------------------------

(***************************************************************************)
(* Addresses and sizes are natural numbers, and no region is empty.        *)
(***************************************************************************)
LEMMA RegionNumbers ==
  ASSUME NEW r \in Region
  PROVE  r.addr \in Nat /\ r.size \in Nat /\ r.size >= 1
BY DEF Region

(***************************************************************************)
(* The bounds of a range are integers.                                     *)
(***************************************************************************)
LEMMA RangeNumbers ==
  ASSUME NEW r \in Region, NEW d \in DOMAIN r.range
  PROVE  r.range[d][1] \in Int /\ r.range[d][2] \in Int
<1>1. r.range \in Seq(Int \X Int)
  BY DEF Region
<1>2. r.range[d] \in Int \X Int
  BY <1>1
<1> QED BY <1>2

(***************************************************************************)
(* Regions with a byte in common overlap.                                  *)
(***************************************************************************)
LEMMA CommonByte ==
  ASSUME NEW r \in Region, NEW s \in Region, NEW n \in Nat,
         r.addr <= n, n <= r.addr + r.size - 1, s.addr <= n, n <= s.addr + s.size - 1
  PROVE  overlaps(r, s)
<1>1. /\ r.addr \in Nat /\ r.size \in Nat /\ s.addr \in Nat /\ s.size \in Nat
  BY RegionNumbers
<1> QED BY <1>1 DEF overlaps, overlaps_intervals

(***************************************************************************)
(* The comparison at a region of the older list detects a clash there,     *)
(* and for arrays also one with a later region of the same array.          *)
(***************************************************************************)
LEMMA ClashFound ==
  ASSUME NEW a \in Seq(Region), NEW w \in Region, NEW i \in DOMAIN a, NEW k \in DOMAIN a,
         i <= k, Clash(a[k], w), is_array(w) \/ i = k,
         \A m \in i .. k : a[m].addr = w.addr \/ i = k
  PROVE  Conflict(a, i, w)
<1>1. a[k] \in Region
  OBVIOUS
<1>2. PICK x : x \in Cells(a[k]) /\ x \in Cells(w)
  BY DEF Clash
<1>3. CASE is_array(w)
  <2>1. /\ is_array(a[k]) /\ a[k].addr = w.addr
        /\ DOMAIN a[k].range = DOMAIN w.range
        /\ \A d \in DOMAIN a[k].range :
              overlaps_intervals(w.range[d][1], w.range[d][2], a[k].range[d][1], a[k].range[d][2])
    BY <1>1, <1>2, <1>3, SharedCell
  <2>2. \A m \in i .. k : a[m].addr = w.addr
    BY <2>1
  <2>3. k \in SameArray(w, a, i)
    BY <2>2 DEF SameArray
  <2>4. w.wr \/ a[k].wr
    BY DEF Clash
  <2>5. overlap_array(w, a, i)
    BY <2>1, <2>3, <2>4 DEF overlap_array
  <2>6. a[i].addr = w.addr
    BY <2>2
  <2> QED BY <1>3, <2>5, <2>6 DEF Conflict
<1>4. CASE ~ is_array(w)
  <2>1. i = k /\ ~ is_array(a[k])
    BY <1>1, <1>2, <1>4, SharedCell
  <2>2. PICK n \in Nat : /\ a[k].addr <= n /\ n <= a[k].addr + a[k].size - 1
                         /\ w.addr <= n /\ n <= w.addr + w.size - 1
    BY <1>1, <1>2, <1>4, <2>1, SharedCell
  <2>4. overlaps(a[k], w)
    BY <1>1, <2>2, CommonByte
  <2> QED BY <1>4, <2>1, <2>4 DEF Conflict, Clash
<1> QED BY <1>3, <1>4

(***************************************************************************)
(* While the walk has not gone past a pair of regions that clash, its      *)
(* next step does not go past it.                                          *)
(***************************************************************************)
LEMMA NextPlace ==
  ASSUME NEW a \in Seq(Region), NEW b \in Seq(Region), Tidy(a), Tidy(b), Alike(a, b),
         NEW k \in DOMAIN a, NEW l \in DOMAIN b, Clash(a[k], b[l]),
         NEW i \in 1 .. k, NEW j \in 1 .. l, ~ Conflict(a, i, b[j])
  PROVE  IF a[i].addr < b[j].addr THEN i < k ELSE j < l
<1>t. \A r \in Region : r.addr \in Nat /\ r.size \in Nat \ {0} /\ r.wr \in BOOLEAN
  BY DEF Region
<1>d. i \in DOMAIN a /\ j \in DOMAIN b
  OBVIOUS
<1>r. a[i] \in Region /\ a[k] \in Region /\ b[j] \in Region /\ b[l] \in Region
  BY <1>d
<1>n. /\ a[i].addr \in Nat /\ a[i].size \in Nat /\ a[i].size >= 1
      /\ a[k].addr \in Nat /\ a[k].size \in Nat /\ a[k].size >= 1
      /\ b[j].addr \in Nat /\ b[j].size \in Nat /\ b[j].size >= 1
      /\ b[l].addr \in Nat /\ b[l].size \in Nat /\ b[l].size >= 1
  BY <1>r, RegionNumbers
<1>1. PICK x : x \in Cells(a[k]) /\ x \in Cells(b[l])
  BY DEF Clash
<1>c. ~ (i = k /\ j = l)
  BY <1>r, <1>d, ClashFound
<1>2. \A m \in i .. k : a[i].addr <= a[m].addr /\ a[m].addr <= a[k].addr
  <2> SUFFICES ASSUME NEW m \in i .. k PROVE a[i].addr <= a[m].addr /\ a[m].addr <= a[k].addr
    OBVIOUS
  <2>1. m \in DOMAIN a /\ a[m] \in Region
    OBVIOUS
  <2>2. \A u, v \in DOMAIN a : u < v => a[u].addr <= a[v].addr
    <3> SUFFICES ASSUME NEW u \in DOMAIN a, NEW v \in DOMAIN a, u < v
                 PROVE  a[u].addr <= a[v].addr
      OBVIOUS
    <3>1. a[u].addr \in Nat /\ a[v].addr \in Nat
      BY <1>t
    <3> QED BY <3>1 DEF Tidy
  <2>3. i = m \/ i < m
    OBVIOUS
  <2>4. m = k \/ m < k
    OBVIOUS
  <2>5. a[i].addr \in Nat /\ a[m].addr \in Nat /\ a[k].addr \in Nat
    BY <1>t, <1>r, <2>1
  <2> QED BY <1>d, <2>1, <2>2, <2>3, <2>4, <2>5
<1>3. b[j].addr <= b[l].addr
  <2>1. b[j].addr \in Nat /\ b[l].addr \in Nat
    BY <1>t, <1>r
  <2>2. j = l \/ j < l
    OBVIOUS
  <2> QED BY <1>d, <2>1, <2>2 DEF Tidy
<1>4. ASSUME a[i].addr < b[j].addr, i = k PROVE FALSE
  <2>1. j < l
    BY <1>4, <1>c
  <2>2. CASE is_array(a[k])
    <3>1. a[k].addr = b[l].addr
      BY <1>1, <1>r, <2>2, SharedCell
    <3> QED BY <1>3, <1>4, <3>1, <1>t, <1>r
  <2>3. CASE ~ is_array(a[k])
    <3>1. PICK n \in Nat : /\ a[k].addr <= n /\ n <= a[k].addr + a[k].size - 1
                           /\ b[l].addr <= n /\ n <= b[l].addr + b[l].size - 1
      BY <1>1, <1>r, <2>3, SharedCell
    <3>2. overlaps(a[k], b[j])
      <4>1. /\ a[k].addr <= b[j].addr /\ b[j].addr <= a[k].addr + a[k].size - 1
            /\ b[j].addr <= b[j].addr /\ b[j].addr <= b[j].addr + b[j].size - 1
        BY <1>n, <1>3, <1>4, <3>1, SMTT(60)
      <4> QED BY <1>n, <1>r, <4>1, CommonByte
    <3>3. SameObject(a[k], b[j])
      BY <1>d, <2>3, <3>2 DEF Alike, Meets
    <3>4. ~ is_array(b[j]) /\ (a[k].wr \/ b[j].wr)
      BY <1>4, <1>t, <1>r, <2>3, <3>3 DEF SameObject, SameKind
    <3>5. Conflict(a, i, b[j])
      BY <1>4, <3>2, <3>4 DEF Conflict
    <3> QED BY <3>5
  <2> QED BY <2>2, <2>3
<1>5. ASSUME ~ (a[i].addr < b[j].addr), j = l PROVE FALSE
  <2>1. i < k
    BY <1>5, <1>c
  <2>2. CASE is_array(b[l])
    <3>1. a[k].addr = b[l].addr /\ is_array(a[k])
      BY <1>1, <1>r, <2>2, SharedCell
    <3>2. \A m \in i .. k : a[m].addr = b[l].addr
      <4> SUFFICES ASSUME NEW m \in i .. k PROVE a[m].addr = b[l].addr
        OBVIOUS
      <4>1. a[m] \in Region
        OBVIOUS
      <4>2. a[m].addr \in Nat
        BY <1>t, <4>1
      <4> QED BY <1>2, <1>5, <1>t, <1>r, <3>1, <4>2
    <3> QED BY <1>5, <1>d, <1>r, <2>1, <2>2, <3>2, ClashFound
  <2>3. CASE ~ is_array(b[l])
    <3>1. PICK n \in Nat : /\ a[k].addr <= n /\ n <= a[k].addr + a[k].size - 1
                           /\ b[l].addr <= n /\ n <= b[l].addr + b[l].size - 1
      BY <1>1, <1>r, <2>3, SharedCell
    <3>i. a[i].addr <= a[k].addr
      BY <1>2, <2>1
    <3>2. overlaps(a[i], b[l])
      <4>1. /\ a[i].addr <= a[i].addr /\ a[i].addr <= a[i].addr + a[i].size - 1
            /\ b[l].addr <= a[i].addr /\ a[i].addr <= b[l].addr + b[l].size - 1
        BY <1>n, <1>5, <3>1, <3>i, SMTT(60)
      <4> QED BY <1>n, <1>r, <4>1, CommonByte
    <3>3. SameObject(a[i], b[l])
      BY <1>d, <2>3, <3>2 DEF Alike, Meets
    <3>4. ~ (a[i].wr \/ b[l].wr)
      BY <1>5, <2>3, <3>2 DEF Conflict
    <3>5. ~ is_array(a[i]) /\ a[i].addr = b[l].addr /\ a[i].size = b[l].size
      BY <2>3, <3>3, <3>4 DEF SameObject, SameKind
    <3>6. overlaps(a[i], a[k])
      <4>1. /\ a[i].addr <= a[k].addr /\ a[k].addr <= a[i].addr + a[i].size - 1
            /\ a[k].addr <= a[k].addr /\ a[k].addr <= a[k].addr + a[k].size - 1
        BY <1>n, <3>1, <3>5, <3>i, SMTT(60)
      <4> QED BY <1>n, <1>r, <4>1, CommonByte
    <3> QED BY <1>d, <2>1, <3>5, <3>6 DEF Tidy
  <2> QED BY <2>2, <2>3
<1> QED BY <1>4, <1>5

-----------------------------------------------------------------------------

(***************************************************************************)
(* The walk over two lists finds a conflict if there is one, although it   *)
(* compares each pair of neighbours only: what the order of execution      *)
(* rests on (insert_in_worklist takes the absence of a hit for             *)
(* independence).                                                          *)
(***************************************************************************)
THEOREM WalkFinds ==
  ASSUME NEW a \in Seq(Region), NEW b \in Seq(Region), Tidy(a), Tidy(b), Alike(a, b),
         Conflicting(a, b)
  PROVE  FirstConflict(a, b) # NoConflict
<1>1. PICK k \in DOMAIN a, l \in DOMAIN b : Clash(a[k], b[l])
  BY ClashDecides
<1>2. PICK f : /\ MergeWalk(a, b) = f[<<1, 1>>]
               /\ \A p \in Places(a, b) : f[p] = WalkStep(a, b, f, p)
  <2>1. Len(a) \in Nat /\ Len(b) \in Nat
    OBVIOUS
  <2> QED BY <2>1, WalkUnfolds
<1> DEFINE S == { n \in Nat : \A i \in 1 .. k, j \in 1 .. l :
                                 i + j + n >= k + l => f[<<i, j>>] # NoConflict }
<1>n. k \in Nat /\ l \in Nat /\ k >= 1 /\ l >= 1 /\ k <= Len(a) /\ l <= Len(b)
  OBVIOUS
<1>w. ASSUME NEW i \in 1 .. k, NEW j \in 1 .. l
      PROVE  f[<<i, j>>] = IF Conflict(a, i, b[j]) THEN <<i, j>>
                           ELSE IF a[i].addr < b[j].addr THEN f[<<i + 1, j>>]
                           ELSE f[<<i, j + 1>>]
  <2>1. <<i, j>> \in Places(a, b)
    BY <1>n DEF Places
  <2>2. ~ (i > Len(a) \/ j > Len(b))
    BY <1>n
  <2> QED BY <1>2, <2>1, <2>2 DEF WalkStep
<1>h. \A i \in 1 .. k, j \in 1 .. l : <<i, j>> # NoConflict
  BY DEF NoConflict
<1>3. 0 \in S
  <2> SUFFICES ASSUME NEW i \in 1 .. k, NEW j \in 1 .. l, i + j + 0 >= k + l
               PROVE  f[<<i, j>>] # NoConflict
    OBVIOUS
  <2>1. i = k /\ j = l
    BY <1>n
  <2>2. Conflict(a, i, b[j])
    BY <1>1, <2>1, NextPlace
  <2> QED BY <1>w, <1>h, <2>2
<1>4. ASSUME NEW n \in Nat, n \in S PROVE n + 1 \in S
  <2> SUFFICES ASSUME NEW i \in 1 .. k, NEW j \in 1 .. l, i + j + (n + 1) >= k + l
               PROVE  f[<<i, j>>] # NoConflict
    OBVIOUS
  <2>1. CASE Conflict(a, i, b[j])
    BY <1>w, <1>h, <2>1
  <2>2. CASE ~ Conflict(a, i, b[j])
    <3>1. IF a[i].addr < b[j].addr THEN i < k ELSE j < l
      BY <1>1, <2>2, NextPlace
    <3>2. CASE a[i].addr < b[j].addr
      <4>1. i + 1 \in 1 .. k /\ (i + 1) + j + n >= k + l
        BY <1>n, <3>1, <3>2
      <4>2. f[<<i + 1, j>>] # NoConflict
        BY <1>4, <4>1
      <4> QED BY <1>w, <2>2, <3>2, <4>2
    <3>3. CASE ~ (a[i].addr < b[j].addr)
      <4>1. j + 1 \in 1 .. l /\ i + (j + 1) + n >= k + l
        BY <1>n, <3>1, <3>3
      <4>2. f[<<i, j + 1>>] # NoConflict
        BY <1>4, <4>1
      <4> QED BY <1>w, <2>2, <3>3, <4>2
    <3> QED BY <3>2, <3>3
  <2> QED BY <2>1, <2>2
<1>5. k + l \in S
  <2> HIDE DEF S
  <2> QED BY <1>n, <1>3, <1>4, Induct
<1>6. f[<<1, 1>>] # NoConflict
  <2>1. 1 \in 1 .. k /\ 1 \in 1 .. l /\ 1 + 1 + (k + l) >= k + l
    BY <1>n
  <2> QED BY <1>5, <2>1
<1>7. a # <<>> /\ b # <<>>
  BY <1>n
<1> QED BY <1>2, <1>6, <1>7 DEF FirstConflict

(***************************************************************************)
(* A hit is a place where the two lists are in conflict.                   *)
(***************************************************************************)
LEMMA WalkStops ==
  ASSUME NEW a \in Seq(Region), NEW b \in Seq(Region), FirstConflict(a, b) # NoConflict
  PROVE  \E i \in DOMAIN a, j \in DOMAIN b :
            FirstConflict(a, b) = <<i, j>> /\ Conflict(a, i, b[j])
<1>0. Len(a) \in Nat /\ Len(b) \in Nat
  OBVIOUS
<1>1. PICK f : /\ MergeWalk(a, b) = f[<<1, 1>>]
               /\ \A p \in Places(a, b) : f[p] = WalkStep(a, b, f, p)
  BY <1>0, WalkUnfolds
<1> DEFINE I == 1 .. Len(a) + 1
           J == 1 .. Len(b) + 1
           Good(v) == v = NoConflict \/ \E i \in DOMAIN a, j \in DOMAIN b : v = <<i, j>> /\ Conflict(a, i, b[j])
           Far == Len(a) + Len(b) + 2
           S == { n \in Nat : \A i \in I, j \in J : i + j + n >= Far => Good(f[<<i, j>>]) }
<1>w. ASSUME NEW i \in I, NEW j \in J
      PROVE  f[<<i, j>>] = IF i > Len(a) \/ j > Len(b) THEN NoConflict
                           ELSE IF Conflict(a, i, b[j]) THEN <<i, j>>
                           ELSE IF a[i].addr < b[j].addr THEN f[<<i + 1, j>>]
                           ELSE f[<<i, j + 1>>]
  <2>1. <<i, j>> \in Places(a, b)
    BY DEF Places
  <2> QED BY <1>1, <2>1 DEF WalkStep
<1>g. Good(NoConflict) /\ \A i \in 1 .. Len(a), j \in 1 .. Len(b) : Conflict(a, i, b[j]) => Good(<<i, j>>)
  OBVIOUS
<1> HIDE DEF Good
<1>2. 0 \in S
  <2> SUFFICES ASSUME NEW i \in I, NEW j \in J, i + j + 0 >= Far PROVE Good(f[<<i, j>>])
    OBVIOUS
  <2>1. i > Len(a)
    BY <1>0
  <2> QED BY <1>w, <1>g, <2>1
<1>3. ASSUME NEW n \in Nat, n \in S PROVE n + 1 \in S
  <2> SUFFICES ASSUME NEW i \in I, NEW j \in J, i + j + (n + 1) >= Far PROVE Good(f[<<i, j>>])
    OBVIOUS
  <2>1. CASE i > Len(a) \/ j > Len(b)
    BY <1>w, <1>g, <2>1
  <2>2. CASE ~ (i > Len(a) \/ j > Len(b))
    <3>1. i \in 1 .. Len(a) /\ j \in 1 .. Len(b)
      BY <1>0, <2>2
    <3>2. i + 1 \in I /\ j + 1 \in J /\ (i + 1) + j + n >= Far /\ i + (j + 1) + n >= Far
      BY <1>0, <3>1
    <3>3. Good(f[<<i + 1, j>>]) /\ Good(f[<<i, j + 1>>])
      BY <1>3, <3>2
    <3> QED BY <1>w, <1>g, <2>2, <3>1, <3>3
  <2> QED BY <2>1, <2>2
<1>4. Far \in S
  <2>1. Far \in Nat
    BY <1>0
  <2> HIDE DEF S
  <2> QED BY <1>2, <1>3, <2>1, Induct
<1>5. Good(f[<<1, 1>>])
  <2>1. 1 \in I /\ 1 \in J /\ 1 + 1 + Far >= Far
    BY <1>0
  <2> QED BY <1>4, <2>1
<1>6. FirstConflict(a, b) = f[<<1, 1>>]
  BY <1>1 DEF FirstConflict
<1> QED BY <1>5, <1>6 DEF Good

-----------------------------------------------------------------------------

(***************************************************************************)
(* A region that lies within another has no cell that the other lacks: for *)
(* arrays, is_contained_array finds the other among those of the list ...  *)
(***************************************************************************)
LEMMA HeldByArray ==
  ASSUME NEW a \in Seq(Region), NEW w \in Region, NEW i \in DOMAIN a,
         is_array(w), a[i].addr = w.addr, is_contained_array(w, a, i),
         \A k \in DOMAIN a : Meets(a[k], w) => SameKind(a[k], w)
  PROVE  \E k \in DOMAIN a : /\ is_array(a[i]) /\ is_array(a[k]) /\ a[k].addr = a[i].addr
                             /\ Cells(w) \subseteq Cells(a[k])
<1>1. PICK k \in SameArray(w, a, i) :
         \A d \in DOMAIN w.range :
            contains_intervals(a[k].range[d][1], a[k].range[d][2], w.range[d][1], w.range[d][2])
  BY DEF is_contained_array
<1>2. k \in DOMAIN a /\ a[k].addr = w.addr /\ a[i] \in Region /\ a[k] \in Region
  BY DEF SameArray
<1>3. ASSUME NEW m \in {i, k} PROVE is_array(a[m]) /\ DOMAIN a[m].range = DOMAIN w.range
  <2>1. m \in DOMAIN a /\ a[m] \in Region /\ a[m].addr = w.addr
    BY <1>2
  <2>2. overlaps(a[m], w)
    <3>1. /\ w.addr \in Nat /\ w.size \in Nat /\ w.size >= 1
          /\ a[m].size \in Nat /\ a[m].size >= 1
      BY <2>1, RegionNumbers
    <3>2. w.addr <= a[m].addr + a[m].size - 1 /\ w.addr <= w.addr + w.size - 1
      BY <2>1, <3>1
    <3> QED BY <2>1, <3>1, <3>2, CommonByte
  <2>3. SameKind(a[m], w)
    BY <2>1, <2>2 DEF Meets
  <2> QED BY <2>3 DEF SameKind
<1>4. ASSUME NEW x \in Cells(w) PROVE x \in Cells(a[k])
  <2>1. PICK f : /\ x = <<w.addr, f>> /\ f = [d \in DOMAIN w.range |-> f[d]]
                 /\ \A d \in DOMAIN w.range : f[d] \in w.range[d][1] .. w.range[d][2]
    BY ArrayCells
  <2>2. DOMAIN a[k].range = DOMAIN w.range /\ is_array(a[k])
    BY <1>3
  <2>3. ASSUME NEW d \in DOMAIN w.range PROVE f[d] \in a[k].range[d][1] .. a[k].range[d][2]
    <3>1. w.range[d][1] \in Int /\ w.range[d][2] \in Int
      BY RangeNumbers
    <3>2. a[k].range[d][1] \in Int /\ a[k].range[d][2] \in Int
      BY <1>2, <2>2, RangeNumbers
    <3>3. a[k].range[d][1] <= w.range[d][1] /\ w.range[d][2] <= a[k].range[d][2]
      BY <1>1 DEF contains_intervals
    <3>4. f[d] \in Int /\ w.range[d][1] <= f[d] /\ f[d] <= w.range[d][2]
      <4>1. f[d] \in w.range[d][1] .. w.range[d][2]
        BY <2>1
      <4> QED BY <3>1, <4>1
    <3>5. a[k].range[d][1] <= f[d] /\ f[d] <= a[k].range[d][2]
      BY <3>1, <3>2, <3>3, <3>4
    <3> QED BY <3>2, <3>4, <3>5
  <2>4. x = <<a[k].addr, f>> /\ f = [d \in DOMAIN a[k].range |-> f[d]]
    BY <1>2, <2>1, <2>2
  <2> QED BY <1>2, <2>2, <2>3, <2>4, ArrayCells
<1> QED BY <1>2, <1>3, <1>4

(***************************************************************************)
(* ... and for others the bytes are compared.                              *)
(***************************************************************************)
LEMMA HeldByScalar ==
  ASSUME NEW r \in Region, NEW w \in Region, ~ is_array(w), contains(r, w),
         Meets(r, w) => SameKind(r, w)
  PROVE  ~ is_array(r) /\ Cells(w) \subseteq Cells(r)
<1>1. /\ w.addr \in Nat /\ w.size \in Nat /\ w.size >= 1 /\ r.addr \in Nat /\ r.size \in Nat
  BY RegionNumbers
<1>2. r.addr <= w.addr /\ w.addr + w.size <= r.addr + r.size
  BY DEF contains, contains_intervals
<1>3. overlaps(r, w)
  <2>1. w.addr <= r.addr + r.size - 1 /\ w.addr <= w.addr + w.size - 1
    BY <1>1, <1>2
  <2> QED BY <1>1, <1>2, <2>1, CommonByte
<1>4. ~ is_array(r)
  BY <1>3 DEF Meets, SameKind
<1>5. ASSUME NEW x \in Cells(w) PROVE x \in Cells(r)
  <2>1. PICK n \in w.addr .. w.addr + w.size - 1 : x = <<n, <<>>>>
    BY ScalarCells
  <2>2. n \in r.addr .. r.addr + r.size - 1
    BY <1>1, <1>2
  <2> QED BY <1>4, <2>1, <2>2, ScalarCells
<1> QED BY <1>4, <1>5

(***************************************************************************)
(* A region that is taken out of the list, because the older task covers   *)
(* it, has no cell that the older task does not write.                     *)
(***************************************************************************)
LEMMA CoveredCells ==
  ASSUME NEW a \in Seq(Region), NEW w \in Region, NEW i \in DOMAIN a, Uniform(a),
         \A k \in DOMAIN a : Meets(a[k], w) => SameKind(a[k], w),
         Conflict(a, i, w), Covered(a, i, w)
  PROVE  Cells(w) \subseteq Written(a)
<1>1. CASE is_array(w)
  <2>1. a[i].wr /\ a[i].addr = w.addr /\ is_contained_array(w, a, i)
    BY <1>1 DEF Covered, Conflict
  <2>2. PICK k \in DOMAIN a : /\ is_array(a[i]) /\ is_array(a[k]) /\ a[k].addr = a[i].addr
                              /\ Cells(w) \subseteq Cells(a[k])
    BY <1>1, <2>1, HeldByArray
  <2>3. a[k].wr
    BY <2>1, <2>2 DEF Uniform
  <2> QED BY <2>2, <2>3 DEF Written
<1>2. CASE ~ is_array(w)
  <2>1. a[i].wr /\ contains(a[i], w)
    BY <1>2 DEF Covered
  <2>2. a[i] \in Region
    OBVIOUS
  <2>3. Cells(w) \subseteq Cells(a[i])
    BY <1>2, <2>1, <2>2, HeldByScalar
  <2> QED BY <2>1, <2>3 DEF Written
<1> QED BY <1>1, <1>2

(***************************************************************************)
(* The list without one region has the others, in the same order.          *)
(***************************************************************************)
LEMMA WithoutKeeps ==
  ASSUME NEW b \in Seq(Region), NEW j \in DOMAIN b
  PROVE  /\ Without(b, j) \in Seq(Region)
         /\ \A m \in DOMAIN b \ {j} : \E k \in DOMAIN Without(b, j) : Without(b, j)[k] = b[m]
         /\ \A k, l \in DOMAIN Without(b, j) : k < l =>
               \E m, n \in DOMAIN b : m < n /\ Without(b, j)[k] = b[m] /\ Without(b, j)[l] = b[n]
         /\ \A k \in DOMAIN Without(b, j) : \E m \in DOMAIN b : Without(b, j)[k] = b[m]
<1> DEFINE n == Len(b) - 1
           at(k) == IF k < j THEN k ELSE k + 1
           c == [k \in 1 .. n |-> b[at(k)]]
<1>0. Without(b, j) = c
  BY DEF Without
<1>1. n \in Nat /\ j \in 1 .. n + 1 /\ DOMAIN b = 1 .. n + 1 /\ DOMAIN c = 1 .. n
  OBVIOUS
<1>2. \A k \in 1 .. n : at(k) \in DOMAIN b /\ c[k] = b[at(k)]
  BY <1>1
<1>3. \A k, l \in 1 .. n : k < l => at(k) < at(l)
  BY <1>1
<1>4. \A m \in DOMAIN b \ {j} : \E k \in 1 .. n : at(k) = m
  <2> SUFFICES ASSUME NEW m \in DOMAIN b \ {j} PROVE \E k \in 1 .. n : at(k) = m
    OBVIOUS
  <2>1. CASE m < j
    <3>1. m \in 1 .. n /\ at(m) = m
      BY <1>1, <2>1
    <3> QED BY <3>1
  <2>2. CASE m > j
    <3>1. m - 1 \in 1 .. n /\ at(m - 1) = m
      BY <1>1, <2>2
    <3> QED BY <3>1
  <2> QED BY <1>1, <2>1, <2>2
<1>5. c \in Seq(Region)
  <2>1. \A k \in 1 .. n : c[k] \in Region
    BY <1>2
  <2>2. c \in [1 .. n -> Region]
    BY <2>1
  <2> HIDE DEF c, n
  <2> QED BY <1>1, <2>2
<1> HIDE DEF at, c, n
<1>6. \A m \in DOMAIN b \ {j} : \E k \in DOMAIN c : c[k] = b[m]
  BY <1>1, <1>2, <1>4
<1>7. \A k, l \in DOMAIN c : k < l => \E m, o \in DOMAIN b : m < o /\ c[k] = b[m] /\ c[l] = b[o]
  BY <1>1, <1>2, <1>3
<1>8. \A k \in DOMAIN c : \E m \in DOMAIN b : c[k] = b[m]
  BY <1>1, <1>2
<1> QED BY <1>0, <1>5, <1>6, <1>7, <1>8

(***************************************************************************)
(* It is still tidy ...                                                    *)
(***************************************************************************)
LEMMA WithoutTidy ==
  ASSUME NEW b \in Seq(Region), NEW j \in DOMAIN b, Tidy(b)
  PROVE  Tidy(Without(b, j))
<1> DEFINE c == Without(b, j)
<1> SUFFICES ASSUME NEW k \in DOMAIN c, NEW l \in DOMAIN c, k < l
             PROVE  IF is_array(c[k]) /\ is_array(c[l])
                    THEN c[k].addr <= c[l].addr
                    ELSE c[k].addr < c[l].addr /\ ~ overlaps(c[k], c[l])
  BY DEF Tidy
<1>1. PICK m \in DOMAIN b, n \in DOMAIN b : m < n /\ c[k] = b[m] /\ c[l] = b[n]
  BY WithoutKeeps
<1> HIDE DEF c
<1> QED BY <1>1 DEF Tidy

(***************************************************************************)
(* ... and its regions are still alike those of another list.              *)
(***************************************************************************)
LEMMA WithoutAlike ==
  ASSUME NEW a, NEW b \in Seq(Region), NEW j \in DOMAIN b, Alike(a, b)
  PROVE  Alike(a, Without(b, j))
<1>1. \A k \in DOMAIN Without(b, j) : \E m \in DOMAIN b : Without(b, j)[k] = b[m]
  BY WithoutKeeps
<1> QED BY <1>1 DEF Alike

(***************************************************************************)
(* Taking the covered region out loses no dependency: a list c that was    *)
(* in conflict with the new task because of that region only is in         *)
(* conflict with the older task that covers it, so the new task, which     *)
(* waits for the older one, runs after both.                               *)
(***************************************************************************)
THEOREM RemovalKeeps ==
  ASSUME NEW a \in Seq(Region), NEW b \in Seq(Region), NEW c, Uniform(a), Alike(a, b),
         Conflicting(c, b),
         ~ Conflicting(c, RemoveCovered(a, b, FirstConflict(a, b)))
  PROVE  Conflicting(c, a)
<1> DEFINE hit == FirstConflict(a, b)
           left == RemoveCovered(a, b, hit)
<1>1. left # b
  OBVIOUS
<1>2. PICK i \in DOMAIN a, j \in DOMAIN b : hit = <<i, j>> /\ Conflict(a, i, b[j])
  BY <1>1, WalkStops DEF RemoveCovered
<1>3. Covered(a, i, b[j]) /\ left = Without(b, j)
  BY <1>1, <1>2 DEF RemoveCovered
<1>4. Cells(b[j]) \subseteq Written(a)
  <2>1. b[j] \in Region
    OBVIOUS
  <2>2. \A k \in DOMAIN a : Meets(a[k], b[j]) => SameKind(a[k], b[j])
    BY DEF Alike, SameObject
  <2> QED BY <1>2, <1>3, <2>1, <2>2, CoveredCells
<1> HIDE DEF left, hit
<1>5. PICK k \in DOMAIN c, l \in DOMAIN b : Clash(c[k], b[l])
  BY ClashDecides
<1>6. ~ \E m \in DOMAIN left : Clash(c[k], left[m])
  BY ClashDecides DEF left, hit
<1>7. l = j
  BY <1>3, <1>5, <1>6, WithoutKeeps
<1>8. PICK x : x \in Cells(c[k]) /\ x \in Cells(b[j])
  BY <1>5, <1>7 DEF Clash
<1>9. x \in Accessed(c) /\ x \in Written(a)
  BY <1>4, <1>8 DEF Accessed
<1> QED BY <1>9 DEF Conflicting
=============================================================================
