--------------------------- MODULE ArgListProofs ---------------------------
(***************************************************************************)
(* The lists that fill_args builds, for all the arguments that a call may  *)
(* have: they are in order and fit in argv, and what is decided about two  *)
(* of them is right.                                                       *)
(***************************************************************************)
EXTENDS ArgList, ArgInfoProofs

(***************************************************************************)
(* Lists in order of address, where only an array has several regions.     *)
(***************************************************************************)
Ordered(list) ==
  \A i, j \in DOMAIN list :
     i < j => \/ list[i].addr < list[j].addr
              \/ is_array(list[j]) /\ list[i].addr = list[j].addr

(***************************************************************************)
(* In such a list Preceding is the last region at or before the address.   *)
(***************************************************************************)
LEMMA PrecedingSplits ==
  ASSUME NEW list \in Seq(Region), Ordered(list), NEW addr \in Nat
  PROVE  /\ Preceding(list, addr) \in 0 .. Len(list)
         /\ \A i \in DOMAIN list : i <= Preceding(list, addr) <=> list[i].addr <= addr
<1> DEFINE T == { k \in DOMAIN list : list[k].addr <= addr }
           U == { n \in 1 .. Len(list) + 1 : n = Len(list) + 1 \/ ~ (list[n].addr <= addr) }
<1>n. \A i \in DOMAIN list : list[i].addr \in Nat
  <2>1. \A i \in DOMAIN list : list[i] \in Region
    OBVIOUS
  <2> QED BY <2>1, RegionNumbers
<1>1. U \in SUBSET Nat /\ Len(list) + 1 \in U
  OBVIOUS
<1>2. PICK m \in U : \A n \in U : m <= n
  BY <1>1, SmallestOf
<1>3. \A i \in DOMAIN list : i < m <=> list[i].addr <= addr
  <2> SUFFICES ASSUME NEW i \in DOMAIN list PROVE i < m <=> list[i].addr <= addr
    OBVIOUS
  <2>1. CASE i < m
    BY <1>2, <2>1
  <2>2. CASE i = m
    BY <1>2, <2>2
  <2>3. CASE i > m
    <3>1. m \in DOMAIN list /\ ~ (list[m].addr <= addr)
      BY <1>2, <2>3
    <3>2. list[m].addr <= list[i].addr
      BY <1>n, <2>3, <3>1 DEF Ordered
    <3> QED BY <1>n, <2>3, <3>1, <3>2
  <2> QED BY <1>2, <2>1, <2>2, <2>3
<1>4. T = 1 .. m - 1
  <2>1. m \in 1 .. Len(list) + 1
    BY <1>2
  <2> QED BY <1>3, <2>1
<1>5. Cardinality(T) = m - 1
  <2>1. 1 \in Int /\ m - 1 \in Int /\ m - 1 - 1 + 1 = m - 1 /\ m - 1 >= 0
    BY <1>2
  <2>2. Cardinality(1 .. m - 1) = IF 1 > m - 1 THEN 0 ELSE m - 1 - 1 + 1
    BY <2>1, FS_Interval
  <2>3. Cardinality(1 .. m - 1) = m - 1
    BY <2>1, <2>2
  <2> HIDE DEF T
  <2> QED BY <1>4, <2>3
<1>6. Preceding(list, addr) = m - 1
  BY <1>5 DEF Preceding
<1> QED BY <1>2, <1>3, <1>6

(***************************************************************************)
(* A region is put into a list after the first k.                          *)
(***************************************************************************)
LEMMA InsertedAt ==
  ASSUME NEW list \in Seq(Region), NEW k \in 0 .. Len(list), NEW a \in Region
  PROVE  LET r == InsertAfter(list, k, a)
         IN  /\ r \in Seq(Region) /\ Len(r) = Len(list) + 1
             /\ \A i \in 1 .. k : r[i] = list[i]
             /\ r[k + 1] = a
             /\ \A i \in k + 2 .. Len(list) + 1 : r[i] = list[i - 1]
<1> DEFINE s1 == SubSeq(list, 1, k)
           s2 == SubSeq(list, k + 1, Len(list))
           s3 == s1 \o <<a>>
           r == s3 \o s2
<1>0. InsertAfter(list, k, a) = r
  BY DEF InsertAfter
<1>1. s1 \in Seq(Region) /\ Len(s1) = k /\ \A i \in 1 .. k : s1[i] = list[i]
  OBVIOUS
<1>2. s2 \in Seq(Region) /\ Len(s2) = Len(list) - k /\ \A i \in 1 .. Len(list) - k : s2[i] = list[k + i]
  OBVIOUS
<1> HIDE DEF s1, s2
<1>3. s3 \in Seq(Region) /\ Len(s3) = k + 1 /\ (\A i \in 1 .. k : s3[i] = list[i]) /\ s3[k + 1] = a
  BY <1>1
<1> HIDE DEF s3
<1>4. r \in Seq(Region) /\ Len(r) = Len(list) + 1
  BY <1>2, <1>3
<1>5. \A i \in 1 .. k + 1 : r[i] = s3[i]
  BY <1>2, <1>3
<1>6. ASSUME NEW i \in k + 2 .. Len(list) + 1 PROVE r[i] = list[i - 1]
  <2>1. i - (k + 1) \in 1 .. Len(list) - k /\ r[i] = s2[i - (k + 1)]
    BY <1>2, <1>3
  <2>2. k + (i - (k + 1)) = i - 1
    OBVIOUS
  <2> QED BY <1>2, <2>1, <2>2
<1> HIDE DEF r
<1> QED BY <1>0, <1>3, <1>4, <1>5, <1>6

-----------------------------------------------------------------------------
(***************************************************************************)
(* The cells that a region lets its task write.                            *)
(***************************************************************************)
Writes(r) == IF r.wr THEN Cells(r) ELSE {}

(***************************************************************************)
(* Scalars at the same address: the larger one covers the other, and has   *)
(* besides the cells of the remainder.                                     *)
(***************************************************************************)
LEMMA ScalarParts ==
  ASSUME NEW r \in Region, NEW s \in Region, ~ is_array(r), ~ is_array(s), r.addr = s.addr
  PROVE  /\ r.size <= s.size => Cells(r) \subseteq Cells(s)
         /\ r.size = s.size => Cells(r) = Cells(s)
         /\ \A q \in Region : ~ is_array(q) /\ q.addr = r.addr + r.size /\ s.size = r.size + q.size
                              => Cells(s) = Cells(r) \cup Cells(q)
<1>t. /\ r.addr \in Nat /\ r.size \in Nat /\ s.addr \in Nat /\ s.size \in Nat
      /\ \A q \in Region : q.addr \in Nat /\ q.size \in Nat
  BY RegionNumbers
<1> DEFINE I(q) == q.addr .. q.addr + q.size - 1
<1>c. \A q \in Region : ~ is_array(q) => Cells(q) = { <<b, <<>>>> : b \in I(q) }
  BY DEF Cells
<1>1. r.size <= s.size => I(r) \subseteq I(s)
  BY <1>t
<1>2. r.size = s.size => I(r) = I(s)
  BY <1>t
<1>3. ASSUME NEW q \in Region, q.addr = r.addr + r.size, s.size = r.size + q.size
      PROVE  I(s) = I(r) \cup I(q)
  <2>1. q.addr \in Nat /\ q.size \in Nat
    BY <1>t
  <2> QED BY <1>t, <1>3, <2>1
<1> HIDE DEF I
<1>4. Cells(r) = { <<b, <<>>>> : b \in I(r) } /\ Cells(s) = { <<b, <<>>>> : b \in I(s) }
  BY <1>c
<1>5. ASSUME NEW q \in Region, ~ is_array(q), q.addr = r.addr + r.size, s.size = r.size + q.size
      PROVE  Cells(s) = Cells(r) \cup Cells(q)
  <2>1. Cells(q) = { <<b, <<>>>> : b \in I(q) }
    BY <1>c, <1>5
  <2>2. I(s) = I(r) \cup I(q)
    BY <1>3, <1>5
  <2> QED BY <1>4, <2>1, <2>2
<1>6. r.size <= s.size => Cells(r) \subseteq Cells(s)
  BY <1>1, <1>4
<1> QED BY <1>2, <1>4, <1>5, <1>6

(***************************************************************************)
(* What solve_overlap makes of the region of the list that begins where    *)
(* the new one does, and of the remainder: nothing accessed is lost or     *)
(* added, and the remainder is only read.                                  *)
(***************************************************************************)
SolvedInto(list, k, a, o, rest) ==
  /\ solve_overlap(list, k, a) = [list |-> [list EXCEPT ![k] = o], rest |-> rest]
  /\ o.addr = list[k].addr /\ o.range = list[k].range
  /\ o.size \in {a.size, list[k].size}
  /\ rest = {} \/ \E r \in Region : /\ rest = {r} /\ ~ is_array(r) /\ ~ r.wr
                                   /\ a.addr < r.addr
                                   /\ \/ r.addr + r.size = a.addr + a.size
                                      \/ r.addr + r.size = a.addr + list[k].size
  /\ ~ is_array(list[k]) =>
        /\ Cells(o) \cup UNION { Cells(r) : r \in rest } = Cells(list[k]) \cup Cells(a)
        /\ Writes(o) = Writes(list[k]) \cup Writes(a)

LEMMA Solved ==
  ASSUME NEW list \in Seq(Region), NEW k \in DOMAIN list, NEW a \in Region,
         ~ is_array(a), list[k].addr = a.addr
  PROVE  \E o \in Region, rest \in SUBSET Region : SolvedInto(list, k, a, o, rest)
<1> DEFINE other == list[k]
           orwr == a.wr \/ other.wr
           P(o, rest) == SolvedInto(list, k, a, o, rest)
<1>t. /\ other \in Region /\ other.addr \in Nat /\ other.size \in Nat /\ other.size >= 1
      /\ a.addr \in Nat /\ a.size \in Nat /\ a.size >= 1
  <2>1. other \in Region
    OBVIOUS
  <2> QED BY <2>1, RegionNumbers
<1>w. /\ other.wr \in BOOLEAN /\ a.wr \in BOOLEAN /\ a.range = <<>>
      /\ other.range \in Seq(Int \X Int) /\ a.addr = other.addr
  BY <1>t DEF Region, is_array
<1>1. CASE a.size = other.size
  <2> DEFINE o == [other EXCEPT !.wr = orwr]
  <2>1. o \in Region /\ o.addr = other.addr /\ o.size = other.size /\ o.wr = orwr /\ o.range = other.range
    BY <1>t, <1>w DEF Region
  <2>2. solve_overlap(list, k, a) = [list |-> [list EXCEPT ![k] = o], rest |-> {}]
    BY <1>t, <1>1 DEF solve_overlap
  <2> HIDE DEF o
  <2>3. ~ is_array(other) => Cells(o) = Cells(other) /\ Cells(a) = Cells(other)
    BY <1>t, <1>w, <1>1, <2>1, ScalarParts DEF is_array
  <2>4. ~ is_array(other) => Writes(o) = Writes(other) \cup Writes(a)
    BY <1>w, <2>1, <2>3 DEF Writes
  <2>5. P(o, {})
    BY <2>1, <2>2, <2>3, <2>4 DEF SolvedInto
  <2> QED BY <2>1, <2>5
<1>2. CASE a.size < other.size /\ orwr = other.wr
  <2>1. solve_overlap(list, k, a) = [list |-> [list EXCEPT ![k] = other], rest |-> {}]
    <3>1. solve_overlap(list, k, a) = [list |-> list, rest |-> {}]
      BY <1>t, <1>2 DEF solve_overlap
    <3>2. [list EXCEPT ![k] = list[k]] = list
      OBVIOUS
    <3> QED BY <3>1, <3>2
  <2>2. ~ is_array(other) => Cells(a) \subseteq Cells(other)
    BY <1>t, <1>w, <1>2, ScalarParts
  <2>3. ~ is_array(other) => Writes(other) = Writes(other) \cup Writes(a)
    BY <1>w, <1>2, <2>2 DEF Writes
  <2>4. P(other, {})
    BY <2>1, <2>2, <2>3 DEF SolvedInto
  <2> QED BY <1>t, <2>4
<1>3. CASE a.size < other.size /\ orwr # other.wr
  <2> DEFINE o == [other EXCEPT !.size = a.size, !.wr = orwr]
             r == Scalar(a.addr + a.size, other.size - a.size, other.wr)
  <2>1. /\ o \in Region /\ o.addr = other.addr /\ o.size = a.size /\ o.range = other.range
        /\ o.wr /\ ~ other.wr /\ a.wr
    BY <1>t, <1>w, <1>3 DEF Region
  <2>2. /\ r \in Region /\ r.addr = a.addr + a.size /\ r.size = other.size - a.size
        /\ ~ is_array(r) /\ ~ r.wr
    <3>1. a.addr + a.size \in Nat /\ other.size - a.size \in Nat /\ other.size - a.size >= 1
      BY <1>t, <1>3
    <3> QED BY <1>w, <2>1, <3>1 DEF Scalar, Region, is_array
  <2>3. solve_overlap(list, k, a) = [list |-> [list EXCEPT ![k] = o], rest |-> {r}]
    <3>1. solve_overlap(list, k, a)
            = [list |-> [list EXCEPT ![k].size = a.size, ![k].wr = orwr], rest |-> {r}]
      BY <1>t, <1>3 DEF solve_overlap
    <3>2. [list EXCEPT ![k].size = a.size, ![k].wr = orwr] = [list EXCEPT ![k] = o]
      OBVIOUS
    <3> QED BY <3>1, <3>2
  <2> HIDE DEF o, r
  <2>4. ASSUME ~ is_array(other) PROVE Cells(o) = Cells(a) /\ Cells(other) = Cells(a) \cup Cells(r)
    <3>1. ~ is_array(o) /\ other.size = a.size + r.size
      BY <1>t, <2>1, <2>2, <2>4 DEF is_array
    <3>2. o.addr = a.addr /\ r.addr = a.addr + a.size
      BY <1>w, <2>1, <2>2
    <3>3. Cells(o) = Cells(a)
      BY <2>1, <3>1, <3>2, ScalarParts
    <3>4. Cells(other) = Cells(a) \cup Cells(r)
      BY <1>t, <1>w, <2>2, <2>4, <3>1, <3>2, ScalarParts
    <3> QED BY <3>3, <3>4
  <2>5. ~ is_array(other) => Writes(o) = Writes(other) \cup Writes(a)
    BY <2>1, <2>4 DEF Writes
  <2>6. r.addr + r.size = a.addr + other.size /\ a.addr < r.addr
    BY <1>t, <2>2
  <2>7. P(o, {r})
    BY <2>1, <2>2, <2>3, <2>4, <2>5, <2>6 DEF SolvedInto
  <2> QED BY <2>1, <2>2, <2>7
<1>4. CASE a.size > other.size /\ orwr = a.wr
  <2> DEFINE o == [other EXCEPT !.size = a.size, !.wr = orwr]
  <2>1. o \in Region /\ o.addr = other.addr /\ o.size = a.size /\ o.wr = a.wr /\ o.range = other.range
    BY <1>t, <1>w, <1>4 DEF Region
  <2>2. solve_overlap(list, k, a) = [list |-> [list EXCEPT ![k] = o], rest |-> {}]
    <3>1. solve_overlap(list, k, a)
            = [list |-> [list EXCEPT ![k].size = a.size, ![k].wr = orwr], rest |-> {}]
      BY <1>t, <1>4 DEF solve_overlap
    <3>2. [list EXCEPT ![k].size = a.size, ![k].wr = orwr] = [list EXCEPT ![k] = o]
      OBVIOUS
    <3> QED BY <3>1, <3>2
  <2> HIDE DEF o
  <2>3. ~ is_array(other) => Cells(o) = Cells(a) /\ Cells(other) \subseteq Cells(a)
    BY <1>t, <1>w, <1>4, <2>1, ScalarParts DEF is_array
  <2>4. ~ is_array(other) => Writes(o) = Writes(other) \cup Writes(a)
    BY <1>w, <1>4, <2>1, <2>3 DEF Writes
  <2>5. P(o, {})
    BY <2>1, <2>2, <2>3, <2>4 DEF SolvedInto
  <2> QED BY <2>1, <2>5
<1>5. CASE a.size > other.size /\ orwr # a.wr
  <2> DEFINE r == Scalar(a.addr + other.size, a.size - other.size, a.wr)
  <2>1. ~ a.wr /\ other.wr
    BY <1>w, <1>5
  <2>2. /\ r \in Region /\ r.addr = a.addr + other.size /\ r.size = a.size - other.size
        /\ ~ is_array(r) /\ ~ r.wr
    <3>1. a.addr + other.size \in Nat /\ a.size - other.size \in Nat /\ a.size - other.size >= 1
      BY <1>t, <1>5
    <3>2. r \in Region
      <4>1. a.size - other.size \in Nat \ {0} /\ <<>> \in Seq(Int \X Int)
        BY <3>1
      <4> QED BY <1>w, <3>1, <4>1 DEF Scalar, Region
    <3>3. r.addr = a.addr + other.size /\ r.size = a.size - other.size /\ r.wr = a.wr /\ r.range = <<>>
      BY DEF Scalar
    <3> QED BY <2>1, <3>2, <3>3 DEF is_array
  <2>3. solve_overlap(list, k, a) = [list |-> [list EXCEPT ![k] = other], rest |-> {r}]
    <3>1. solve_overlap(list, k, a) = [list |-> list, rest |-> {r}]
      BY <1>t, <1>5 DEF solve_overlap
    <3>2. [list EXCEPT ![k] = list[k]] = list
      OBVIOUS
    <3> QED BY <3>1, <3>2
  <2> HIDE DEF r
  <2>4. ASSUME ~ is_array(other) PROVE Cells(a) = Cells(other) \cup Cells(r)
    <3>1. a.size = other.size + r.size /\ r.addr = other.addr + other.size
      BY <1>t, <1>w, <2>2
    <3> QED BY <1>t, <1>w, <2>2, <2>4, <3>1, ScalarParts
  <2>5. Writes(other) = Writes(other) \cup Writes(a)
    BY <2>1 DEF Writes
  <2>6. r.addr + r.size = a.addr + a.size /\ a.addr < r.addr
    BY <1>t, <2>2
  <2>7. P(other, {r})
    BY <2>2, <2>3, <2>4, <2>5, <2>6 DEF SolvedInto
  <2> QED BY <1>t, <2>2, <2>7
<1> QED BY <1>t, <1>w, <1>1, <1>2, <1>3, <1>4, <1>5

-----------------------------------------------------------------------------
(***************************************************************************)
(* The cells of a list are those of its regions.                           *)
(***************************************************************************)
LEMMA ListCells ==
  ASSUME NEW list, NEW x
  PROVE  /\ x \in Accessed(list) <=> \E i \in DOMAIN list : x \in Cells(list[i])
         /\ x \in Written(list) <=> \E i \in DOMAIN list : x \in Writes(list[i])
BY DEF Accessed, Written, Writes

(***************************************************************************)
(* A region is replaced by another ...                                     *)
(***************************************************************************)
LEMMA ReplacedCells ==
  ASSUME NEW list \in Seq(Region), NEW k \in DOMAIN list, NEW o
  PROVE  LET new == [list EXCEPT ![k] = o]
         IN  /\ Accessed(new) \cup Cells(list[k]) = Accessed(list) \cup Cells(o)
             /\ Cells(o) \subseteq Accessed(new) /\ Cells(list[k]) \subseteq Accessed(list)
             /\ Writes(list[k]) \subseteq Writes(o) => Written(new) = Written(list) \cup Writes(o)
<1> DEFINE new == [list EXCEPT ![k] = o]
<1>1. DOMAIN new = DOMAIN list /\ new[k] = o /\ \A i \in DOMAIN list \ {k} : new[i] = list[i]
  OBVIOUS
<1> HIDE DEF new
<1>2. \A x : x \in Accessed(new) \cup Cells(list[k]) <=> x \in Accessed(list) \cup Cells(o)
  BY <1>1, ListCells
<1>3. (\A x \in Cells(o) : x \in Accessed(new)) /\ \A x \in Cells(list[k]) : x \in Accessed(list)
  BY <1>1, ListCells
<1>4. ASSUME Writes(list[k]) \subseteq Writes(o) PROVE Written(new) = Written(list) \cup Writes(o)
  <2>1. \A x : x \in Written(new) <=> x \in Written(list) \cup Writes(o)
    BY <1>1, <1>4, ListCells
  <2> QED BY <2>1
<1> QED BY <1>2, <1>3, <1>4 DEF new

(***************************************************************************)
(* ... or put in between others.                                           *)
(***************************************************************************)
LEMMA InsertedCells ==
  ASSUME NEW list \in Seq(Region), NEW k \in 0 .. Len(list), NEW a \in Region
  PROVE  /\ Accessed(InsertAfter(list, k, a)) = Accessed(list) \cup Cells(a)
         /\ Written(InsertAfter(list, k, a)) = Written(list) \cup Writes(a)
<1> DEFINE new == InsertAfter(list, k, a)
<1>1. /\ new \in Seq(Region) /\ Len(new) = Len(list) + 1
      /\ \A i \in 1 .. k : new[i] = list[i]
      /\ new[k + 1] = a
      /\ \A i \in k + 2 .. Len(list) + 1 : new[i] = list[i - 1]
  BY InsertedAt
<1> HIDE DEF new
<1>2. ASSUME NEW i \in DOMAIN new PROVE new[i] = a \/ \E j \in DOMAIN list : new[i] = list[j]
  <2>1. i \in 1 .. k \/ i = k + 1 \/ (i \in k + 2 .. Len(list) + 1 /\ i - 1 \in DOMAIN list)
    BY <1>1
  <2> QED BY <1>1, <2>1
<1>3. ASSUME NEW j \in DOMAIN list PROVE \E i \in DOMAIN new : new[i] = list[j]
  <2>1. CASE j <= k
    BY <1>1, <2>1
  <2>2. CASE j > k
    <3>1. j + 1 \in k + 2 .. Len(list) + 1 /\ j + 1 \in DOMAIN new /\ j + 1 - 1 = j
      BY <1>1, <2>2
    <3> QED BY <1>1, <3>1
  <2> QED BY <2>1, <2>2
<1>4. k + 1 \in DOMAIN new
  BY <1>1
<1>5. ASSUME NEW x PROVE x \in Accessed(new) <=> x \in Accessed(list) \cup Cells(a)
  <2>1. ASSUME NEW i \in DOMAIN new, x \in Cells(new[i]) PROVE x \in Accessed(list) \cup Cells(a)
    BY <1>2, <2>1, ListCells
  <2>2. ASSUME NEW j \in DOMAIN list, x \in Cells(list[j]) PROVE x \in Accessed(new)
    BY <1>3, <2>2, ListCells
  <2>3. x \in Cells(a) => x \in Accessed(new)
    BY <1>1, <1>4, ListCells
  <2> QED BY <2>1, <2>2, <2>3, ListCells
<1>6. ASSUME NEW x PROVE x \in Written(new) <=> x \in Written(list) \cup Writes(a)
  <2>1. ASSUME NEW i \in DOMAIN new, x \in Writes(new[i]) PROVE x \in Written(list) \cup Writes(a)
    BY <1>2, <2>1, ListCells
  <2>2. ASSUME NEW j \in DOMAIN list, x \in Writes(list[j]) PROVE x \in Written(new)
    BY <1>3, <2>2, ListCells
  <2>3. x \in Writes(a) => x \in Written(new)
    BY <1>1, <1>4, ListCells
  <2> QED BY <2>1, <2>2, <2>3, ListCells
<1> QED BY <1>5, <1>6 DEF new

(***************************************************************************)
(* Of the lists of Apart arguments: each region is that of an argument, or *)
(* a part of one that is no array and overlaps none.                       *)
(***************************************************************************)
Fits(r) ==
  IF is_array(r) THEN r \in Actual ELSE \A s \in Actual : is_array(s) => ~ overlaps(r, s)

AllFit(list) == \A i \in DOMAIN list : Fits(list[i])

LEMMA ActualFits == ASSUME Apart, NEW a \in Actual PROVE Fits(a)
BY DEF Apart, Fits

(***************************************************************************)
(* Of two such regions that meet, both or none are arrays.                 *)
(***************************************************************************)
LEMMA FitsAlike ==
  ASSUME Apart, NEW r \in Region, NEW s \in Region, Fits(r), Fits(s), Meets(r, s)
  PROVE  SameKind(r, s)
<1>1. CASE is_array(r) /\ is_array(s)
  <2>1. r \in Actual /\ s \in Actual /\ r.addr = s.addr
    BY <1>1 DEF Fits, Meets
  <2>2. Len(r.range) = Len(s.range)
    BY <1>1, <2>1 DEF Apart
  <2>3. r.range \in Seq(Int \X Int) /\ s.range \in Seq(Int \X Int)
    BY DEF Region
  <2>4. DOMAIN r.range = DOMAIN s.range
    BY <2>2, <2>3
  <2> QED BY <1>1, <2>4 DEF SameKind
<1>2. CASE ~ (is_array(r) /\ is_array(s))
  <2>1. overlaps(r, s)
    BY <1>2 DEF Meets
  <2>2. overlaps(s, r)
    <3>1. r.addr \in Nat /\ r.size \in Nat /\ r.size >= 1 /\ s.addr \in Nat /\ s.size \in Nat /\ s.size >= 1
      BY RegionNumbers
    <3> QED BY <2>1, <3>1 DEF overlaps, overlaps_intervals
  <2> QED BY <1>2, <2>1, <2>2 DEF Fits, SameKind
<1> QED BY <1>1, <1>2

(***************************************************************************)
(* What remains of a region fits if the region does.                       *)
(***************************************************************************)
LEMMA PartFits ==
  ASSUME NEW r \in Region, NEW s \in Region, ~ is_array(r), ~ is_array(s), Fits(s),
         s.addr <= r.addr, r.addr + r.size <= s.addr + s.size
  PROVE  Fits(r)
<1> SUFFICES ASSUME NEW y \in Actual, is_array(y), overlaps(r, y) PROVE overlaps(s, y)
  BY DEF Fits
<1>1. y \in Region
  BY ActualAssumption
<1>2. /\ r.addr \in Nat /\ r.size \in Nat /\ r.size >= 1 /\ s.addr \in Nat /\ s.size \in Nat /\ s.size >= 1
      /\ y.addr \in Nat /\ y.size \in Nat /\ y.size >= 1
  BY <1>1, RegionNumbers
<1> QED BY <1>2 DEF overlaps, overlaps_intervals

-----------------------------------------------------------------------------
(***************************************************************************)
(* One call of insert_in_arglist keeps the list in order and makes it      *)
(* longer only when nothing remains to be inserted; what remains begins    *)
(* after the region at which the call stopped.                             *)
(***************************************************************************)
LEMMA CallStep ==
  ASSUME NEW list \in Seq(Region), Ordered(list), NEW a \in Region
  PROVE  LET s == insert_region(a, list)
             k == Preceding(list, a.addr)
         IN  /\ s = [list |-> s.list, rest |-> s.rest]
             /\ s.list \in Seq(Region) /\ Ordered(s.list)
             /\ \/ s.rest = {} /\ Len(s.list) <= Len(list) + 1
                \/ /\ Len(s.list) = Len(list)
                   /\ \E r \in Region : s.rest = {r} /\ a.addr < r.addr
                   /\ k \in DOMAIN list /\ list[k].addr = a.addr
                   /\ s.list[k].addr = a.addr
<1> DEFINE s == insert_region(a, list)
           k == Preceding(list, a.addr)
<1>t. a.addr \in Nat /\ \A r \in Region : r.addr \in Nat
  BY RegionNumbers
<1>1. k \in 0 .. Len(list) /\ \A i \in DOMAIN list : i <= k <=> list[i].addr <= a.addr
  BY <1>t, PrecedingSplits
<1>2. CASE ~ is_array(a) /\ k > 0 /\ list[k].addr = a.addr
  <2>1. s = solve_overlap(list, k, a) /\ k \in DOMAIN list
    BY <1>1, <1>2 DEF insert_region
  <2>2. PICK o \in Region, rest \in SUBSET Region :
          /\ s = [list |-> [list EXCEPT ![k] = o], rest |-> rest]
          /\ o.addr = list[k].addr /\ o.range = list[k].range
          /\ rest = {} \/ \E r \in Region : rest = {r} /\ a.addr < r.addr
    <3> HIDE DEF s, k
    <3>1. PICK o \in Region, rest \in SUBSET Region : SolvedInto(list, k, a, o, rest)
      BY <1>2, <2>1, Solved DEF k
    <3> QED BY <2>1, <3>1 DEF SolvedInto
  <2> DEFINE new == [list EXCEPT ![k] = o]
  <2>3. /\ new \in Seq(Region) /\ Len(new) = Len(list) /\ DOMAIN new = DOMAIN list
        /\ \A i \in DOMAIN list : new[i].addr = list[i].addr /\ new[i].range = list[i].range
    BY <2>1, <2>2
  <2>4. s.list = new /\ s.rest = rest
    BY <2>2
  <2> HIDE DEF new, s, k
  <2>5. Ordered(new)
    BY <2>3 DEF Ordered, is_array
  <2>6. s = [list |-> s.list, rest |-> s.rest]
    BY <2>2
  <2>7. k \in DOMAIN list /\ list[k].addr = a.addr /\ new[k].addr = a.addr
    BY <1>2, <2>1, <2>3 DEF k
  <2>8. s.list \in Seq(Region) /\ Ordered(s.list) /\ Len(s.list) = Len(list)
    BY <2>3, <2>4, <2>5
  <2>9. /\ s.rest = {} \/ \E r \in Region : s.rest = {r} /\ a.addr < r.addr
        /\ s.list[k].addr = a.addr
    BY <2>2, <2>4, <2>7
  <2>10. \/ s.rest = {} /\ Len(s.list) <= Len(list) + 1
         \/ /\ Len(s.list) = Len(list)
            /\ \E r \in Region : s.rest = {r} /\ a.addr < r.addr
            /\ k \in DOMAIN list /\ list[k].addr = a.addr
            /\ s.list[k].addr = a.addr
    <3>1. Len(list) \in Nat
      OBVIOUS
    <3> QED BY <2>7, <2>8, <2>9, <3>1
  <2> QED BY <2>6, <2>8, <2>10 DEF s, k
<1>3. CASE ~ (~ is_array(a) /\ k > 0 /\ list[k].addr = a.addr)
  <2> DEFINE new == InsertAfter(list, k, a)
  <2>1. s = [list |-> new, rest |-> {}]
    BY <1>3 DEF insert_region
  <2>2. /\ new \in Seq(Region) /\ Len(new) = Len(list) + 1
        /\ \A i \in 1 .. k : new[i] = list[i]
        /\ new[k + 1] = a
        /\ \A i \in k + 2 .. Len(list) + 1 : new[i] = list[i - 1]
    BY <1>1, InsertedAt
  <2> HIDE DEF new
  <2>3. Ordered(new)
    <3> SUFFICES ASSUME NEW i \in DOMAIN new, NEW j \in DOMAIN new, i < j
                 PROVE  \/ new[i].addr < new[j].addr
                        \/ is_array(new[j]) /\ new[i].addr = new[j].addr
      BY DEF Ordered
    <3>n. \A l \in DOMAIN list : list[l].addr \in Nat
      BY <1>t
    <3>i. i \in 1 .. Len(list) + 1 /\ j \in 1 .. Len(list) + 1
      BY <2>2
    <3>1. CASE j <= k
      <4>1. new[i] = list[i] /\ new[j] = list[j] /\ i \in DOMAIN list /\ j \in DOMAIN list
        BY <1>1, <2>2, <3>1, <3>i
      <4> QED BY <4>1 DEF Ordered
    <3>2. CASE j = k + 1
      <4>1. new[i] = list[i] /\ new[j] = a /\ i \in DOMAIN list /\ i <= k
        BY <1>1, <2>2, <3>2, <3>i
      <4>2. list[i].addr <= a.addr
        BY <1>1, <4>1
      <4>3. CASE is_array(a)
        BY <1>t, <3>n, <4>1, <4>2, <4>3
      <4>4. CASE ~ is_array(a)
        <5>1. k > 0 /\ k \in DOMAIN list /\ list[k].addr # a.addr /\ list[k].addr <= a.addr
          BY <1>1, <1>3, <4>1, <4>4
        <5>2. list[i].addr <= list[k].addr
          BY <3>n, <4>1, <5>1 DEF Ordered
        <5> QED BY <1>t, <3>n, <4>1, <5>1, <5>2
      <4> QED BY <4>3, <4>4
    <3>3. CASE j > k + 1
      <4>1. new[j] = list[j - 1] /\ j - 1 \in DOMAIN list /\ ~ (j - 1 <= k)
        <5>1. j \in k + 2 .. Len(list) + 1 /\ j - 1 \in DOMAIN list /\ ~ (j - 1 <= k)
          BY <1>1, <3>3, <3>i
        <5> QED BY <2>2, <5>1
      <4>2. a.addr < list[j - 1].addr
        BY <1>1, <1>t, <3>n, <4>1
      <4>3. CASE i <= k
        <5>1. new[i] = list[i] /\ i \in DOMAIN list /\ list[i].addr <= a.addr
          BY <1>1, <2>2, <3>i, <4>3
        <5> QED BY <1>t, <3>n, <4>1, <4>2, <5>1
      <4>4. CASE i = k + 1
        BY <2>2, <4>1, <4>2, <4>4
      <4>5. CASE i > k + 1
        <5>1. new[i] = list[i - 1] /\ i - 1 \in DOMAIN list /\ i - 1 < j - 1
          BY <1>1, <2>2, <3>i, <4>5
        <5> QED BY <4>1, <5>1 DEF Ordered
      <4> QED BY <1>1, <3>i, <4>3, <4>4, <4>5
    <3> QED BY <1>1, <3>i, <3>1, <3>2, <3>3
  <2> QED BY <2>1, <2>2, <2>3
<1> QED BY <1>2, <1>3

(***************************************************************************)
(* If the regions fit, so do those that the call leaves, and no access is  *)
(* lost or added.                                                          *)
(***************************************************************************)
LEMMA CallFits ==
  ASSUME NEW list \in Seq(Region), Ordered(list), NEW a \in Region, AllFit(list), Fits(a)
  PROVE  LET s == insert_region(a, list)
         IN  /\ AllFit(s.list) /\ \A r \in s.rest : Fits(r)
             /\ Accessed(s.list) \cup UNION { Cells(r) : r \in s.rest } = Accessed(list) \cup Cells(a)
             /\ Written(s.list) \cup UNION { Writes(r) : r \in s.rest } = Written(list) \cup Writes(a)
<1> DEFINE s == insert_region(a, list)
           k == Preceding(list, a.addr)
<1>t. a.addr \in Nat /\ a.size \in Nat /\ a.size >= 1
  BY RegionNumbers
<1>1. k \in 0 .. Len(list)
  BY <1>t, PrecedingSplits
<1>2. CASE ~ is_array(a) /\ k > 0 /\ list[k].addr = a.addr
  <2>1. s = solve_overlap(list, k, a) /\ k \in DOMAIN list
    BY <1>1, <1>2 DEF insert_region
  <2>2. list[k] \in Region /\ list[k].addr = a.addr /\ Fits(list[k]) /\ ~ is_array(a)
    BY <1>2, <2>1 DEF AllFit
  <2> HIDE DEF s, k
  <2>3. list[k].size \in Nat /\ list[k].size >= 1
    BY <2>2, RegionNumbers
  <2>4. ~ is_array(list[k])
    <3>1. a.addr <= a.addr + a.size - 1 /\ a.addr <= list[k].addr + list[k].size - 1
      BY <1>t, <2>2, <2>3
    <3>2. overlaps(a, list[k])
      BY <1>t, <2>2, <3>1, CommonByte
    <3> QED BY <2>2, <3>2 DEF Fits
  <2>5. PICK o \in Region, rest \in SUBSET Region : SolvedInto(list, k, a, o, rest)
    BY <2>1, <2>2, Solved
  <2>6. /\ s = [list |-> [list EXCEPT ![k] = o], rest |-> rest]
        /\ o.addr = a.addr /\ ~ is_array(o) /\ o.size \in {a.size, list[k].size}
        /\ \A r \in rest : /\ ~ is_array(r) /\ ~ r.wr /\ a.addr < r.addr
                           /\ \/ r.addr + r.size = a.addr + a.size
                              \/ r.addr + r.size = a.addr + list[k].size
        /\ Cells(o) \cup UNION { Cells(r) : r \in rest } = Cells(list[k]) \cup Cells(a)
        /\ Writes(o) = Writes(list[k]) \cup Writes(a)
    BY <2>1, <2>2, <2>4, <2>5 DEF is_array, SolvedInto
  <2> DEFINE new == [list EXCEPT ![k] = o]
  <2>7. DOMAIN new = DOMAIN list /\ new[k] = o /\ \A i \in DOMAIN list \ {k} : new[i] = list[i]
    BY <2>1
  <2>8. /\ Accessed(new) \cup Cells(list[k]) = Accessed(list) \cup Cells(o)
        /\ Cells(o) \subseteq Accessed(new) /\ Cells(list[k]) \subseteq Accessed(list)
        /\ Writes(list[k]) \subseteq Writes(o) => Written(new) = Written(list) \cup Writes(o)
    <3>1. k \in DOMAIN list
      BY <2>1
    <3> QED BY <3>1, ReplacedCells, Zenon
  <2>9. s.list = new /\ s.rest = rest
    BY <2>6
  <2> HIDE DEF new
  <2>10. Fits(o)
    <3>1. CASE o.size = a.size
      <4>1. a.addr <= o.addr /\ o.addr + o.size <= a.addr + a.size
        BY <1>t, <2>6, <3>1
      <4> QED BY <2>2, <2>6, <4>1, PartFits
    <3>2. CASE o.size = list[k].size
      <4>1. list[k].addr <= o.addr /\ o.addr + o.size <= list[k].addr + list[k].size
        BY <1>t, <2>2, <2>3, <2>6, <3>2
      <4> QED BY <2>2, <2>4, <2>6, <4>1, PartFits
    <3> QED BY <2>6, <3>1, <3>2
  <2>11. ASSUME NEW r \in rest PROVE Fits(r)
    <3>0. r \in Region /\ r.addr \in Nat /\ r.size \in Nat /\ a.addr <= r.addr /\ ~ is_array(r)
      BY <1>t, <2>6, RegionNumbers
    <3>1. CASE r.addr + r.size = a.addr + a.size
      <4>1. r.addr + r.size <= a.addr + a.size
        BY <1>t, <3>1
      <4> QED BY <2>2, <3>0, <4>1, PartFits
    <3>2. CASE r.addr + r.size = a.addr + list[k].size
      <4>1. list[k].addr <= r.addr /\ r.addr + r.size <= list[k].addr + list[k].size
        BY <1>t, <2>2, <2>3, <3>0, <3>2
      <4> QED BY <2>2, <2>4, <3>0, <4>1, PartFits
    <3> QED BY <2>6, <3>1, <3>2
  <2>12. AllFit(new)
    BY <2>7, <2>10 DEF AllFit
  <2>13. Accessed(new) \cup UNION { Cells(r) : r \in rest } = Accessed(list) \cup Cells(a)
    <3> DEFINE C == UNION { Cells(r) : r \in rest }
    <3>1. Cells(o) \cup C = Cells(list[k]) \cup Cells(a)
      BY <2>6
    <3> HIDE DEF C
    <3>2. Accessed(new) \cup C = Accessed(list) \cup Cells(a)
      <4>1. ASSUME NEW x PROVE x \in Accessed(new) \cup C <=> x \in Accessed(list) \cup Cells(a)
        BY <2>7, <2>8, <3>1, ListCells
      <4> QED BY <4>1
    <3> QED BY <3>2 DEF C
  <2>14. Written(new) \cup UNION { Writes(r) : r \in rest } = Written(list) \cup Writes(a)
    <3>1. UNION { Writes(r) : r \in rest } = {}
      BY <2>6 DEF Writes
    <3>2. Written(new) = Written(list) \cup Writes(list[k]) \cup Writes(a)
      BY <2>6, <2>8
    <3>3. Writes(list[k]) \subseteq Written(list)
      BY <2>1, ListCells
    <3> QED BY <3>1, <3>2, <3>3
  <2> QED BY <2>9, <2>11, <2>12, <2>13, <2>14 DEF s
<1>3. CASE ~ (~ is_array(a) /\ k > 0 /\ list[k].addr = a.addr)
  <2> DEFINE new == InsertAfter(list, k, a)
  <2>1. s = [list |-> new, rest |-> {}]
    BY <1>3 DEF insert_region
  <2>2. Accessed(new) = Accessed(list) \cup Cells(a) /\ Written(new) = Written(list) \cup Writes(a)
    BY <1>1, InsertedCells
  <2>3. AllFit(new)
    <3>1. /\ Len(new) = Len(list) + 1 /\ new \in Seq(Region)
          /\ \A i \in 1 .. k : new[i] = list[i]
          /\ new[k + 1] = a
          /\ \A i \in k + 2 .. Len(list) + 1 : new[i] = list[i - 1]
      BY <1>1, InsertedAt
    <3> HIDE DEF new
    <3> SUFFICES ASSUME NEW i \in DOMAIN new PROVE Fits(new[i])
      BY DEF AllFit
    <3>2. /\ \/ i \in 1 .. k /\ i \in DOMAIN list
             \/ i = k + 1
             \/ i \in k + 2 .. Len(list) + 1 /\ i - 1 \in DOMAIN list
      BY <1>1, <3>1
    <3> QED BY <3>1, <3>2 DEF AllFit
  <2> HIDE DEF new, s
  <2>4. s.list = new /\ s.rest = {}
    BY <2>1
  <2> QED BY <2>2, <2>3, <2>4 DEF s
<1> QED BY <1>2, <1>3

-----------------------------------------------------------------------------
(***************************************************************************)
(* The recursive function of insert_in_arglist is defined: it is what the  *)
(* calls 0 to last return.                                                 *)
(***************************************************************************)
CallFrom(list, a, f, n) ==
  IF n = 0 THEN [list |-> list, rest |-> {a}]
  ELSE IF f[n - 1].rest = {} THEN f[n - 1]
  ELSE insert_region(CHOOSE r \in f[n - 1].rest : TRUE, f[n - 1].list)

LEMMA CallsExist ==
  ASSUME NEW list, NEW a, NEW last \in Nat
  PROVE  \E f : f = [n \in 0 .. last |-> CallFrom(list, a, f, n)]
<1> DEFINE N == 0 .. last
           Done(m, f) == \A n \in N : n <= m => f[n] = CallFrom(list, a, f, n)
           S == { m \in Nat : \E f : f = [n \in N |-> f[n]] /\ Done(m, f) }
<1>1. 0 \in S
  <2> DEFINE f == [n \in N |-> [list |-> list, rest |-> {a}]]
  <2>1. Done(0, f) /\ f = [n \in N |-> f[n]]
    BY DEF CallFrom
  <2> HIDE DEF f, Done
  <2> QED BY <2>1
<1>2. ASSUME NEW m \in Nat, m \in S PROVE m + 1 \in S
  <2>1. PICK f : f = [n \in N |-> f[n]] /\ Done(m, f)
    BY <1>2
  <2> DEFINE g == [n \in N |-> IF n = m + 1 THEN CallFrom(list, a, f, n) ELSE f[n]]
  <2>2. \A n \in N : n <= m => g[n] = f[n]
    OBVIOUS
  <2>3. ASSUME NEW n \in N, n <= m + 1 PROVE g[n] = CallFrom(list, a, g, n)
    <3>1. g[n] = CallFrom(list, a, f, n)
      <4>1. n = m + 1 \/ n <= m
        BY <2>3
      <4> QED BY <2>1, <4>1
    <3>2. CASE n = 0
      BY <3>1, <3>2 DEF CallFrom
    <3>3. CASE n # 0
      <4>1. n - 1 \in N /\ n - 1 <= m
        BY <2>3, <3>3
      <4>2. g[n - 1] = f[n - 1]
        BY <2>2, <4>1
      <4> HIDE DEF g
      <4> QED BY <3>1, <4>2 DEF CallFrom
    <3> QED BY <3>2, <3>3
  <2>4. Done(m + 1, g) /\ g = [n \in N |-> g[n]]
    <3>1. g = [n \in N |-> g[n]]
      OBVIOUS
    <3> HIDE DEF g
    <3> QED BY <2>3, <3>1
  <2> HIDE DEF g, Done
  <2> QED BY <2>4
<1>3. last \in S
  <2> HIDE DEF S
  <2> QED BY <1>1, <1>2, Induct
<1>4. PICK f : f = [n \in N |-> f[n]] /\ Done(last, f)
  BY <1>3
<1>5. \A n \in N : f[n] = CallFrom(list, a, f, n)
  BY <1>4
<1>6. f = [n \in N |-> CallFrom(list, a, f, n)]
  BY <1>4, <1>5
<1> QED BY <1>6

LEMMA CallsUnfold ==
  ASSUME NEW list \in Seq(Region), NEW a
  PROVE  \E f : /\ insert_in_arglist(a, list) = f[Len(list) + 1].list
                /\ \A n \in 0 .. Len(list) + 1 : f[n] = CallFrom(list, a, f, n)
<1> DEFINE last == Len(list) + 1
           f == CHOOSE g : g = [n \in 0 .. last |-> CallFrom(list, a, g, n)]
<1>1. last \in Nat
  OBVIOUS
<1>2. f = [n \in 0 .. last |-> CallFrom(list, a, f, n)]
  <2> HIDE DEF last
  <2> QED BY <1>1, CallsExist
<1>3. insert_in_arglist(a, list) = f[last].list
  BY DEF insert_in_arglist, CallFrom
<1> HIDE DEF f
<1> QED BY <1>2, <1>3

(***************************************************************************)
(* After n calls: the list is in order; the insertion is over, or what     *)
(* remains of the region begins after the n-th region of the list or one   *)
(* that follows it. So it is over after a call for each region of the      *)
(* list, and one more.                                                     *)
(***************************************************************************)
Calls(list, c, n) ==
  /\ c.list \in Seq(Region) /\ Ordered(c.list)
  /\ \/ c.rest = {} /\ Len(c.list) <= Len(list) + 1
     \/ /\ Len(c.list) = Len(list)
        /\ \E r \in Region :
              /\ c.rest = {r}
              /\ n = 0 \/ \E k \in DOMAIN list : n <= k /\ c.list[k].addr < r.addr

LEMMA CallsKeep ==
  ASSUME NEW list \in Seq(Region), NEW c, NEW n \in Nat, Calls(list, c, n), NEW r \in Region, c.rest = {r}
  PROVE  Calls(list, insert_region(r, c.list), n + 1)
<1> DEFINE s == insert_region(r, c.list)
           k == Preceding(c.list, r.addr)
<1>1. c.list \in Seq(Region) /\ Ordered(c.list) /\ Len(c.list) = Len(list)
  BY DEF Calls
<1>2. n = 0 \/ \E m \in DOMAIN list : n <= m /\ c.list[m].addr < r.addr
  BY DEF Calls
<1>3. /\ s.list \in Seq(Region) /\ Ordered(s.list)
      /\ \/ s.rest = {} /\ Len(s.list) <= Len(c.list) + 1
         \/ /\ Len(s.list) = Len(c.list)
            /\ \E q \in Region : s.rest = {q} /\ r.addr < q.addr
            /\ k \in DOMAIN c.list /\ c.list[k].addr = r.addr
            /\ s.list[k].addr = r.addr
  BY <1>1, CallStep
<1>4. DOMAIN c.list = DOMAIN list /\ DOMAIN list = 1 .. Len(list) /\ Len(list) \in Nat
  BY <1>1
<1> HIDE DEF s, k
<1>5. CASE s.rest = {} /\ Len(s.list) <= Len(c.list) + 1
  BY <1>1, <1>3, <1>5 DEF Calls, s
<1>6. ASSUME NEW q \in Region, s.rest = {q}, r.addr < q.addr, Len(s.list) = Len(c.list),
             k \in DOMAIN c.list, c.list[k].addr = r.addr, s.list[k].addr = r.addr
      PROVE  Calls(list, s, n + 1)
  <2>1. n + 1 <= k
    <3>1. CASE n = 0
      BY <1>4, <1>6, <3>1
    <3>2. ASSUME NEW m \in DOMAIN list, n <= m, c.list[m].addr < r.addr PROVE n + 1 <= k
      <4>1. c.list[m] \in Region /\ c.list[k] \in Region /\ m \in DOMAIN c.list
        BY <1>1, <1>4, <1>6
      <4>2. c.list[m].addr \in Nat /\ r.addr \in Nat
        BY <4>1, RegionNumbers
      <4>3. ~ (k < m) /\ k # m
        BY <1>1, <1>6, <3>2, <4>1, <4>2 DEF Ordered
      <4> QED BY <1>4, <1>6, <3>2, <4>3
    <3> QED BY <1>2, <3>1, <3>2
  <2>2. k \in DOMAIN list /\ s.list[k].addr < q.addr
    BY <1>4, <1>6
  <2> QED BY <1>1, <1>3, <1>6, <2>1, <2>2 DEF Calls
<1> QED BY <1>3, <1>5, <1>6 DEF s

(***************************************************************************)
(* The calls of an insertion, the last of which leaves nothing to insert.  *)
(***************************************************************************)
LEMMA InsertCalls ==
  ASSUME NEW list \in Seq(Region), Ordered(list), NEW a \in Region
  PROVE  \E f : /\ insert_in_arglist(a, list) = f[Len(list) + 1].list
                /\ f[0] = [list |-> list, rest |-> {a}]
                /\ \A n \in 0 .. Len(list) :
                      \/ f[n].rest = {} /\ f[n + 1] = f[n]
                      \/ \E r \in Region : f[n].rest = {r} /\ f[n + 1] = insert_region(r, f[n].list)
                /\ \A n \in 0 .. Len(list) + 1 : Calls(list, f[n], n)
                /\ f[Len(list) + 1].rest = {}
<1> DEFINE last == Len(list) + 1
<1>l. last \in Nat /\ DOMAIN list = 1 .. last - 1 /\ Len(list) \in Nat
  OBVIOUS
<1>1. PICK f : /\ insert_in_arglist(a, list) = f[last].list
               /\ \A n \in 0 .. last : f[n] = CallFrom(list, a, f, n)
  BY CallsUnfold
<1> DEFINE S == { n \in Nat : n <= last => Calls(list, f[n], n) }
           Goes(n) == \/ f[n].rest = {} /\ f[n + 1] = f[n]
                      \/ \E r \in Region : f[n].rest = {r} /\ f[n + 1] = insert_region(r, f[n].list)
<1>0. f[0] = [list |-> list, rest |-> {a}]
  <2>1. 0 \in 0 .. last
    BY <1>l
  <2> HIDE DEF last
  <2>2. f[0] = CallFrom(list, a, f, 0)
    BY <1>1, <2>1
  <2> QED BY <2>2 DEF CallFrom
<1>2. ASSUME NEW n \in Nat, n + 1 <= last, Calls(list, f[n], n) PROVE Goes(n)
  <2>2. f[n + 1] = IF f[n].rest = {} THEN f[n]
                   ELSE insert_region(CHOOSE r \in f[n].rest : TRUE, f[n].list)
    <3>1. n + 1 \in 0 .. last /\ n + 1 # 0 /\ n + 1 - 1 = n
      BY <1>l, <1>2
    <3> HIDE DEF last
    <3>2. f[n + 1] = CallFrom(list, a, f, n + 1)
      BY <1>1, <3>1
    <3> QED BY <3>1, <3>2 DEF CallFrom
  <2>3. CASE f[n].rest # {}
    <3>1. PICK r \in Region : f[n].rest = {r}
      BY <1>2, <2>3 DEF Calls
    <3>2. (CHOOSE q \in f[n].rest : TRUE) = r
      BY <3>1
    <3>3. f[n + 1] = insert_region(r, f[n].list)
      BY <2>2, <2>3, <3>2
    <3> QED BY <3>1, <3>3
  <2> QED BY <2>2, <2>3
<1> HIDE DEF last
<1>3. 0 \in S
  BY <1>0 DEF Calls
<1>4. ASSUME NEW n \in Nat, n \in S PROVE n + 1 \in S
  <2> SUFFICES ASSUME n + 1 <= last PROVE Calls(list, f[n + 1], n + 1)
    OBVIOUS
  <2>1. Calls(list, f[n], n)
    BY <1>4, <1>l
  <2>2. Goes(n)
    BY <1>2, <2>1
  <2>3. CASE f[n + 1] = f[n] /\ f[n].rest = {}
    BY <2>1, <2>3 DEF Calls
  <2>4. ASSUME NEW r \in Region, f[n].rest = {r}, f[n + 1] = insert_region(r, f[n].list)
        PROVE  Calls(list, f[n + 1], n + 1)
    BY <2>1, <2>4, CallsKeep
  <2> QED BY <2>2, <2>3, <2>4
<1>5. \A n \in 0 .. last : Calls(list, f[n], n)
  <2>1. Nat \subseteq S
    <3> HIDE DEF S
    <3> QED BY <1>3, <1>4, Induct
  <2>2. \A n \in 0 .. last : n \in Nat /\ n <= last
    BY <1>l
  <2> QED BY <2>1, <2>2
<1>6. f[last].rest = {}
  <2>1. Calls(list, f[last], last) /\ last # 0
    BY <1>5, <1>l DEF last
  <2>2. ~ \E k \in DOMAIN list : last <= k
    BY <1>l
  <2> QED BY <2>1, <2>2 DEF Calls
<1>7. \A n \in 0 .. Len(list) : Goes(n)
  <2>1. \A n \in 0 .. Len(list) : n \in Nat /\ n + 1 <= last /\ n \in 0 .. last
    BY <1>l DEF last
  <2> HIDE DEF Goes
  <2> QED BY <1>2, <1>5, <2>1
<1> QED BY <1>0, <1>1, <1>5, <1>6, <1>7 DEF last

(***************************************************************************)
(* insert_in_arglist keeps the list in order, and makes it longer by one   *)
(* region at the most, however often the region is split.                  *)
(***************************************************************************)
LEMMA InsertOrders ==
  ASSUME NEW list \in Seq(Region), Ordered(list), NEW a \in Region
  PROVE  LET new == insert_in_arglist(a, list)
         IN  new \in Seq(Region) /\ Ordered(new) /\ Len(new) <= Len(list) + 1
<1> DEFINE last == Len(list) + 1
<1>1. PICK f : /\ insert_in_arglist(a, list) = f[last].list
               /\ \A n \in 0 .. last : Calls(list, f[n], n)
               /\ f[last].rest = {}
  BY InsertCalls
<1>2. last \in 0 .. last
  OBVIOUS
<1>3. Calls(list, f[last], last)
  BY <1>1, <1>2
<1> HIDE DEF last
<1>4. f[last].list \in Seq(Region) /\ Ordered(f[last].list) /\ Len(f[last].list) <= Len(list) + 1
  BY <1>1, <1>3 DEF Calls
<1> QED BY <1>1, <1>4

(***************************************************************************)
(* When its regions fit, it neither loses nor adds an access.              *)
(***************************************************************************)
LEMMA InsertFits ==
  ASSUME NEW list \in Seq(Region), Ordered(list), NEW a \in Region, AllFit(list), Fits(a)
  PROVE  LET new == insert_in_arglist(a, list)
         IN  /\ AllFit(new)
             /\ Accessed(new) = Accessed(list) \cup Cells(a)
             /\ Written(new) = Written(list) \cup Writes(a)
<1> DEFINE last == Len(list) + 1
<1>l. last \in Nat /\ Len(list) \in Nat
  OBVIOUS
<1>1. PICK f : /\ insert_in_arglist(a, list) = f[last].list
               /\ f[0] = [list |-> list, rest |-> {a}]
               /\ \A n \in 0 .. Len(list) :
                     \/ f[n].rest = {} /\ f[n + 1] = f[n]
                     \/ \E r \in Region : f[n].rest = {r} /\ f[n + 1] = insert_region(r, f[n].list)
               /\ \A n \in 0 .. last : Calls(list, f[n], n)
               /\ f[last].rest = {}
  BY InsertCalls
<1> DEFINE Same(c) ==
             /\ AllFit(c.list) /\ \A r \in c.rest : Fits(r)
             /\ Accessed(c.list) \cup UNION { Cells(r) : r \in c.rest } = Accessed(list) \cup Cells(a)
             /\ Written(c.list) \cup UNION { Writes(r) : r \in c.rest } = Written(list) \cup Writes(a)
           S == { n \in Nat : n <= last => Same(f[n]) }
<1>2. 0 \in S
  BY <1>1
<1>3. ASSUME NEW n \in Nat, n \in S PROVE n + 1 \in S
  <2> SUFFICES ASSUME n + 1 <= last PROVE Same(f[n + 1])
    OBVIOUS
  <2>0. n \in 0 .. Len(list) /\ n \in 0 .. last /\ n <= last
    BY <1>l
  <2>1. Same(f[n]) /\ Calls(list, f[n], n)
    BY <1>1, <1>3, <2>0
  <2>2. ASSUME NEW r \in Region, f[n].rest = {r}, f[n + 1] = insert_region(r, f[n].list)
        PROVE  Same(f[n + 1])
    <3> DEFINE s == insert_region(r, f[n].list)
    <3>1. /\ AllFit(s.list) /\ \A q \in s.rest : Fits(q)
          /\ Accessed(s.list) \cup UNION { Cells(q) : q \in s.rest } = Accessed(f[n].list) \cup Cells(r)
          /\ Written(s.list) \cup UNION { Writes(q) : q \in s.rest } = Written(f[n].list) \cup Writes(r)
      <4>1. f[n].list \in Seq(Region) /\ Ordered(f[n].list)
        BY <2>1 DEF Calls
      <4>2. AllFit(f[n].list) /\ Fits(r)
        BY <2>1, <2>2
      <4> QED BY <4>1, <4>2, CallFits
    <3>2. UNION { Cells(q) : q \in f[n].rest } = Cells(r) /\ UNION { Writes(q) : q \in f[n].rest } = Writes(r)
      BY <2>2
    <3> HIDE DEF s
    <3>3. Same(s)
      BY <2>1, <3>1, <3>2
    <3> QED BY <2>2, <3>3 DEF s
  <2> HIDE DEF Same
  <2> QED BY <1>1, <2>0, <2>1, <2>2
<1>4. last \in S
  <2> HIDE DEF S, last
  <2> QED BY <1>l, <1>2, <1>3, Induct
<1>5. Same(f[last])
  BY <1>4, <1>l
<1>6. UNION { Cells(r) : r \in f[last].rest } = {} /\ UNION { Writes(r) : r \in f[last].rest } = {}
  BY <1>1
<1> HIDE DEF last
<1> QED BY <1>1, <1>5, <1>6

-----------------------------------------------------------------------------
(***************************************************************************)
(* The lists that fill_args builds are in order and as long as argv.       *)
(***************************************************************************)
Built == TypeOK /\ ListSorted /\ ArgvFits

LEMMA BuiltStart == Init => Built
<1> SUFFICES ASSUME Init PROVE Built
  OBVIOUS
<1>1. \A s \in Side : args[s] = <<>> /\ nargs[s] = 0
  BY DEF Init
<1>2. TypeOK
  <2>1. <<>> \in Seq(Region) /\ 0 \in Nat /\ {} \in SUBSET Actual
    OBVIOUS
  <2> QED BY <2>1 DEF Init, TypeOK
<1> QED BY <1>1, <1>2 DEF Built, ListSorted, ArgvFits

LEMMA BuiltStep == Built /\ [Next]_vars => Built'
<1> SUFFICES ASSUME Built, [Next]_vars PROVE Built'
  OBVIOUS
<1>1. CASE UNCHANGED vars
  BY <1>1 DEF Built, TypeOK, ListSorted, ArgvFits, vars
<1>2. ASSUME NEW s \in Side, NEW a \in Actual, fill_args(s, a) PROVE Built'
  <2> DEFINE new == insert_in_arglist(a, args[s])
  <2>1. /\ args \in [Side -> Seq(Region)] /\ nargs \in [Side -> Nat] /\ actuals \in [Side -> SUBSET Actual]
        /\ args' = [args EXCEPT ![s] = new] /\ nargs' = [nargs EXCEPT ![s] = @ + 1]
        /\ actuals' = [actuals EXCEPT ![s] = @ \cup {a}]
    BY <1>2 DEF Built, TypeOK, fill_args
  <2>2. new \in Seq(Region) /\ Ordered(new) /\ Len(new) <= Len(args[s]) + 1
    <3>1. args[s] \in Seq(Region) /\ Ordered(args[s]) /\ a \in Region
      BY <2>1, ActualAssumption DEF Built, ListSorted, Ordered
    <3> QED BY <3>1, InsertOrders
  <2>3. Len(new) \in Nat /\ Len(args[s]) \in Nat
    BY <2>1, <2>2
  <2> HIDE DEF new
  <2>4. args'[s] = new /\ \A t \in Side \ {s} : args'[t] = args[t]
    BY <2>1
  <2>5. nargs'[s] = nargs[s] + 1 /\ nargs[s] \in Nat /\ \A t \in Side \ {s} : nargs'[t] = nargs[t]
    BY <2>1
  <2>6. TypeOK'
    BY <2>1, <2>2 DEF TypeOK
  <2>7. \A t \in Side : Ordered(args'[t])
    <3>1. \A t \in Side : Ordered(args[t])
      BY DEF Built, ListSorted, Ordered
    <3> QED BY <2>2, <2>4, <3>1
  <2>8. ListSorted'
    BY <2>7 DEF ListSorted, Ordered
  <2>9. ArgvFits'
    <3>1. Len(args[s]) <= nargs[s] /\ \A t \in Side : Len(args[t]) <= nargs[t]
      BY DEF Built, ArgvFits
    <3>2. Len(new) <= nargs[s] + 1
      BY <2>2, <2>3, <2>5, <3>1
    <3> QED BY <2>4, <2>5, <3>1, <3>2 DEF ArgvFits
  <2> QED BY <2>6, <2>8, <2>9 DEF Built
<1> QED BY <1>1, <1>2 DEF Next

LEMMA AlwaysBuilt == Spec => []Built
BY BuiltStart, BuiltStep, PTL DEF Spec

(***************************************************************************)
(* TypeOK: the lists are sequences of regions, and never of an empty one,  *)
(* whatever solve_overlap splits.                                          *)
(***************************************************************************)
THEOREM ListTypes == Spec => []TypeOK
<1>1. Built => TypeOK
  BY DEF Built
<1> QED BY <1>1, AlwaysBuilt, PTL

(***************************************************************************)
(* ListSorted: insert_in_arglist keeps every list in order of address, one *)
(* region per address except for arrays, for all arguments: also those     *)
(* that overlap, or where an array begins where another object does.       *)
(***************************************************************************)
THEOREM ListsInOrder == Spec => []ListSorted
<1>1. Built => ListSorted
  BY DEF Built
<1> QED BY <1>1, AlwaysBuilt, PTL

(***************************************************************************)
(* ArgvFits: a list has no more regions than the call has arguments, so    *)
(* that insert_in_worklist never writes past the end of argv.              *)
(***************************************************************************)
THEOREM ListsFitArgv == Spec => []ArgvFits
<1>1. Built => ArgvFits
  BY DEF Built
<1> QED BY <1>1, AlwaysBuilt, PTL

-----------------------------------------------------------------------------
(***************************************************************************)
(* Of arguments that are Apart, the lists have every access.               *)
(***************************************************************************)
Complete == Built /\ AccessPreserved /\ \A s \in Side : AllFit(args[s])

LEMMA CompleteStart == Init => Complete
<1> SUFFICES ASSUME Init PROVE Complete
  OBVIOUS
<1>1. \A s \in Side : args[s] = <<>> /\ actuals[s] = {}
  BY DEF Init
<1>2. Accessed(<<>>) = {} /\ Written(<<>>) = {}
  BY DEF Accessed, Written
<1>3. AllFit(<<>>)
  BY DEF AllFit
<1>4. CellsOf({}) = {} /\ { b \in {} : b.wr } = {}
  BY DEF CellsOf
<1>5. AccessPreserved
  BY <1>1, <1>2, <1>4 DEF AccessPreserved
<1> QED BY <1>1, <1>3, <1>5, BuiltStart DEF Complete

LEMMA OneMore ==
  ASSUME NEW T, NEW a
  PROVE  /\ CellsOf(T \cup {a}) = CellsOf(T) \cup Cells(a)
         /\ CellsOf({ b \in T \cup {a} : b.wr }) = CellsOf({ b \in T : b.wr }) \cup Writes(a)
<1> DEFINE wr(U) == { b \in U : b.wr }
<1>1. \A U, x : x \in CellsOf(U) <=> \E b \in U : x \in Cells(b)
  BY DEF CellsOf
<1>2. CellsOf({a}) = Cells(a) /\ CellsOf({}) = {}
  BY DEF CellsOf
<1>3. \A U, V : CellsOf(U \cup V) = CellsOf(U) \cup CellsOf(V)
  <2> SUFFICES ASSUME NEW U, NEW V PROVE CellsOf(U \cup V) = CellsOf(U) \cup CellsOf(V)
    OBVIOUS
  <2>1. \A x : x \in CellsOf(U \cup V) <=> x \in CellsOf(U) \cup CellsOf(V)
    BY <1>1
  <2> QED BY <2>1
<1>4. wr(T \cup {a}) = wr(T) \cup (IF a.wr THEN {a} ELSE {})
  OBVIOUS
<1>5. CellsOf(T \cup {a}) = CellsOf(T) \cup Cells(a)
  BY <1>2, <1>3
<1> HIDE DEF wr
<1>6. CellsOf(wr(T \cup {a})) = CellsOf(wr(T)) \cup Writes(a)
  <2>1. CASE a.wr
    <3>1. wr(T \cup {a}) = wr(T) \cup {a} /\ Writes(a) = Cells(a)
      BY <1>4, <2>1 DEF Writes
    <3>2. CellsOf(wr(T) \cup {a}) = CellsOf(wr(T)) \cup CellsOf({a})
      BY <1>3
    <3> QED BY <1>2, <3>1, <3>2
  <2>2. CASE ~ a.wr
    <3>1. wr(T \cup {a}) = wr(T) /\ Writes(a) = {}
      BY <1>4, <2>2 DEF Writes
    <3> QED BY <3>1
  <2> QED BY <2>1, <2>2
<1> QED BY <1>5, <1>6 DEF wr

LEMMA CompleteStep == ASSUME Apart PROVE Complete /\ [Next]_vars => Complete'
<1> SUFFICES ASSUME Complete, [Next]_vars PROVE Complete'
  OBVIOUS
<1>0. Built'
  BY BuiltStep DEF Complete
<1>1. CASE UNCHANGED vars
  BY <1>0, <1>1 DEF Complete, AccessPreserved, vars
<1>2. ASSUME NEW s \in Side, NEW a \in Actual, fill_args(s, a) PROVE Complete'
  <2> DEFINE new == insert_in_arglist(a, args[s])
  <2>1. /\ args \in [Side -> Seq(Region)] /\ actuals \in [Side -> SUBSET Actual]
        /\ args' = [args EXCEPT ![s] = new] /\ actuals' = [actuals EXCEPT ![s] = @ \cup {a}]
    BY <1>2 DEF Complete, Built, TypeOK, fill_args
  <2>2. /\ AllFit(new)
        /\ Accessed(new) = Accessed(args[s]) \cup Cells(a)
        /\ Written(new) = Written(args[s]) \cup Writes(a)
    <3>1. args[s] \in Seq(Region) /\ Ordered(args[s]) /\ a \in Region /\ AllFit(args[s]) /\ Fits(a)
      BY <2>1, ActualAssumption, ActualFits DEF Complete, Built, ListSorted, Ordered
    <3> QED BY <3>1, InsertFits
  <2> HIDE DEF new
  <2>3. /\ args'[s] = new /\ \A t \in Side \ {s} : args'[t] = args[t]
        /\ actuals'[s] = actuals[s] \cup {a} /\ \A t \in Side \ {s} : actuals'[t] = actuals[t]
    BY <2>1
  <2>4. \A t \in Side : AllFit(args'[t])
    BY <2>2, <2>3 DEF Complete
  <2> DEFINE wr(T) == { b \in T : b.wr }
  <2>5. ASSUME NEW t \in Side
        PROVE  Accessed(args'[t]) = CellsOf(actuals'[t]) /\ Written(args'[t]) = CellsOf(wr(actuals'[t]))
    <3>1. Accessed(args[t]) = CellsOf(actuals[t]) /\ Written(args[t]) = CellsOf(wr(actuals[t]))
      BY DEF Complete, AccessPreserved
    <3>2. /\ CellsOf(actuals[s] \cup {a}) = CellsOf(actuals[s]) \cup Cells(a)
          /\ CellsOf(wr(actuals[s] \cup {a})) = CellsOf(wr(actuals[s])) \cup Writes(a)
      BY OneMore
    <3> HIDE DEF wr
    <3>3. CASE t # s
      BY <2>3, <3>1, <3>3
    <3>4. CASE t = s
      BY <2>2, <2>3, <3>1, <3>2, <3>4
    <3> QED BY <3>3, <3>4
  <2>6. AccessPreserved'
    BY <2>5 DEF AccessPreserved
  <2> QED BY <1>0, <2>4, <2>6 DEF Complete
<1> QED BY <1>1, <1>2 DEF Next

LEMMA AlwaysComplete == ASSUME Apart PROVE Spec => []Complete
BY CompleteStart, CompleteStep, PTL DEF Spec

(***************************************************************************)
(* AccessPreserved: however the regions of a call are merged and split     *)
(* (solve_overlap), the list lets the task access, and write, exactly the  *)
(* cells of its arguments.                                                 *)
(***************************************************************************)
THEOREM NoAccessLost == ASSUME Apart PROVE Spec => []AccessPreserved
<1>1. Complete => AccessPreserved
  BY DEF Complete
<1> QED BY <1>1, AlwaysComplete, PTL

-----------------------------------------------------------------------------
(***************************************************************************)
(* Two lists in which the regions that meet are all or none arrays.        *)
(***************************************************************************)
SameKinds(a, b) == \A k \in DOMAIN a, l \in DOMAIN b : Meets(a[k], b[l]) => SameKind(a[k], b[l])

LEMMA FitsAllAlike ==
  ASSUME Apart, NEW a \in Seq(Region), NEW b \in Seq(Region), AllFit(a), AllFit(b)
  PROVE  SameKinds(a, b)
<1> SUFFICES ASSUME NEW k \in DOMAIN a, NEW l \in DOMAIN b, Meets(a[k], b[l])
             PROVE  SameKind(a[k], b[l])
  BY DEF SameKinds
<1>1. a[k] \in Region /\ b[l] \in Region /\ Fits(a[k]) /\ Fits(b[l])
  BY DEF AllFit
<1> QED BY <1>1, FitsAlike

(***************************************************************************)
(* What is left out of the list of the new task belongs to the older one.  *)
(***************************************************************************)
LEMMA RemovedCells ==
  ASSUME NEW a \in Seq(Region), NEW b \in Seq(Region), SameKinds(a, b),
         NEW x \in Accessed(b), x \notin Accessed(RemoveCovered(a, b, FirstConflict(a, b)))
  PROVE  IF is_array(b[FirstConflict(a, b)[2]]) THEN x \in Accessed(a) ELSE x \in Written(a)
<1> DEFINE hit == FirstConflict(a, b)
           left == RemoveCovered(a, b, hit)
<1>1. left # b
  OBVIOUS
<1>2. PICK i \in DOMAIN a, j \in DOMAIN b : hit = <<i, j>> /\ Conflict(a, i, b[j])
  BY <1>1, WalkStops DEF RemoveCovered
<1>3. Covered(a, i, b[j]) /\ left = Without(b, j) /\ hit[2] = j
  BY <1>1, <1>2 DEF RemoveCovered
<1> HIDE DEF left, hit
<1>4. x \in Cells(b[j])
  <2>1. PICK l \in DOMAIN b : x \in Cells(b[l])
    BY ListCells
  <2>2. CASE l # j
    <3>1. PICK k \in DOMAIN left : left[k] = b[l]
      BY <1>3, <2>2, WithoutKeeps
    <3>2. x \in Accessed(left)
      BY <2>1, <3>1, ListCells
    <3> QED BY <3>2 DEF left, hit
  <2> QED BY <2>1, <2>2
<1>5. a[i] \in Region /\ b[j] \in Region /\ \A k \in DOMAIN a : Meets(a[k], b[j]) => SameKind(a[k], b[j])
  BY DEF SameKinds
<1>6. CASE is_array(b[j])
  <2>1. a[i].addr = b[j].addr /\ is_contained_array(b[j], a, i)
    BY <1>2, <1>3, <1>6 DEF Covered, Conflict
  <2>2. PICK k \in DOMAIN a : Cells(b[j]) \subseteq Cells(a[k])
    BY <1>5, <1>6, <2>1, HeldByArray
  <2>3. x \in Accessed(a)
    BY <1>4, <2>2, ListCells
  <2> QED BY <1>3, <1>6, <2>3 DEF hit
<1>7. CASE ~ is_array(b[j])
  <2>1. a[i].wr /\ contains(a[i], b[j])
    BY <1>3, <1>7 DEF Covered
  <2>2. Cells(b[j]) \subseteq Cells(a[i])
    BY <1>5, <1>7, <2>1, HeldByScalar
  <2>3. x \in Written(a)
    BY <1>4, <2>1, <2>2, ListCells DEF Writes
  <2> QED BY <1>3, <1>7, <2>3 DEF hit
<1> QED BY <1>6, <1>7

LEMMA RemovalIsSound == ASSUME Apart PROVE Complete => RemovalSound
<1> SUFFICES ASSUME Complete PROVE RemovalSound
  OBVIOUS
<1> DEFINE a == args["old"]
           b == args["new"]
<1>1. a \in Seq(Region) /\ b \in Seq(Region) /\ AllFit(a) /\ AllFit(b)
  BY DEF Complete, Built, TypeOK, Side
<1>2. SameKinds(a, b)
  BY <1>1, FitsAllAlike
<1> HIDE DEF a, b
<1> DEFINE hit == FirstConflict(a, b)
           left == RemoveCovered(a, b, hit)
           gone == Accessed(b) \ Accessed(left)
<1>3. \A x \in gone : IF is_array(b[hit[2]]) THEN x \in Accessed(a) ELSE x \in Written(a)
  BY <1>1, <1>2, RemovedCells
<1> HIDE DEF hit, left, gone
<1>4. gone # {} => IF is_array(b[hit[2]]) THEN gone \subseteq Accessed(a) ELSE gone \subseteq Written(a)
  BY <1>3
<1> QED BY <1>4 DEF RemovalSound, gone, left, hit, a, b

(***************************************************************************)
(* RemovalSound: a region that insert_in_worklist stops comparing with     *)
(* older tasks is in the cells of the one that the new task waits for, and *)
(* if it is no array, in those which that task writes.                     *)
(***************************************************************************)
THEOREM RemovalLosesNothing == ASSUME Apart PROVE Spec => []RemovalSound
BY RemovalIsSound, AlwaysComplete, PTL

-----------------------------------------------------------------------------
(***************************************************************************)
(* One step of the walk of is_contained at place p.                        *)
(***************************************************************************)
Reaches(r, w) == IF is_array(w) THEN r.addr = w.addr ELSE w.addr + w.size <= r.addr + r.size

ContainStep(w, a, f, p) ==
  IF p[1] > Len(a) \/ p[2] > Len(w) THEN p[2] > Len(w)
  ELSE IF w[p[2]].addr < a[p[1]].addr THEN FALSE
  ELSE IF Reaches(a[p[1]], w[p[2]])
       THEN /\ is_array(w[p[2]]) => is_contained_array(w[p[2]], a, p[1])
            /\ f[<<p[1], p[2] + 1>>]
       ELSE f[<<p[1] + 1, p[2]>>]

LEMMA ContainExists ==
  ASSUME NEW w, NEW a, Len(a) \in Nat, Len(w) \in Nat
  PROVE  \E f : f = [p \in Places(a, w) |-> ContainStep(w, a, f, p)]
<1> DEFINE m == Len(a)
           n == Len(w)
           P == Places(a, w)
           found(p) == is_array(w[p[2]]) => is_contained_array(w[p[2]], a, p[1])
           Stop == { p \in P : w[p[2]].addr < a[p[1]].addr \/ (Reaches(a[p[1]], w[p[2]]) /\ ~ found(p)) }
           Down == { p \in P : ~ Reaches(a[p[1]], w[p[2]]) }
           result == [p \in P |-> (p[1] > m \/ p[2] > n) /\ p[2] > n]
<1>1. result \in [P -> BOOLEAN] /\ Stop \subseteq P /\ Down \subseteq P
  OBVIOUS
<1>2. m \in Nat /\ n \in Nat /\ P = (1 .. m + 1) \X (1 .. n + 1)
  BY DEF Places
<1> HIDE DEF Stop, Down, result, P, found
<1>3. \E f \in [P -> BOOLEAN] : \A p \in P : f[p] = WalkFrom(m, n, Stop, Down, result, f, p)
  <2> HIDE DEF m, n
  <2>1. WalkData(m, n, P, Stop, Down, BOOLEAN, result)
    BY <1>1, <1>2 DEF WalkData
  <2> QED BY <2>1, WalkFunction
<1>4. PICK f \in [P -> BOOLEAN] : \A p \in P : f[p] = WalkFrom(m, n, Stop, Down, result, f, p)
  BY <1>3
<1>5. ASSUME NEW p \in P PROVE f[p] = ContainStep(w, a, f, p)
  <2>1. f[p] = WalkFrom(m, n, Stop, Down, result, f, p)
    BY <1>4
  <2>2. CASE p[1] > m \/ p[2] > n
    <3>1. f[p] = result[p]
      BY <2>1, <2>2 DEF WalkFrom
    <3>2. result[p] = (p[2] > n)
      BY <2>2 DEF result
    <3> QED BY <2>2, <3>1, <3>2 DEF ContainStep
  <2>3. CASE ~ (p[1] > m \/ p[2] > n)
    <3>1. <<p[1] + 1, p[2]>> \in P /\ <<p[1], p[2] + 1>> \in P
      BY <1>2, <2>3
    <3>2. f[<<p[1], p[2] + 1>>] \in BOOLEAN
      BY <3>1
    <3>3. CASE p \in Stop
      <4>1. f[p] = FALSE
        BY <2>1, <2>3, <3>3 DEF WalkFrom, result
      <4>2. ContainStep(w, a, f, p) = FALSE
        BY <2>3, <3>2, <3>3 DEF ContainStep, Stop, found
      <4> QED BY <4>1, <4>2
    <3>4. CASE p \notin Stop /\ p \in Down
      <4>1. f[p] = f[<<p[1] + 1, p[2]>>]
        BY <2>1, <2>3, <3>4 DEF WalkFrom
      <4>2. ~ (w[p[2]].addr < a[p[1]].addr) /\ ~ Reaches(a[p[1]], w[p[2]])
        BY <3>4 DEF Stop, Down
      <4> QED BY <2>3, <4>1, <4>2 DEF ContainStep
    <3>5. CASE p \notin Stop /\ p \notin Down
      <4>1. f[p] = f[<<p[1], p[2] + 1>>]
        BY <2>1, <2>3, <3>5 DEF WalkFrom
      <4>2. ~ (w[p[2]].addr < a[p[1]].addr) /\ Reaches(a[p[1]], w[p[2]]) /\ found(p)
        BY <3>5 DEF Stop, Down
      <4> QED BY <2>3, <3>2, <4>1, <4>2 DEF ContainStep, found
    <3> QED BY <3>3, <3>4, <3>5
  <2> QED BY <2>2, <2>3
<1>6. f = [p \in P |-> ContainStep(w, a, f, p)]
  BY <1>4, <1>5
<1> QED BY <1>6 DEF P

LEMMA ContainUnfolds ==
  ASSUME NEW w, NEW a, Len(a) \in Nat, Len(w) \in Nat
  PROVE  \E f : /\ is_contained(w, a) = f[<<1, 1>>]
                /\ \A p \in Places(a, w) : f[p] = ContainStep(w, a, f, p)
<1> DEFINE f == CHOOSE g : g = [p \in Places(a, w) |-> ContainStep(w, a, g, p)]
<1>1. f = [p \in Places(a, w) |-> ContainStep(w, a, f, p)]
  BY ContainExists
<1>2. is_contained(w, a) = f[<<1, 1>>]
  BY DEF is_contained, ContainStep, Places, Reaches
<1> HIDE DEF f
<1> QED BY <1>1, <1>2

(***************************************************************************)
(* is_contained only accepts a list whose cells the other has.             *)
(***************************************************************************)
LEMMA ContainedCells ==
  ASSUME NEW w \in Seq(Region), NEW a \in Seq(Region), SameKinds(a, w), is_contained(w, a)
  PROVE  Accessed(w) \subseteq Accessed(a)
<1>0. Len(a) \in Nat /\ Len(w) \in Nat
  OBVIOUS
<1>1. PICK f : /\ is_contained(w, a) = f[<<1, 1>>]
               /\ \A p \in Places(a, w) : f[p] = ContainStep(w, a, f, p)
  BY <1>0, ContainUnfolds
<1> DEFINE I == 1 .. Len(a) + 1
           J == 1 .. Len(w) + 1
           Far == Len(a) + Len(w) + 2
           Held(j) == \A l \in j .. Len(w) : Cells(w[l]) \subseteq Accessed(a)
           S == { n \in Nat : \A i \in I, j \in J : i + j + n >= Far /\ f[<<i, j>>] => Held(j) }
<1>w. ASSUME NEW i \in I, NEW j \in J
      PROVE  f[<<i, j>>] =
               IF i > Len(a) \/ j > Len(w) THEN j > Len(w)
               ELSE IF w[j].addr < a[i].addr THEN FALSE
               ELSE IF Reaches(a[i], w[j])
                    THEN /\ is_array(w[j]) => is_contained_array(w[j], a, i)
                         /\ f[<<i, j + 1>>]
                    ELSE f[<<i + 1, j>>]
  <2>1. <<i, j>> \in Places(a, w)
    BY DEF Places
  <2> QED BY <1>1, <2>1 DEF ContainStep
<1>e. ASSUME NEW i \in I, NEW j \in J, i > Len(a) \/ j > Len(w), f[<<i, j>>] PROVE Held(j)
  <2>1. j > Len(w)
    BY <1>w, <1>e
  <2>2. j .. Len(w) = {}
    BY <1>0, <2>1
  <2> QED BY <2>2
<1>2. 0 \in S
  <2> SUFFICES ASSUME NEW i \in I, NEW j \in J, i + j + 0 >= Far, f[<<i, j>>] PROVE Held(j)
    OBVIOUS
  <2>1. i > Len(a)
    BY <1>0
  <2> QED BY <1>e, <2>1
<1>3. ASSUME NEW n \in Nat, n \in S PROVE n + 1 \in S
  <2> SUFFICES ASSUME NEW i \in I, NEW j \in J, i + j + (n + 1) >= Far, f[<<i, j>>] PROVE Held(j)
    OBVIOUS
  <2>1. CASE i > Len(a) \/ j > Len(w)
    BY <1>e, <2>1
  <2>2. CASE ~ (i > Len(a) \/ j > Len(w))
    <3>1. i \in DOMAIN a /\ j \in DOMAIN w /\ a[i] \in Region /\ w[j] \in Region
      BY <1>0, <2>2
    <3>2. i + 1 \in I /\ j + 1 \in J /\ (i + 1) + j + n >= Far /\ i + (j + 1) + n >= Far
      BY <1>0, <2>2
    <3>3. ~ (w[j].addr < a[i].addr)
      BY <1>w, <2>2
    <3>4. CASE ~ Reaches(a[i], w[j])
      <4>1. f[<<i + 1, j>>]
        BY <1>w, <2>2, <3>3, <3>4
      <4> QED BY <1>3, <3>2, <4>1
    <3>5. CASE Reaches(a[i], w[j])
      <4>1. f[<<i, j + 1>>] /\ (is_array(w[j]) => is_contained_array(w[j], a, i))
        BY <1>w, <2>2, <3>3, <3>5
      <4>2. Held(j + 1)
        BY <1>3, <3>2, <4>1
      <4>3. \A k \in DOMAIN a : Meets(a[k], w[j]) => SameKind(a[k], w[j])
        BY <3>1 DEF SameKinds
      <4>4. Cells(w[j]) \subseteq Accessed(a)
        <5>1. CASE is_array(w[j])
          <6>1. a[i].addr = w[j].addr
            BY <3>5, <5>1 DEF Reaches
          <6>2. PICK k \in DOMAIN a : Cells(w[j]) \subseteq Cells(a[k])
            BY <3>1, <4>1, <4>3, <5>1, <6>1, HeldByArray
          <6> QED BY <6>2, ListCells
        <5>2. CASE ~ is_array(w[j])
          <6>1. contains(a[i], w[j])
            <7>1. a[i].addr \in Nat /\ w[j].addr \in Nat
              BY <3>1, RegionNumbers
            <7> QED BY <3>3, <3>5, <5>2, <7>1 DEF Reaches, contains, contains_intervals
          <6>2. Cells(w[j]) \subseteq Cells(a[i])
            BY <3>1, <4>3, <5>2, <6>1, HeldByScalar
          <6> QED BY <3>1, <6>2, ListCells
        <5> QED BY <5>1, <5>2
      <4>5. \A l \in j .. Len(w) : l = j \/ l \in j + 1 .. Len(w)
        BY <1>0
      <4> QED BY <4>2, <4>4, <4>5
    <3> QED BY <3>4, <3>5
  <2> QED BY <2>1, <2>2
<1>4. Far \in S
  <2>1. Far \in Nat
    BY <1>0
  <2> HIDE DEF S
  <2> QED BY <1>2, <1>3, <2>1, Induct
<1>5. Held(1)
  <2>1. 1 \in I /\ 1 \in J /\ 1 + 1 + Far >= Far
    BY <1>0
  <2> HIDE DEF Held, I, J, Far
  <2> QED BY <1>1, <1>4, <2>1
<1>6. ASSUME NEW x \in Accessed(w) PROVE x \in Accessed(a)
  <2>1. PICK l \in DOMAIN w : x \in Cells(w[l])
    BY ListCells
  <2>2. l \in 1 .. Len(w)
    OBVIOUS
  <2> QED BY <1>5, <2>1, <2>2
<1> QED BY <1>6

LEMMA ContainedIsSound == ASSUME Apart PROVE Complete => ContainedSound
<1> SUFFICES ASSUME Complete, is_contained(args["new"], args["old"])
             PROVE  Accessed(args["new"]) \subseteq Accessed(args["old"])
  BY DEF ContainedSound
<1>1. \A s \in Side : args[s] \in Seq(Region) /\ AllFit(args[s])
  BY DEF Complete, Built, TypeOK
<1>2. SameKinds(args["old"], args["new"])
  BY <1>1, FitsAllAlike DEF Side
<1> QED BY <1>1, <1>2, ContainedCells DEF Side

(***************************************************************************)
(* ContainedSound: is_contained, which ends the search for dependencies at *)
(* an ancestor, accepts no task with a cell the ancestor does not declare. *)
(***************************************************************************)
THEOREM ContainedInAncestor == ASSUME Apart PROVE Spec => []ContainedSound
BY ContainedIsSound, AlwaysComplete, PTL

-----------------------------------------------------------------------------
(***************************************************************************)
(* Regions that overlap have a cell in common: a byte, ...                 *)
(***************************************************************************)
LEMMA ScalarsShare ==
  ASSUME NEW r \in Region, NEW s \in Region, ~ is_array(r), ~ is_array(s), overlaps(r, s)
  PROVE  \E x : x \in Cells(r) /\ x \in Cells(s)
<1> DEFINE n == IF r.addr <= s.addr THEN s.addr ELSE r.addr
<1>1. /\ r.addr \in Nat /\ r.size \in Nat /\ r.size >= 1
      /\ s.addr \in Nat /\ s.size \in Nat /\ s.size >= 1
  BY RegionNumbers
<1>2. n \in r.addr .. r.addr + r.size - 1 /\ n \in s.addr .. s.addr + s.size - 1
  BY <1>1 DEF overlaps, overlaps_intervals
<1> HIDE DEF n
<1>3. <<n, <<>>>> \in Cells(r) /\ <<n, <<>>>> \in Cells(s)
  BY <1>2, ScalarCells
<1> QED BY <1>3

(***************************************************************************)
(* ... or an element of the array, if no range is empty.                   *)
(***************************************************************************)
Full(r) == \A d \in DOMAIN r.range : r.range[d][1] <= r.range[d][2]

LEMMA ArraysShare ==
  ASSUME NEW r \in Region, NEW s \in Region, is_array(r), is_array(s), r.addr = s.addr,
         DOMAIN r.range = DOMAIN s.range, Full(r), Full(s),
         \A d \in DOMAIN s.range : overlaps_intervals(s.range[d][1], s.range[d][2],
                                                      r.range[d][1], r.range[d][2])
  PROVE  \E x : x \in Cells(r) /\ x \in Cells(s)
<1> DEFINE at(d) == IF s.range[d][1] <= r.range[d][1] THEN r.range[d][1] ELSE s.range[d][1]
           f == [d \in DOMAIN r.range |-> at(d)]
<1>1. ASSUME NEW d \in DOMAIN r.range
      PROVE  at(d) \in r.range[d][1] .. r.range[d][2] /\ at(d) \in s.range[d][1] .. s.range[d][2]
  <2>1. /\ r.range[d][1] \in Int /\ r.range[d][2] \in Int
        /\ s.range[d][1] \in Int /\ s.range[d][2] \in Int
    BY RangeNumbers
  <2>2. r.range[d][1] <= r.range[d][2] /\ s.range[d][1] <= s.range[d][2]
    BY DEF Full
  <2>3. overlaps_intervals(s.range[d][1], s.range[d][2], r.range[d][1], r.range[d][2])
    OBVIOUS
  <2> QED BY <2>1, <2>2, <2>3 DEF overlaps_intervals
<1> HIDE DEF at
<1>2. /\ f = [d \in DOMAIN r.range |-> f[d]] /\ f = [d \in DOMAIN s.range |-> f[d]]
      /\ \A d \in DOMAIN r.range : f[d] = at(d)
  OBVIOUS
<1> HIDE DEF f
<1>3. <<r.addr, f>> \in Cells(r)
  <2>1. \A d \in DOMAIN r.range : f[d] \in r.range[d][1] .. r.range[d][2]
    BY <1>1, <1>2
  <2> DEFINE x == <<r.addr, f>>
  <2>2. \E g : /\ x = <<r.addr, g>> /\ g = [d \in DOMAIN r.range |-> g[d]]
               /\ \A d \in DOMAIN r.range : g[d] \in r.range[d][1] .. r.range[d][2]
    BY <1>2, <2>1
  <2> HIDE DEF x
  <2>3. x \in Cells(r)
    BY <2>2, ArrayCells
  <2> QED BY <2>3 DEF x
<1>4. <<s.addr, f>> \in Cells(s)
  <2>1. \A d \in DOMAIN s.range : f[d] \in s.range[d][1] .. s.range[d][2]
    BY <1>1, <1>2
  <2> DEFINE x == <<s.addr, f>>
  <2>2. \E g : /\ x = <<s.addr, g>> /\ g = [d \in DOMAIN s.range |-> g[d]]
               /\ \A d \in DOMAIN s.range : g[d] \in s.range[d][1] .. s.range[d][2]
    BY <1>2, <2>1
  <2> HIDE DEF x
  <2>3. x \in Cells(s)
    BY <2>2, ArrayCells
  <2> QED BY <2>3 DEF x
<1> QED BY <1>3, <1>4

(***************************************************************************)
(* The place where the walk stops is one of a conflict.                    *)
(***************************************************************************)
LEMMA HitConflicts ==
  ASSUME NEW a \in Seq(Region), NEW b \in Seq(Region), SameKinds(a, b),
         \A i \in DOMAIN a : Full(a[i]), \A j \in DOMAIN b : Full(b[j]),
         FirstConflict(a, b) # NoConflict
  PROVE  Conflicting(a, b)
<1>1. PICK i \in DOMAIN a, j \in DOMAIN b : Conflict(a, i, b[j])
  BY WalkStops
<1> DEFINE w == b[j]
<1>2. a[i] \in Region /\ w \in Region /\ \A k \in DOMAIN a : Meets(a[k], w) => SameKind(a[k], w)
  BY DEF SameKinds
<1>3. CASE ~ is_array(w)
  <2>1. (a[i].wr \/ w.wr) /\ overlaps(a[i], w)
    BY <1>1, <1>3 DEF Conflict
  <2>2. ~ is_array(a[i])
    BY <1>2, <1>3, <2>1 DEF Meets, SameKind
  <2>3. \E x : x \in Cells(a[i]) /\ x \in Cells(w)
    BY <1>2, <1>3, <2>1, <2>2, ScalarsShare
  <2>4. Clash(a[i], b[j])
    BY <2>1, <2>3 DEF Clash
  <2> QED BY <2>4, ClashDecides
<1>4. CASE is_array(w)
  <2>1. a[i].addr = w.addr /\ overlap_array(w, a, i)
    BY <1>1, <1>4 DEF Conflict
  <2>2. PICK k \in SameArray(w, a, i) :
           /\ w.wr \/ a[k].wr
           /\ \A d \in DOMAIN w.range : overlaps_intervals(w.range[d][1], w.range[d][2],
                                                           a[k].range[d][1], a[k].range[d][2])
    BY <2>1 DEF overlap_array
  <2>3. k \in DOMAIN a /\ a[k] \in Region /\ a[k].addr = w.addr
    BY DEF SameArray
  <2>4. is_array(a[k]) /\ DOMAIN a[k].range = DOMAIN w.range
    <3>1. /\ w.addr \in Nat /\ w.size \in Nat /\ w.size >= 1
          /\ a[k].size \in Nat /\ a[k].size >= 1
      BY <1>2, <2>3, RegionNumbers
    <3>2. w.addr <= a[k].addr + a[k].size - 1 /\ w.addr <= w.addr + w.size - 1
      BY <2>3, <3>1
    <3> HIDE DEF w
    <3>3. /\ w.addr \in Nat /\ a[k].addr <= w.addr /\ w.addr <= w.addr
          /\ w.addr <= a[k].addr + a[k].size - 1 /\ w.addr <= w.addr + w.size - 1
      BY <2>3, <3>1, <3>2
    <3>4. overlaps(a[k], w)
      BY <1>2, <2>3, <3>3, CommonByte
    <3>5. SameKind(a[k], w)
      BY <1>2, <2>3, <3>4 DEF Meets
    <3> QED BY <1>4, <3>5 DEF SameKind
  <2>5. \E x : x \in Cells(a[k]) /\ x \in Cells(w)
    BY <1>2, <1>4, <2>2, <2>3, <2>4, ArraysShare
  <2>6. Clash(a[k], b[j])
    BY <2>2, <2>5 DEF Clash
  <2> QED BY <2>3, <2>6, ClashDecides
<1> QED BY <1>3, <1>4

(***************************************************************************)
(* Lists as Aligned asks for are tidy ...                                  *)
(***************************************************************************)
LEMMA AlignedTidy ==
  ASSUME NEW a \in Seq(Region), Ordered(a), AllFit(a),
         \A i, j \in DOMAIN a : i < j /\ ~ is_array(a[i]) => Disjoint(a[i], a[j])
  PROVE  Tidy(a)
<1> SUFFICES ASSUME NEW i \in DOMAIN a, NEW j \in DOMAIN a, i < j
             PROVE  IF is_array(a[i]) /\ is_array(a[j])
                    THEN a[i].addr <= a[j].addr
                    ELSE a[i].addr < a[j].addr /\ ~ overlaps(a[i], a[j])
  BY DEF Tidy
<1>1. /\ a[i] \in Region /\ a[j] \in Region /\ Fits(a[i]) /\ Fits(a[j])
      /\ \/ a[i].addr < a[j].addr
         \/ is_array(a[j]) /\ a[i].addr = a[j].addr
  BY DEF AllFit, Ordered
<1>2. /\ a[i].addr \in Nat /\ a[i].size \in Nat /\ a[i].size >= 1
      /\ a[j].addr \in Nat /\ a[j].size \in Nat /\ a[j].size >= 1
  BY <1>1, RegionNumbers
<1>3. CASE is_array(a[i]) /\ is_array(a[j])
  BY <1>1, <1>2, <1>3
<1>4. CASE is_array(a[i]) /\ ~ is_array(a[j])
  <2>1. ~ overlaps(a[j], a[i])
    BY <1>1, <1>4 DEF Fits
  <2>2. ~ overlaps(a[i], a[j])
    BY <1>2, <2>1 DEF overlaps, overlaps_intervals
  <2> QED BY <1>1, <1>4, <2>2
<1>5. CASE ~ is_array(a[i]) /\ is_array(a[j])
  <2>1. ~ overlaps(a[i], a[j])
    BY <1>1, <1>5 DEF Fits
  <2>2. a[i].addr # a[j].addr
    BY <1>2, <2>1 DEF overlaps, overlaps_intervals
  <2> QED BY <1>1, <1>5, <2>1, <2>2
<1>6. CASE ~ is_array(a[i]) /\ ~ is_array(a[j])
  <2>1. ~ overlaps(a[i], a[j])
    BY <1>1, <1>6, ScalarsShare DEF Disjoint
  <2> QED BY <1>1, <1>6, <2>1
<1> QED BY <1>3, <1>4, <1>5, <1>6

(***************************************************************************)
(* ... and alike.                                                          *)
(***************************************************************************)
LEMMA AlignedAlike ==
  ASSUME NEW a \in Seq(Region), NEW b \in Seq(Region), SameKinds(a, b),
         \A i \in DOMAIN a, j \in DOMAIN b :
            ~ a[i].wr /\ ~ b[j].wr => Disjoint(a[i], b[j]) \/ Cells(a[i]) = Cells(b[j])
  PROVE  Alike(a, b)
<1> SUFFICES ASSUME NEW i \in DOMAIN a, NEW j \in DOMAIN b, Meets(a[i], b[j])
             PROVE  SameObject(a[i], b[j])
  BY DEF Alike
<1> DEFINE r == a[i]
           s == b[j]
<1>1. r \in Region /\ s \in Region /\ SameKind(r, s)
  BY DEF SameKinds
<1>2. ASSUME ~ is_array(r), ~ r.wr, ~ s.wr PROVE r.addr = s.addr /\ r.size = s.size
  <2>1. ~ is_array(s) /\ overlaps(r, s)
    BY <1>1, <1>2 DEF SameKind, Meets
  <2>2. \E x : x \in Cells(r) /\ x \in Cells(s)
    BY <1>1, <1>2, <2>1, ScalarsShare
  <2>3. Cells(r) = Cells(s)
    BY <1>2, <2>2 DEF Disjoint
  <2> HIDE DEF r, s
  <2>4. ASSUME NEW n PROVE n \in r.addr .. r.addr + r.size - 1 <=> n \in s.addr .. s.addr + s.size - 1
    <3>1. <<n, <<>>>> \in Cells(r) <=> n \in r.addr .. r.addr + r.size - 1
      BY <1>1, <1>2, ScalarCells
    <3>2. <<n, <<>>>> \in Cells(s) <=> n \in s.addr .. s.addr + s.size - 1
      BY <1>1, <2>1, ScalarCells
    <3> QED BY <2>3, <3>1, <3>2
  <2>5. /\ r.addr \in Nat /\ r.size \in Nat /\ r.size >= 1
        /\ s.addr \in Nat /\ s.size \in Nat /\ s.size >= 1
    BY <1>1, RegionNumbers
  <2>6. /\ r.addr \in r.addr .. r.addr + r.size - 1
        /\ r.addr + r.size - 1 \in r.addr .. r.addr + r.size - 1
        /\ s.addr \in s.addr .. s.addr + s.size - 1
        /\ s.addr + s.size - 1 \in s.addr .. s.addr + s.size - 1
    <3>1. \A m, n \in Nat : n >= 1 => m \in m .. m + n - 1 /\ m + n - 1 \in m .. m + n - 1
      OBVIOUS
    <3> QED BY <2>5, <3>1
  <2>7. /\ r.addr \in s.addr .. s.addr + s.size - 1
        /\ r.addr + r.size - 1 \in s.addr .. s.addr + s.size - 1
        /\ s.addr \in r.addr .. r.addr + r.size - 1
        /\ s.addr + s.size - 1 \in r.addr .. r.addr + r.size - 1
    BY <2>4, <2>6
  <2>8. r.addr <= s.addr /\ s.addr <= r.addr
    BY <2>5, <2>7
  <2>9. r.addr + r.size - 1 <= s.addr + s.size - 1 /\ s.addr + s.size - 1 <= r.addr + r.size - 1
    BY <2>5, <2>7
  <2> QED BY <2>5, <2>8, <2>9
<1> QED BY <1>1, <1>2 DEF SameObject

LEMMA AlignedIsComplete == ASSUME Apart, Filled PROVE Complete => AlignedScanComplete
<1> SUFFICES ASSUME Complete, Aligned
             PROVE  ScanFinds <=> Conflicting(args["old"], args["new"])
  BY DEF AlignedScanComplete
<1> DEFINE a == args["old"]
           b == args["new"]
<1>1. \A s \in Side : args[s] \in Seq(Region) /\ AllFit(args[s]) /\ Ordered(args[s])
  BY DEF Complete, Built, TypeOK, ListSorted, Ordered
<1>2. \A s \in Side : \A i \in DOMAIN args[s] : Full(args[s][i])
  <2> SUFFICES ASSUME NEW s \in Side, NEW i \in DOMAIN args[s] PROVE Full(args[s][i])
    OBVIOUS
  <2>1. CASE is_array(args[s][i])
    BY <1>1, <2>1 DEF AllFit, Fits, Filled, Full
  <2>2. CASE ~ is_array(args[s][i])
    BY <2>2 DEF is_array, Full
  <2> QED BY <2>1, <2>2
<1>3. \A s \in Side : Tidy(args[s])
  BY <1>1, AlignedTidy DEF Aligned
<1>4. SameKinds(a, b)
  BY <1>1, FitsAllAlike DEF Side
<1>5. Alike(a, b)
  <2>1. \A i \in DOMAIN a, j \in DOMAIN b :
           ~ a[i].wr /\ ~ b[j].wr => Disjoint(a[i], b[j]) \/ Cells(a[i]) = Cells(b[j])
    BY DEF Aligned
  <2>2. a \in Seq(Region) /\ b \in Seq(Region)
    BY <1>1 DEF Side
  <2> HIDE DEF a, b
  <2> QED BY <1>4, <2>1, <2>2, AlignedAlike
<1>6. /\ a \in Seq(Region) /\ b \in Seq(Region) /\ Tidy(a) /\ Tidy(b)
      /\ (\A i \in DOMAIN a : Full(a[i])) /\ \A j \in DOMAIN b : Full(b[j])
  BY <1>1, <1>2, <1>3 DEF Side
<1> HIDE DEF a, b
<1>7. FirstConflict(a, b) # NoConflict <=> Conflicting(a, b)
  BY <1>4, <1>5, <1>6, WalkFinds, HitConflicts
<1> QED BY <1>7 DEF ScanFinds, a, b

(***************************************************************************)
(* AlignedScanComplete: the merge walk of insert_in_worklist, which        *)
(* compares neighbours only, finds a dependency exactly when one task      *)
(* writes a cell that the other accesses, if no task passes an object with *)
(* a part of it and what both only read are the same objects.              *)
(***************************************************************************)
THEOREM ScanIsExact == ASSUME Apart, Filled PROVE Spec => []AlignedScanComplete
BY AlignedIsComplete, AlwaysComplete, PTL
=============================================================================
