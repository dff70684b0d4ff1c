--------------------------- MODULE FreeListProofs ---------------------------
(***************************************************************************)
(* The free list stays a list, no block is handed out twice, and the pool  *)
(* acts as a stack of blocks, for any memory, threads and number of tags,  *)
(* as long as the head does not change Tags times during one exchange      *)
(* (Timely).                                                               *)
(***************************************************************************)
EXTENDS FreeList, SequenceTheorems, TLAPS

(***************************************************************************)
(* Who has which blocks, as disjoint sets.                                 *)
(***************************************************************************)
Hands(p) == held[p] \cup Members(list[p])

OwnInv ==
  /\ \A p, q \in Proc : p # q => Hands(p) \cap Hands(q) = {}
  /\ \A p \in Proc : /\ held[p] \cap Members(list[p]) = {}
                     /\ Hands(p) \cap (Members(free) \cup unused) = {}
  /\ Members(free) \cap unused = {}
  /\ \A b \in Block : b \in Members(free) \cup unused \/ \E p \in Proc : b \in Hands(p)
  /\ \A i, j \in 1 .. Len(free) : free[i] = free[j] => i = j

(***************************************************************************)
(* A list that is being given back is linked down to its last block.       *)
(***************************************************************************)
Chained(p) ==
  /\ pc[p] = "push" <=> list[p] # <<>>
  /\ \A i \in 1 .. Len(list[p]) - 1 : next[list[p][i]].ptr = list[p][i + 1]
  /\ \A i, j \in 1 .. Len(list[p]) : list[p][i] = list[p][j] => i = j

PushInv == \A p \in Proc : Chained(p)

(***************************************************************************)
(* The tag tells how often the head changed since it was read, as long as  *)
(* that is less than Tags times.  When it did not change, what was read is *)
(* still so, although others may write to next meanwhile: the block that   *)
(* the head points at is in nobody's hands.                                *)
(***************************************************************************)
View(p) ==
  /\ Popping(p) =>
       /\ head_.tag = ret[p].tag + gap[p] \/ head_.tag = ret[p].tag + gap[p] - Tags
       /\ gap[p] = 0 => head_ = ret[p]
  /\ pc[p] = "cas" =>
       /\ ret[p].ptr # Nil
       /\ gap[p] = 0 => nxt[p] = next[ret[p].ptr].ptr

ViewInv == \A p \in Proc : View(p)

IInv == TypeOK /\ OwnInv /\ PushInv /\ ListIsFree /\ ViewInv

-----------------------------------------------------------------------------
(* The operators.                                                          *)

LEMMA MembersFacts ==
  ASSUME NEW s \in Seq(Block)
  PROVE  /\ Members(s) \subseteq Block
         /\ s # <<>> => Len(s) \in Nat \ {0} /\ s[1] \in Members(s) /\ s[Len(s)] \in Members(s)
         /\ \A i \in 1 .. Len(s) : s[i] \in Members(s)
<1>1. Len(s) \in Nat /\ \A i \in 1 .. Len(s) : s[i] \in Block
  OBVIOUS
<1>2. s # <<>> => Len(s) \in Nat \ {0}
  BY EmptySeq
<1> QED
  BY <1>1, <1>2 DEF Members

LEMMA MembersEmpty == Members(<<>>) = {}
<1>1. Len(<<>>) = 0
  BY EmptySeq, Zenon
<1> QED
  BY <1>1 DEF Members

LEMMA ListFacts ==
  ASSUME NEW n \in Nat \ {0}, NEW S \in SUBSET Block, NEW s \in Lists(n, S)
  PROVE  /\ s \in Seq(Block) /\ Len(s) = n /\ s # <<>>
         /\ Members(s) \subseteq S
         /\ \A i, j \in 1 .. n : s[i] = s[j] => i = j
<1>1. s \in [1 .. n -> S] /\ \A i, j \in 1 .. n : s[i] = s[j] => i = j
  BY DEF Lists
<1>2. s \in Seq(S)
  <2>1. s \in UNION {[1 .. m -> S] : m \in Nat}
    BY <1>1
  <2> QED
    BY <2>1, SeqDef, Zenon
<1>3. Len(s) = n
  <2>1. DOMAIN s = 1 .. n /\ DOMAIN s = 1 .. Len(s) /\ Len(s) \in Nat
    BY <1>1, <1>2, LenProperties
  <2> QED
    BY <2>1
<1>4. s \in Seq(Block)
  BY <1>2, SeqMonotonic
<1>5. s # <<>>
  BY <1>3, EmptySeq
<1>6. Members(s) \subseteq S
  BY <1>1, <1>3 DEF Members
<1> QED
  BY <1>1, <1>3, <1>4, <1>5, <1>6

LEMMA LinkedFacts ==
  ASSUME NEW s \in Seq(Block), \A i, j \in 1 .. Len(s) : s[i] = s[j] => i = j,
         NEW h \in Pointer, NEW nx \in [Block -> Pointer]
  PROVE  /\ Linked(nx, s, h) \in [Block -> Pointer]
         /\ \A b \in Block \ Members(s) : Linked(nx, s, h)[b] = nx[b]
         /\ \A i \in 1 .. Len(s) - 1 : Linked(nx, s, h)[s[i]] = [ptr |-> s[i + 1], tag |-> 0]
         /\ s # <<>> => Linked(nx, s, h)[s[Len(s)]] = h
<1> DEFINE L == Linked(nx, s, h)
<1>1. Len(s) \in Nat /\ \A i \in 1 .. Len(s) : s[i] \in Block
  OBVIOUS
<1>2. ASSUME NEW i \in 1 .. Len(s)
      PROVE  /\ s[i] \in Members(s)
             /\ (CHOOSE j \in 1 .. Len(s) : s[j] = s[i]) = i
  BY <1>2 DEF Members
<1>3. ASSUME NEW i \in 1 .. Len(s)
      PROVE  L[s[i]] = IF i = Len(s) THEN h ELSE [ptr |-> s[i + 1], tag |-> 0]
  BY <1>1, <1>2 DEF Linked
<1>4. \A b \in Block \ Members(s) : L[b] = nx[b]
  BY DEF Linked
<1>5. \A b \in Block : L[b] \in Pointer
  <2> TAKE b \in Block
  <2>1. CASE b \in Members(s)
    <3>1. PICK i \in 1 .. Len(s) : s[i] = b
      BY <2>1 DEF Members
    <3>2. i # Len(s) => s[i + 1] \in Block
      BY <1>1
    <3>3. i # Len(s) => [ptr |-> s[i + 1], tag |-> 0] \in Pointer
      BY <3>2, TagsAssumption DEF Pointer
    <3>4. L[s[i]] \in Pointer
      BY <3>3, <1>3, Zenon
    <3> QED
      BY <3>1, <3>4
  <2>2. CASE b \notin Members(s)
    BY <2>2, <1>4
  <2> QED
    BY <2>1, <2>2
<1>6. L \in [Block -> Pointer]
  BY <1>5 DEF Linked
<1>7. s # <<>> => Len(s) \in 1 .. Len(s)
  BY EmptySeq
<1> HIDE DEF L
<1>8. \A i \in 1 .. Len(s) - 1 : L[s[i]] = [ptr |-> s[i + 1], tag |-> 0]
  BY <1>1, <1>3
<1>9. s # <<>> => L[s[Len(s)]] = h
  BY <1>7, <1>3
<1> QED
  BY <1>4, <1>6, <1>8, <1>9 DEF L

LEMMA NextTag ==
  ASSUME NEW x \in 0 .. Tags - 1
  PROVE  (x + 1) % Tags = IF x = Tags - 1 THEN 0 ELSE x + 1
  BY TagsAssumption

(***************************************************************************)
(* What the invariant says of the free list: its first block is that of    *)
(* the head, and a block in somebody's hands is not in it.                 *)
(***************************************************************************)
LEMMA FreeFacts ==
  ASSUME IInv
  PROVE  /\ free = <<>> <=> head_.ptr = Nil
         /\ head_.ptr # Nil => /\ Len(free) \in Nat \ {0} /\ head_.ptr = free[1]
                              /\ head_.ptr \in Members(free)
         /\ \A i \in 1 .. Len(free) : free[i] \in Members(free)
<1>1. free \in Seq(Block)
  BY DEF IInv, TypeOK
<1>2. free # <<>> => free[1] \in Block /\ free[1] \in Members(free) /\ Len(free) \in Nat \ {0}
  BY <1>1, MembersFacts
<1> QED
  BY <1>1, <1>2, MembersFacts, NilAssumption DEF IInv, ListIsFree

LEMMA InitHolds == Init => IInv
<1> SUFFICES ASSUME Init PROVE IInv
  OBVIOUS
<1>1. PICK s \in Lists(ChunkSize, Block) :
        /\ head_ = next_ptr(s[1], Null)
        /\ next = Linked([b \in Block |-> Null], s, Null)
        /\ unused = Block \ Members(s)
        /\ free = s
  BY DEF Init
<1>2. /\ s \in Seq(Block) /\ Len(s) = ChunkSize /\ s # <<>>
      /\ \A i, j \in 1 .. Len(s) : s[i] = s[j] => i = j
  BY ChunkAssumption, ListFacts
<1>3. /\ Members(s) \subseteq Block /\ s[1] \in Block /\ Len(s) \in Nat \ {0}
      /\ \A i \in 1 .. Len(s) : s[i] \in Members(s)
  BY <1>2, MembersFacts
<1>4. Null \in Pointer /\ [b \in Block |-> Null] \in [Block -> Pointer]
  BY TagsAssumption DEF Null, Pointer
<1>5. /\ next \in [Block -> Pointer]
      /\ \A i \in 1 .. Len(s) - 1 : next[s[i]] = [ptr |-> s[i + 1], tag |-> 0]
      /\ next[s[Len(s)]] = Null
  BY <1>1, <1>2, <1>4, LinkedFacts
<1>6. head_ \in Pointer /\ head_.ptr = s[1]
  <2>1. (0 + 1) % Tags \in 0 .. Tags - 1
    BY TagsAssumption, NextTag
  <2> QED
    BY <2>1, <1>1, <1>3 DEF next_ptr, Null, Pointer
<1>7. /\ held = [p \in Proc |-> {}] /\ list = [p \in Proc |-> <<>>]
      /\ pc = [p \in Proc |-> "user"] /\ \A p \in Proc : Members(list[p]) = {}
  BY MembersEmpty DEF Init
<1>8. TypeOK
  <2>1. ret \in [Proc -> Pointer] /\ nxt \in [Proc -> Block \cup {Nil}]
    BY <1>4 DEF Init
  <2>2. gap \in [Proc -> 0 .. Tags - 1] /\ pool_mutex_ \in Proc \cup {Nil}
    BY TagsAssumption DEF Init
  <2>3. list \in [Proc -> Seq(Block)] /\ held \in [Proc -> SUBSET Block] /\ pc \in [Proc -> Place]
    BY <1>7, EmptySeq DEF Place
  <2> QED
    BY <1>1, <1>2, <1>5, <1>6, <2>1, <2>2, <2>3 DEF TypeOK
<1>9. OwnInv
  BY <1>1, <1>2, <1>3, <1>7 DEF OwnInv, Hands
<1>10. PushInv
  <2>1. \A p \in Proc : pc[p] = "user" /\ list[p] = <<>> /\ Len(list[p]) = 0
    BY <1>7, EmptySeq
  <2> QED
    BY <2>1 DEF PushInv, Chained
<1>11. ListIsFree
  <2>1. ASSUME NEW i \in 1 .. Len(s)
        PROVE  next[s[i]].ptr = IF i = Len(s) THEN Nil ELSE s[i + 1]
    <3>1. CASE i = Len(s)
      BY <3>1, <1>5 DEF Null
    <3>2. CASE i # Len(s)
      <4>1. i \in 1 .. Len(s) - 1
        BY <3>2, <1>3
      <4>2. next[s[i]] = [ptr |-> s[i + 1], tag |-> 0]
        BY <4>1, <1>5
      <4> QED
        BY <3>2, <4>2
    <3> QED
      BY <3>1, <3>2
  <2> QED
    BY <1>1, <1>2, <1>6, <2>1 DEF ListIsFree
<1>12. ViewInv
  BY <1>7 DEF ViewInv, View, Popping
<1> QED
  BY <1>8, <1>9, <1>10, <1>11, <1>12 DEF IInv

-----------------------------------------------------------------------------
(***************************************************************************)
(* Steps that neither change the head nor a field next of a block that is  *)
(* not in the hands of their thread leave the list, the lists of others    *)
(* and their views alone.                                                  *)
(***************************************************************************)
LEMMA NextFrame ==
  ASSUME IInv, NEW p \in Proc, head_' = head_, free' = free,
         \A b \in Block \ (Hands(p) \cup unused) : next'[b] = next[b]
  PROVE  /\ ListIsFree'
         /\ head_.ptr # Nil => next'[head_.ptr] = next[head_.ptr]
         /\ \A q \in Proc \ {p} : \A i \in 1 .. Len(list[q]) : next'[list[q][i]] = next[list[q][i]]
<1>t. TypeOK /\ OwnInv /\ ListIsFree
  BY DEF IInv
<1>1. Members(free) \subseteq Block /\ \A i \in 1 .. Len(free) : free[i] \in Members(free)
  BY <1>t, MembersFacts DEF TypeOK
<1>2. \A b \in Members(free) : next'[b] = next[b]
  BY <1>1, <1>t DEF OwnInv
<1>3. ListIsFree'
  BY <1>1, <1>2, <1>t DEF ListIsFree
<1>4. head_.ptr # Nil => next'[head_.ptr] = next[head_.ptr]
  BY <1>2, FreeFacts
<1>5. ASSUME NEW q \in Proc \ {p}, NEW i \in 1 .. Len(list[q])
      PROVE  next'[list[q][i]] = next[list[q][i]]
  <2>1. list[q] \in Seq(Block)
    BY <1>t DEF TypeOK
  <2>2. list[q][i] \in Members(list[q]) /\ list[q][i] \in Block
    BY <2>1, MembersFacts
  <2> QED
    BY <2>2, <1>t DEF OwnInv, Hands
<1> QED
  BY <1>3, <1>4, <1>5

(***************************************************************************)
(* Steps that move no block.                                               *)
(***************************************************************************)
LEMMA SameOwners ==
  ASSUME OwnInv, UNCHANGED <<unused, held, list, free>>
  PROVE  OwnInv'
<1>1. Members(free)' = Members(free) /\ \A p \in Proc : Members(list[p])' = Members(list[p])
  BY DEF Members
<1>2. \A p \in Proc : Hands(p)' = Hands(p)
  BY <1>1 DEF Hands
<1> QED
  BY <1>1, <1>2 DEF OwnInv

(***************************************************************************)
(* A view holds on while the head is the same, and its block.              *)
(***************************************************************************)
LEMMA ViewFrame ==
  ASSUME IInv, UNCHANGED <<head_, ret, nxt, gap>>,
         head_.ptr # Nil => next'[head_.ptr] = next[head_.ptr],
         \A q \in Proc : /\ Popping(q)' => Popping(q)
                         /\ pc'[q] = "cas" => pc[q] = "cas"
  PROVE  ViewInv'
<1> SUFFICES ASSUME NEW q \in Proc PROVE View(q)'
  BY DEF ViewInv
<1>1. View(q)
  BY DEF IInv, ViewInv
<1>2. pc[q] = "cas" => Popping(q)
  BY DEF Popping
<1> QED
  BY <1>1, <1>2 DEF View

(***************************************************************************)
(* Reading the head.                                                       *)
(***************************************************************************)
LEMMA ReadStep ==
  ASSUME IInv, NEW p \in Proc, Load(p) \/ PopFails(p)
  PROVE  IInv'
<1>t. TypeOK /\ OwnInv /\ PushInv /\ ListIsFree /\ ViewInv
  BY DEF IInv
<1>1. /\ pc[p] \in {"user", "load", "cas"}
      /\ ret' = [ret EXCEPT ![p] = head_]
      /\ gap' = [gap EXCEPT ![p] = 0]
      /\ pc' = [pc EXCEPT ![p] = "test"]
      /\ nxt' = nxt \/ nxt' = [nxt EXCEPT ![p] = Nil]
      /\ UNCHANGED <<head_, next, pool_mutex_, unused, held, list, free>>
  BY DEF Load, PopFails, GoTo
<1>2. TypeOK'
  <2>1. ret' \in [Proc -> Pointer] /\ gap' \in [Proc -> 0 .. Tags - 1] /\ pc' \in [Proc -> Place]
    BY <1>1, <1>t, TagsAssumption DEF TypeOK, Place
  <2>2. nxt' \in [Proc -> Block \cup {Nil}]
    BY <1>1, <1>t DEF TypeOK
  <2> QED
    BY <1>1, <2>1, <2>2, <1>t DEF TypeOK
<1>3. OwnInv'
  BY <1>1, <1>t, SameOwners
<1>4. PushInv'
  BY <1>1, <1>t DEF PushInv, Chained, TypeOK
<1>5. ListIsFree'
  BY <1>1, <1>t DEF ListIsFree
<1>6. ViewInv'
  <2> SUFFICES ASSUME NEW q \in Proc PROVE View(q)'
    BY DEF ViewInv
  <2>1. CASE q = p
    BY <2>1, <1>1, <1>t DEF View, TypeOK, Pointer, Popping
  <2>2. CASE q # p
    BY <2>2, <1>1, <1>t DEF ViewInv, View, TypeOK, Popping
  <2> QED
    BY <2>1, <2>2
<1> QED
  BY <1>2, <1>3, <1>4, <1>5, <1>6 DEF IInv

LEMMA TestStep ==
  ASSUME IInv, NEW p \in Proc, Test(p)
  PROVE  IInv'
<1>t. TypeOK /\ OwnInv /\ PushInv /\ ListIsFree /\ ViewInv
  BY DEF IInv
<1>1. /\ pc[p] = "test"
      /\ UNCHANGED <<head_, next, pool_mutex_, unused, held, list, gap, free>>
  BY DEF Test
<1>2. CASE ret[p].ptr = Nil
  <2>1. /\ pc' = [pc EXCEPT ![p] = "grow"]
        /\ ret' = [ret EXCEPT ![p] = Null]
        /\ nxt' = nxt
    BY <1>2 DEF Test, GoTo
  <2>2. TypeOK'
    BY <1>1, <2>1, <1>t, TagsAssumption DEF TypeOK, Place, Null, Pointer
  <2>3. OwnInv' /\ PushInv' /\ ListIsFree'
    BY <1>1, <2>1, <1>t, SameOwners DEF PushInv, Chained, ListIsFree, TypeOK
  <2>4. ViewInv'
    BY <1>1, <2>1, <1>t DEF ViewInv, View, Popping, TypeOK
  <2> QED
    BY <2>2, <2>3, <2>4 DEF IInv
<1>3. CASE ret[p].ptr # Nil
  <2>1. /\ pc' = [pc EXCEPT ![p] = "cas"]
        /\ nxt' = [nxt EXCEPT ![p] = next[ret[p].ptr].ptr]
        /\ ret' = ret
    BY <1>3 DEF Test, GoTo
  <2>2. TypeOK'
    BY <1>1, <1>3, <2>1, <1>t DEF TypeOK, Place, Pointer
  <2>3. OwnInv' /\ PushInv' /\ ListIsFree'
    BY <1>1, <2>1, <1>t, SameOwners DEF PushInv, Chained, ListIsFree, TypeOK
  <2>4. ViewInv'
    BY <1>1, <1>3, <2>1, <1>t DEF ViewInv, View, Popping, TypeOK
  <2> QED
    BY <2>2, <2>3, <2>4 DEF IInv
<1> QED
  BY <1>2, <1>3

-----------------------------------------------------------------------------
(***************************************************************************)
(* A change of the head: the tag goes on by one, and the threads that read *)
(* an older head can tell.                                                 *)
(***************************************************************************)
LEMMA HeadChanges ==
  ASSUME IInv, NEW p \in Proc, NEW new \in Block \cup {Nil}, SetHead(p, new, head_)
  PROVE  /\ head_' \in Pointer /\ head_'.ptr = new
         /\ gap' \in [Proc -> 0 .. Tags - 1]
<1>t. TypeOK
  BY DEF IInv
<1>1. head_.tag \in 0 .. Tags - 1 /\ \A q \in Proc : gap[q] \in 0 .. Tags - 1
  BY <1>t DEF TypeOK, Pointer
<1>2. (head_.tag + 1) % Tags \in 0 .. Tags - 1
  BY <1>1, TagsAssumption, NextTag
<1>3. head_' \in Pointer /\ head_'.ptr = new
  BY <1>2 DEF SetHead, next_ptr, Pointer
<1>4. \A q \in Proc : (IF q # p /\ Popping(q) THEN gap[q] + 1 ELSE 0) \in 0 .. Tags - 1
  BY <1>1, TagsAssumption DEF SetHead, Timely
<1> QED
  BY <1>3, <1>4 DEF SetHead

LEMMA OthersView ==
  ASSUME IInv, NEW p \in Proc, NEW new, SetHead(p, new, head_), NEW q \in Proc \ {p},
         pc'[q] = pc[q], ret'[q] = ret[q], nxt'[q] = nxt[q]
  PROVE  View(q)'
<1>t. TypeOK /\ View(q)
  BY DEF IInv, ViewInv
<1>1. /\ head_.tag \in 0 .. Tags - 1 /\ gap[q] \in 0 .. Tags - 1
      /\ ret[q].tag \in 0 .. Tags - 1
  BY <1>t DEF TypeOK, Pointer
<1>2. CASE Popping(q)
  <2>1. gap'[q] = gap[q] + 1 /\ gap'[q] <= Tags - 1 /\ gap'[q] # 0
    BY <1>1, <1>2, TagsAssumption DEF SetHead, Timely
  <2>2. head_'.tag = IF head_.tag = Tags - 1 THEN 0 ELSE head_.tag + 1
    BY <1>1, NextTag DEF SetHead, next_ptr
  <2>3. head_.tag = ret[q].tag + gap[q] \/ head_.tag = ret[q].tag + gap[q] - Tags
    BY <1>2, <1>t DEF View
  <2>4. head_'.tag = ret[q].tag + gap'[q] \/ head_'.tag = ret[q].tag + gap'[q] - Tags
    BY <1>1, <2>1, <2>2, <2>3, TagsAssumption
  <2>5. pc[q] = "cas" => ret[q].ptr # Nil
    BY <1>t DEF View
  <2> QED
    BY <2>1, <2>4, <2>5 DEF View, Popping
<1>3. CASE ~ Popping(q)
  BY <1>3 DEF View, Popping
<1> QED
  BY <1>2, <1>3

(***************************************************************************)
(* An exchange that succeeds does so because the head never changed: what  *)
(* it installs is the second block of the list.                            *)
(***************************************************************************)
LEMMA PopFacts ==
  ASSUME IInv, NEW p \in Proc, pc[p] = "cas", head_ = ret[p]
  PROVE  /\ free \in Seq(Block) /\ Len(free) \in Nat \ {0} /\ ret[p].ptr = free[1]
         /\ nxt[p] = IF Len(free) = 1 THEN Nil ELSE free[2]
<1>t. TypeOK /\ ListIsFree /\ View(p)
  BY DEF IInv, ViewInv
<1>1. gap[p] = 0
  <2>1. gap[p] \in 0 .. Tags - 1 /\ ret[p].tag \in 0 .. Tags - 1
    BY <1>t DEF TypeOK, Pointer
  <2>2. ret[p].tag = ret[p].tag + gap[p] \/ ret[p].tag = ret[p].tag + gap[p] - Tags
    BY <1>t DEF View, Popping
  <2> QED
    BY <2>1, <2>2, TagsAssumption
<1>2. ret[p].ptr # Nil /\ nxt[p] = next[head_.ptr].ptr
  BY <1>1, <1>t DEF View
<1>3. free \in Seq(Block) /\ Len(free) \in Nat \ {0} /\ head_.ptr = free[1]
  BY <1>2, <1>t, FreeFacts DEF TypeOK
<1>4. next[free[1]].ptr = IF Len(free) = 1 THEN Nil ELSE free[2]
  <2>1. 1 \in 1 .. Len(free) /\ 1 + 1 = 2
    BY <1>3
  <2>2. next[free[1]].ptr = IF 1 = Len(free) THEN Nil ELSE free[1 + 1]
    BY <2>1, <1>t DEF ListIsFree
  <2> QED
    BY <2>1, <2>2
<1> QED
  BY <1>2, <1>3, <1>4

LEMMA PopStep ==
  ASSUME IInv, NEW p \in Proc, Pop(p)
  PROVE  IInv'
<1> DEFINE b == free[1]
<1>t. TypeOK /\ OwnInv /\ PushInv /\ ListIsFree /\ ViewInv
  BY DEF IInv
<1>1. /\ free \in Seq(Block) /\ Len(free) \in Nat \ {0} /\ ret[p].ptr = b /\ b \in Block
      /\ nxt[p] = IF Len(free) = 1 THEN Nil ELSE free[2]
      /\ \A i \in 1 .. Len(free) : free[i] \in Block
  BY PopFacts DEF Pop
<1> HIDE DEF b
<1>2. /\ pc[p] = "cas"
      /\ SetHead(p, nxt[p], head_)
      /\ held' = [held EXCEPT ![p] = @ \cup {b}]
      /\ free' = SubSeq(free, 2, Len(free))
      /\ ret' = [ret EXCEPT ![p] = Null]
      /\ nxt' = [nxt EXCEPT ![p] = Nil]
      /\ pc' = [pc EXCEPT ![p] = "user"]
      /\ UNCHANGED <<next, pool_mutex_, unused, list>>
  BY <1>1 DEF Pop, GoTo
<1>3. /\ free' \in Seq(Block) /\ Len(free') = Len(free) - 1
      /\ \A i \in 1 .. Len(free) - 1 : free'[i] = free[i + 1]
  <2>1. \A i \in 2 .. Len(free) : free[i] \in Block
    BY <1>1
  <2>2. /\ free' \in Seq(Block)
        /\ Len(free') = IF 2 <= Len(free) THEN Len(free) - 2 + 1 ELSE 0
        /\ \A i \in 1 .. Len(free) - 2 + 1 : free'[i] = free[2 + i - 1]
    BY <2>1, <1>1, <1>2, SubSeqProperties
  <2>3. Len(free') = Len(free) - 1
    <3>1. Len(free') = IF 2 <= Len(free) THEN Len(free) - 2 + 1 ELSE 0
      BY <2>2
    <3>2. Len(free) \in Nat \ {0}
      BY <1>1
    <3> QED
      BY <3>1, <3>2
  <2>4. ASSUME NEW i \in 1 .. Len(free) - 1 PROVE free'[i] = free[i + 1]
    <3>1. i \in 1 .. Len(free) - 2 + 1 /\ 2 + i - 1 = i + 1
      BY <1>1
    <3> QED
      BY <2>2, <3>1
  <2> QED
    BY <2>2, <2>3, <2>4
<1>4. head_' \in Pointer /\ head_'.ptr = nxt[p] /\ gap' \in [Proc -> 0 .. Tags - 1]
  <2>1. nxt[p] \in Block \cup {Nil}
    BY <1>t DEF TypeOK
  <2> QED
    BY <2>1, <1>2, HeadChanges
<1>5. TypeOK'
  <2>1. ret' \in [Proc -> Pointer] /\ nxt' \in [Proc -> Block \cup {Nil}]
    BY <1>2, <1>t, TagsAssumption DEF TypeOK, Null, Pointer
  <2>2. held' \in [Proc -> SUBSET Block] /\ pc' \in [Proc -> Place]
    BY <1>1, <1>2, <1>t DEF TypeOK, Place
  <2> QED
    BY <1>2, <1>3, <1>4, <2>1, <2>2, <1>t DEF TypeOK
<1>6. Members(free') = Members(free) \ {b} /\ b \in Members(free)
  <2>1. \A i, j \in 1 .. Len(free) : free[i] = free[j] => i = j
    BY <1>t DEF OwnInv
  <2>2. b \in Members(free)
    BY <1>1 DEF Members, b
  <2>3. ASSUME NEW c \in Members(free') PROVE c \in Members(free) \ {b}
    <3>1. PICK i \in 1 .. Len(free) - 1 : c = free[i + 1]
      BY <1>3 DEF Members
    <3>2. i + 1 \in 1 .. Len(free) /\ i + 1 # 1 /\ 1 \in 1 .. Len(free)
      BY <1>1
    <3> QED
      BY <3>1, <3>2, <2>1 DEF Members, b
  <2>4. ASSUME NEW c \in Members(free) \ {b} PROVE c \in Members(free')
    <3>1. PICK i \in 1 .. Len(free) : c = free[i]
      BY DEF Members
    <3>2. i - 1 \in 1 .. Len(free) - 1 /\ free'[i - 1] = free[i]
      BY <1>1, <1>3, <3>1 DEF b
    <3> QED
      BY <3>1, <3>2, <1>3 DEF Members
  <2> QED
    BY <2>2, <2>3, <2>4
<1>7. OwnInv'
  <2>1. \A q \in Proc : Members(list[q])' = Members(list[q])
    BY <1>2 DEF Members
  <2>2. /\ held'[p] = held[p] \cup {b}
        /\ \A q \in Proc \ {p} : held'[q] = held[q]
    BY <1>2, <1>t DEF TypeOK
  <2>3. \A q \in Proc : Hands(q)' = IF q = p THEN Hands(p) \cup {b} ELSE Hands(q)
    BY <2>1, <2>2 DEF Hands
  <2>4. \A q \in Proc : b \notin Hands(q)
    BY <1>6, <1>t DEF OwnInv
  <2>5. \A i, j \in 1 .. Len(free') : free'[i] = free'[j] => i = j
    BY <1>1, <1>3, <1>t DEF OwnInv
  <2>6. \A q \in Proc : held[q] \subseteq Hands(q) /\ Members(list[q]) \subseteq Hands(q)
    BY DEF Hands
  <2> QED
    BY <1>2, <1>6, <2>1, <2>2, <2>3, <2>4, <2>5, <2>6, <1>t DEF OwnInv
<1>8. PushInv'
  BY <1>2, <1>t DEF PushInv, Chained, TypeOK
<1>9. ListIsFree'
  <2>1. free' = <<>> <=> Len(free) = 1
    BY <1>1, <1>3, EmptySeq
  <2>2. head_'.ptr = IF free' = <<>> THEN Nil ELSE free'[1]
    BY <1>1, <1>3, <1>4, <2>1
  <2>3. \A i \in 1 .. Len(free') : next[free'[i]].ptr = IF i = Len(free') THEN Nil ELSE free'[i + 1]
    <3> SUFFICES ASSUME NEW i \in 1 .. Len(free')
                 PROVE  next[free'[i]].ptr = IF i = Len(free') THEN Nil ELSE free'[i + 1]
      OBVIOUS
    <3>1. i \in 1 .. Len(free) - 1 /\ i + 1 \in 1 .. Len(free) /\ free'[i] = free[i + 1]
      BY <1>1, <1>3
    <3>2. next[free[i + 1]].ptr = IF i + 1 = Len(free) THEN Nil ELSE free[i + 1 + 1]
      BY <3>1, <1>t DEF ListIsFree
    <3>3. i # Len(free') => free'[i + 1] = free[i + 1 + 1]
      BY <1>1, <1>3, <3>1
    <3> QED
      BY <1>1, <1>3, <3>1, <3>2, <3>3
  <2> QED
    BY <1>2, <2>2, <2>3 DEF ListIsFree
<1>10. ViewInv'
  <2> SUFFICES ASSUME NEW q \in Proc PROVE View(q)'
    BY DEF ViewInv
  <2>1. CASE q = p
    BY <2>1, <1>2, <1>t DEF View, Popping, TypeOK
  <2>2. CASE q # p
    <3>1. pc'[q] = pc[q] /\ ret'[q] = ret[q] /\ nxt'[q] = nxt[q]
      BY <2>2, <1>2, <1>t DEF TypeOK
    <3> QED
      BY <2>2, <3>1, <1>2, OthersView
  <2> QED
    BY <2>1, <2>2
<1> QED
  BY <1>5, <1>7, <1>8, <1>9, <1>10 DEF IInv

-----------------------------------------------------------------------------
(***************************************************************************)
(* Linking a list: its blocks leave those in use, or the unused ones.      *)
(***************************************************************************)
LEMMA GiveStep ==
  ASSUME IInv, NEW p \in Proc, pc[p] \in {"user", "grow"},
         NEW s \in Seq(Block), s # <<>>,
         \A i, j \in 1 .. Len(s) : s[i] = s[j] => i = j,
         Members(s) \subseteq held[p] \cup unused,
         list' = [list EXCEPT ![p] = s],
         held' = [held EXCEPT ![p] = @ \ Members(s)],
         unused' = unused \ Members(s),
         next' = Linked(next, s, head_),
         pc' = [pc EXCEPT ![p] = "push"],
         pool_mutex_' \in Proc \cup {Nil},
         UNCHANGED <<head_, ret, nxt, gap, free>>
  PROVE  IInv'
<1>t. TypeOK /\ OwnInv /\ PushInv /\ ListIsFree /\ ViewInv
  BY DEF IInv
<1>1. /\ next' \in [Block -> Pointer]
      /\ \A b \in Block \ Members(s) : next'[b] = next[b]
      /\ \A i \in 1 .. Len(s) - 1 : next'[s[i]] = [ptr |-> s[i + 1], tag |-> 0]
  <2>1. head_ \in Pointer /\ next \in [Block -> Pointer]
    BY <1>t DEF TypeOK
  <2>2. /\ Linked(next, s, head_) \in [Block -> Pointer]
        /\ \A b \in Block \ Members(s) : Linked(next, s, head_)[b] = next[b]
        /\ \A i \in 1 .. Len(s) - 1 :
              Linked(next, s, head_)[s[i]] = [ptr |-> s[i + 1], tag |-> 0]
    BY <2>1, LinkedFacts
  <2> QED
    BY <2>2
<1>2. TypeOK'
  BY <1>1, <1>t DEF TypeOK, Place
<1>3. list[p] = <<>> /\ Members(list[p]) = {}
  BY <1>t, MembersEmpty DEF PushInv, Chained
<1>4. OwnInv'
  <2>1. /\ list'[p] = s /\ \A q \in Proc \ {p} : list'[q] = list[q]
        /\ held'[p] = held[p] \ Members(s) /\ \A q \in Proc \ {p} : held'[q] = held[q]
    BY <1>t DEF TypeOK
  <2>2. Members(list[p])' = Members(s) /\ \A q \in Proc \ {p} : Members(list[q])' = Members(list[q])
    BY <2>1 DEF Members
  <2>3. /\ Hands(p) = held[p] /\ Hands(p)' = held[p] \cup Members(s)
        /\ \A q \in Proc \ {p} : Hands(q)' = Hands(q)
    BY <1>3, <2>1, <2>2 DEF Hands
  <2>4. Members(free)' = Members(free)
    BY DEF Members
  <2> QED
    BY <1>3, <2>1, <2>2, <2>3, <2>4, <1>t DEF OwnInv
<1>5. \A b \in Block \ (Hands(p) \cup unused) : next'[b] = next[b]
  BY <1>1 DEF Hands
<1>6. /\ ListIsFree'
      /\ head_.ptr # Nil => next'[head_.ptr] = next[head_.ptr]
      /\ \A q \in Proc \ {p} : \A i \in 1 .. Len(list[q]) : next'[list[q][i]] = next[list[q][i]]
  BY <1>5, NextFrame
<1>7. PushInv'
  <2> SUFFICES ASSUME NEW q \in Proc PROVE Chained(q)'
    BY DEF PushInv
  <2>1. CASE q = p
    <3>1. list'[p] = s /\ pc'[p] = "push"
      BY <1>t DEF TypeOK
    <3>2. ASSUME NEW i \in 1 .. Len(s) - 1 PROVE next'[s[i]].ptr = s[i + 1]
      <4>1. next'[s[i]] = [ptr |-> s[i + 1], tag |-> 0]
        BY <1>1
      <4> QED
        BY <4>1
    <3> QED
      BY <2>1, <3>1, <3>2 DEF Chained
  <2>2. CASE q # p
    <3>1. list'[q] = list[q] /\ pc'[q] = pc[q] /\ list[q] \in Seq(Block)
      BY <2>2, <1>t DEF TypeOK
    <3>2. ASSUME NEW i \in 1 .. Len(list[q]) - 1 PROVE next'[list[q][i]] = next[list[q][i]]
      <4>1. i \in 1 .. Len(list[q])
        BY <3>1
      <4> QED
        BY <2>2, <4>1, <1>6
    <3>3. Chained(q)
      BY <1>t DEF PushInv
    <3> QED
      BY <3>1, <3>2, <3>3 DEF Chained
  <2> QED
    BY <2>1, <2>2
<1>8. ViewInv'
  <2>1. \A q \in Proc : /\ Popping(q)' => Popping(q)
                        /\ pc'[q] = "cas" => pc[q] = "cas"
    BY <1>t DEF TypeOK, Popping
  <2> QED
    BY <2>1, <1>6, ViewFrame
<1> QED
  BY <1>2, <1>4, <1>6, <1>7, <1>8 DEF IInv

LEMMA FreeStep ==
  ASSUME IInv, NEW p \in Proc, Free(p)
  PROVE  IInv'
<1>t. TypeOK /\ OwnInv
  BY DEF IInv
<1>0. PICK n \in 1 .. ListMax :
        \E s \in Lists(n, held[p]) :
           /\ list' = [list EXCEPT ![p] = s]
           /\ held' = [held EXCEPT ![p] = @ \ Members(s)]
           /\ next' = Linked(next, s, head_)
  BY DEF Free
<1>1. PICK s \in Lists(n, held[p]) :
        /\ list' = [list EXCEPT ![p] = s]
        /\ held' = [held EXCEPT ![p] = @ \ Members(s)]
        /\ next' = Linked(next, s, head_)
  BY <1>0
<1>2. n \in Nat \ {0} /\ held[p] \in SUBSET Block
  BY ListMaxAssumption, <1>t DEF TypeOK
<1>3. /\ s \in Seq(Block) /\ Len(s) = n /\ s # <<>> /\ Members(s) \subseteq held[p]
      /\ \A i, j \in 1 .. n : s[i] = s[j] => i = j
  BY <1>2, ListFacts
<1>4. held[p] \cap unused = {}
  BY <1>t DEF OwnInv, Hands
<1>5. /\ pc[p] = "user" /\ pc' = [pc EXCEPT ![p] = "push"]
      /\ UNCHANGED <<head_, pool_mutex_, unused, ret, nxt, gap, free>>
  BY DEF Free, GoTo
<1>6. unused' = unused \ Members(s) /\ pool_mutex_' \in Proc \cup {Nil}
  BY <1>3, <1>4, <1>5, <1>t DEF TypeOK
<1> QED
  BY <1>1, <1>3, <1>5, <1>6, GiveStep

LEMMA GrowStep ==
  ASSUME IInv, NEW p \in Proc, Grow(p)
  PROVE  IInv'
<1>t. TypeOK /\ OwnInv
  BY DEF IInv
<1>1. PICK s \in Lists(ChunkSize, unused) :
        /\ list' = [list EXCEPT ![p] = s]
        /\ unused' = unused \ Members(s)
        /\ next' = Linked(next, s, head_)
  BY DEF Grow
<1>3. /\ s \in Seq(Block) /\ Len(s) = ChunkSize /\ s # <<>> /\ Members(s) \subseteq unused
      /\ \A i, j \in 1 .. ChunkSize : s[i] = s[j] => i = j
  BY ChunkAssumption, ListFacts, <1>t DEF TypeOK
<1>4. held[p] \cap unused = {}
  BY <1>t DEF OwnInv, Hands
<1>5. /\ pc[p] = "grow" /\ pc' = [pc EXCEPT ![p] = "push"] /\ pool_mutex_' = p
      /\ UNCHANGED <<head_, held, ret, nxt, gap, free>>
  BY DEF Grow, GoTo
<1>6. held' = [held EXCEPT ![p] = @ \ Members(s)]
  <2>1. held[p] \ Members(s) = held[p]
    BY <1>3, <1>4
  <2> QED
    BY <2>1, <1>5, <1>t DEF TypeOK
<1> QED
  BY <1>1, <1>3, <1>5, <1>6, GiveStep

(***************************************************************************)
(* Writes to a field next of a block in the hands of the thread.           *)
(***************************************************************************)
LEMMA UseStep ==
  ASSUME IInv, NEW p \in Proc, Use(p)
  PROVE  IInv'
<1>t. TypeOK /\ OwnInv /\ PushInv
  BY DEF IInv
<1>1. PICK b \in held[p], c \in held[p] \cup {Nil} : next' = [next EXCEPT ![b] = [ptr |-> c, tag |-> 0]]
  BY DEF Use
<1>2. pc[p] = "user" /\ UNCHANGED <<head_, pool_mutex_, unused, held, pc, ret, nxt, list, gap, free>>
  BY DEF Use, local
<1>3. TypeOK'
  <2>1. [ptr |-> c, tag |-> 0] \in Pointer
    BY <1>t, TagsAssumption DEF TypeOK, Pointer
  <2> QED
    BY <1>1, <1>2, <2>1, <1>t DEF TypeOK
<1>4. \A d \in Block \ (Hands(p) \cup unused) : next'[d] = next[d]
  BY <1>1, <1>t DEF TypeOK, Hands
<1>5. /\ ListIsFree'
      /\ head_.ptr # Nil => next'[head_.ptr] = next[head_.ptr]
      /\ \A q \in Proc \ {p} : \A i \in 1 .. Len(list[q]) : next'[list[q][i]] = next[list[q][i]]
  BY <1>2, <1>4, NextFrame
<1>6. PushInv'
  <2> SUFFICES ASSUME NEW q \in Proc PROVE Chained(q)'
    BY DEF PushInv
  <2>1. CASE q = p
    <3>1. list[p] = <<>> /\ list'[p] = <<>> /\ Len(<<>>) = 0
      BY <1>2, <1>t, EmptySeq DEF PushInv, Chained
    <3> QED
      BY <2>1, <1>2, <3>1 DEF Chained
  <2>2. CASE q # p
    <3>1. list[q] \in Seq(Block)
      BY <1>t DEF TypeOK
    <3>2. \A i \in 1 .. Len(list[q]) - 1 : i \in 1 .. Len(list[q])
      BY <3>1
    <3> QED
      BY <2>2, <1>2, <3>2, <1>5, <1>t DEF PushInv, Chained
  <2> QED
    BY <2>1, <2>2
<1>7. ViewInv'
  BY <1>2, <1>5, ViewFrame DEF Popping
<1>8. OwnInv'
  BY <1>2, <1>t, SameOwners
<1> QED
  BY <1>3, <1>5, <1>6, <1>7, <1>8 DEF IInv

LEMMA PushFailsStep ==
  ASSUME IInv, NEW p \in Proc, PushFails(p)
  PROVE  IInv'
<1> DEFINE l == list[p]
<1>t. TypeOK /\ OwnInv /\ PushInv
  BY DEF IInv
<1>1. /\ pc[p] = "push" /\ next' = [next EXCEPT ![l[Len(l)]] = head_]
      /\ UNCHANGED <<head_, pool_mutex_, unused, held, pc, ret, nxt, list, gap, free>>
  BY DEF PushFails, local, Last
<1>2. /\ l \in Seq(Block) /\ l # <<>> /\ Len(l) \in Nat \ {0} /\ l[Len(l)] \in Members(l)
      /\ Members(l) \subseteq Block /\ l[Len(l)] \in Block
  <2>1. l \in Seq(Block) /\ l # <<>>
    BY <1>1, <1>t DEF TypeOK, PushInv, Chained
  <2> QED
    BY <2>1, MembersFacts
<1>3. TypeOK'
  BY <1>1, <1>2, <1>t DEF TypeOK
<1>4. \A d \in Block \ (Hands(p) \cup unused) : next'[d] = next[d]
  BY <1>1, <1>2, <1>t DEF TypeOK, Hands
<1>5. /\ ListIsFree'
      /\ head_.ptr # Nil => next'[head_.ptr] = next[head_.ptr]
      /\ \A q \in Proc \ {p} : \A i \in 1 .. Len(list[q]) : next'[list[q][i]] = next[list[q][i]]
  BY <1>1, <1>4, NextFrame
<1>6. PushInv'
  <2> SUFFICES ASSUME NEW q \in Proc PROVE Chained(q)'
    BY DEF PushInv
  <2>1. CASE q = p
    <3>1. ASSUME NEW i \in 1 .. Len(l) - 1 PROVE next'[l[i]] = next[l[i]]
      <4>1. i \in 1 .. Len(l) /\ Len(l) \in 1 .. Len(l) /\ i # Len(l)
        BY <1>2
      <4>2. l[i] # l[Len(l)] /\ l[i] \in Block
        BY <4>1, <1>2, <1>t DEF PushInv, Chained
      <4> QED
        BY <4>2, <1>1, <1>t DEF TypeOK
    <3> QED
      BY <2>1, <1>1, <3>1, <1>t DEF PushInv, Chained
  <2>2. CASE q # p
    <3>1. list[q] \in Seq(Block)
      BY <1>t DEF TypeOK
    <3>2. \A i \in 1 .. Len(list[q]) - 1 : i \in 1 .. Len(list[q])
      BY <3>1
    <3> QED
      BY <2>2, <1>1, <3>2, <1>5, <1>t DEF PushInv, Chained
  <2> QED
    BY <2>1, <2>2
<1>7. ViewInv'
  BY <1>1, <1>5, ViewFrame DEF Popping
<1>8. OwnInv'
  BY <1>1, <1>t, SameOwners
<1> QED
  BY <1>3, <1>5, <1>6, <1>7, <1>8 DEF IInv

(***************************************************************************)
(* The exchange that gives a list back: the next of its last block is the  *)
(* head, so that the two lists are one.                                    *)
(***************************************************************************)
LEMMA PushStep ==
  ASSUME IInv, NEW p \in Proc, Push(p)
  PROVE  IInv'
<1> DEFINE l == list[p]
           m == Len(list[p])
           n == Len(free)
<1>t. TypeOK /\ OwnInv /\ PushInv /\ ListIsFree /\ ViewInv /\ Chained(p)
  BY DEF IInv, PushInv
<1>1. /\ pc[p] = "push" /\ head_ = next[l[m]]
      /\ SetHead(p, l[1], head_)
      /\ free' = l \o free
      /\ list' = [list EXCEPT ![p] = <<>>]
      /\ pool_mutex_' \in {Nil, pool_mutex_}
      /\ pc' = [pc EXCEPT ![p] = "load"] \/ pc' = [pc EXCEPT ![p] = "user"]
      /\ UNCHANGED <<next, unused, held, ret, nxt>>
  BY DEF Push, GoTo, Last
<1>2. /\ l \in Seq(Block) /\ m \in Nat \ {0}
      /\ \A i \in 1 .. m : l[i] \in Block /\ l[i] \in Members(l)
      /\ free \in Seq(Block) /\ n \in Nat
      /\ \A i \in 1 .. n : free[i] \in Block /\ free[i] \in Members(free)
  <2>1. l \in Seq(Block) /\ l # <<>> /\ free \in Seq(Block)
    BY <1>1, <1>t DEF TypeOK, Chained
  <2> QED
    BY <2>1, MembersFacts
<1>3. /\ free' \in Seq(Block) /\ Len(free') = m + n
      /\ \A i \in 1 .. m + n : free'[i] = IF i <= m THEN l[i] ELSE free[i - m]
  BY <1>1, <1>2, ConcatProperties
<1>4. /\ \A i \in 1 .. m - 1 : next[l[i]].ptr = l[i + 1]
      /\ \A i, j \in 1 .. m : l[i] = l[j] => i = j
  BY <1>t DEF Chained
<1>5. l[1] \in Block \cup {Nil}
  BY <1>2
<1>6. head_' \in Pointer /\ head_'.ptr = l[1] /\ gap' \in [Proc -> 0 .. Tags - 1]
  BY <1>1, <1>5, HeadChanges
<1>7. Members(l) \cap Members(free) = {}
  BY <1>t DEF OwnInv, Hands
<1> HIDE DEF l, m, n
<1>8. TypeOK'
  <2>1. list' \in [Proc -> Seq(Block)] /\ pc' \in [Proc -> Place]
    BY <1>1, <1>t, EmptySeq DEF TypeOK, Place
  <2> QED
    BY <1>1, <1>3, <1>6, <2>1, <1>t DEF TypeOK
<1>9. Members(free)' = Members(l) \cup Members(free)
  <2>1. \A i \in 1 .. m : i \in 1 .. m + n /\ free'[i] = l[i]
    BY <1>2, <1>3
  <2>2. \A i \in 1 .. n : i + m \in 1 .. m + n /\ free'[i + m] = free[i]
    BY <1>2, <1>3
  <2>3. ASSUME NEW b \in Members(free)' PROVE b \in Members(l) \cup Members(free)
    <3>1. PICK i \in 1 .. m + n : b = free'[i]
      BY <1>3 DEF Members
    <3>2. i \in 1 .. m \/ i - m \in 1 .. n
      BY <1>2
    <3> QED
      BY <3>1, <3>2, <1>2, <1>3
  <2>4. ASSUME NEW b \in Members(l) PROVE b \in Members(free)'
    BY <2>1, <1>3 DEF Members, m, l
  <2>5. ASSUME NEW b \in Members(free) PROVE b \in Members(free)'
    BY <2>2, <1>3 DEF Members, n
  <2> QED
    BY <2>3, <2>4, <2>5
<1>10. OwnInv'
  <2>1. /\ list'[p] = <<>> /\ \A q \in Proc \ {p} : list'[q] = list[q]
    BY <1>1, <1>t DEF TypeOK
  <2>2. Members(list[p])' = {} /\ \A q \in Proc \ {p} : Members(list[q])' = Members(list[q])
    BY <2>1, MembersEmpty DEF Members
  <2>3. /\ Hands(p) = held[p] \cup Members(l) /\ Hands(p)' = held[p]
        /\ \A q \in Proc \ {p} : Hands(q)' = Hands(q)
    BY <1>1, <2>2 DEF Hands, l
  <2>4. \A i, j \in 1 .. m + n : free'[i] = free'[j] => i = j
    <3> SUFFICES ASSUME NEW i \in 1 .. m + n, NEW j \in 1 .. m + n, free'[i] = free'[j]
                 PROVE  i = j
      OBVIOUS
    <3>1. CASE i <= m /\ j <= m
      <4>1. i \in 1 .. m /\ j \in 1 .. m
        BY <3>1, <1>2
      <4> QED
        BY <3>1, <4>1, <1>3, <1>4
    <3>2. CASE i > m /\ j > m
      <4>1. i - m \in 1 .. n /\ j - m \in 1 .. n
        BY <3>2, <1>2
      <4>2. free[i - m] = free[j - m]
        BY <3>2, <1>2, <1>3
      <4>3. i - m = j - m
        BY <4>1, <4>2, <1>t DEF OwnInv, n
      <4> QED
        BY <4>3, <1>2
    <3>3. CASE i <= m /\ j > m
      <4>1. i \in 1 .. m /\ j - m \in 1 .. n /\ ~ (j <= m)
        BY <3>3, <1>2
      <4>2. free'[i] = l[i] /\ free'[j] = free[j - m]
        BY <3>3, <4>1, <1>3
      <4>3. free'[i] \in Members(l) /\ free'[j] \in Members(free)
        BY <4>1, <4>2, <1>2
      <4> QED
        BY <4>3, <1>7
    <3>4. CASE i > m /\ j <= m
      <4>1. j \in 1 .. m /\ i - m \in 1 .. n /\ ~ (i <= m)
        BY <3>4, <1>2
      <4>2. free'[j] = l[j] /\ free'[i] = free[i - m]
        BY <3>4, <4>1, <1>3
      <4>3. free'[j] \in Members(l) /\ free'[i] \in Members(free)
        BY <4>1, <4>2, <1>2
      <4> QED
        BY <4>3, <1>7
    <3> QED
      BY <3>1, <3>2, <3>3, <3>4, <1>2
  <2>5. \A q \in Proc : held'[q] = held[q] /\ unused' = unused
    BY <1>1
  <2>6. Len(free') = m + n
    BY <1>3
  <2> QED
    BY <1>9, <2>2, <2>3, <2>4, <2>5, <2>6, <1>t DEF OwnInv, l
<1>11. PushInv'
  <2> SUFFICES ASSUME NEW q \in Proc PROVE Chained(q)'
    BY DEF PushInv
  <2>1. CASE q = p
    <3>1. list'[p] = <<>> /\ Len(<<>>) = 0 /\ pc'[p] # "push"
      BY <1>1, <1>t, EmptySeq DEF TypeOK
    <3> QED
      BY <2>1, <3>1 DEF Chained
  <2>2. CASE q # p
    BY <2>2, <1>1, <1>t DEF PushInv, Chained, TypeOK
  <2> QED
    BY <2>1, <2>2
<1>12. ListIsFree'
  <2>0. \A j \in 1 .. n : free'[j + m] = free[j]
    BY <1>2, <1>3
  <2>1. ASSUME NEW i \in 1 .. m + n
        PROVE  next[free'[i]].ptr = IF i = m + n THEN Nil ELSE free'[i + 1]
    <3>1. CASE i < m
      <4>1. i \in 1 .. m - 1 /\ i + 1 \in 1 .. m + n /\ i + 1 <= m /\ i # m + n
        BY <3>1, <1>2
      <4>2. free'[i] = l[i] /\ free'[i + 1] = l[i + 1]
        BY <3>1, <4>1, <1>2, <1>3
      <4> QED
        BY <4>1, <4>2, <1>4
    <3>2. CASE i = m
      <4>1. next[free'[i]] = head_
        BY <3>2, <1>1, <1>2, <1>3
      <4>2. CASE n = 0
        <5>1. free = <<>>
          BY <4>2, <1>2, EmptySeq DEF n
        <5> QED
          BY <3>2, <4>1, <4>2, <5>1, <1>2, <1>t DEF ListIsFree
      <4>3. CASE n # 0
        <5>1. free # <<>>
          BY <4>3, EmptySeq DEF n
        <5>2. i + 1 \in 1 .. m + n /\ ~ (i + 1 <= m) /\ i + 1 - m = 1 /\ i # m + n
          BY <3>2, <4>3, <1>2
        <5>3. 1 \in 1 .. n /\ i + 1 = 1 + m
          BY <3>2, <4>3, <1>2
        <5>4. free'[i + 1] = free[1]
          BY <5>3, <2>0
        <5> QED
          BY <4>1, <5>1, <5>2, <5>4, <1>t DEF ListIsFree
      <4> QED
        BY <4>2, <4>3
    <3>3. CASE i > m
      <4>1. i - m \in 1 .. n /\ (i # m + n => i + 1 \in 1 .. m + n /\ i - m # n)
        BY <3>3, <1>2
      <4>2. free'[i] = free[i - m]
        BY <3>3, <1>2, <1>3
      <4>3. i # m + n => free'[i + 1] = free[i - m + 1]
        <5> SUFFICES ASSUME i # m + n PROVE free'[i + 1] = free[i - m + 1]
          OBVIOUS
        <5>1. PICK j \in 1 .. n : j = i - m + 1 /\ i + 1 = j + m
          BY <3>3, <1>2
        <5> QED
          BY <5>1, <2>0
      <4>4. next[free[i - m]].ptr = IF i - m = n THEN Nil ELSE free[i - m + 1]
        BY <4>1, <1>t DEF ListIsFree, n
      <4>5. i = m + n <=> i - m = n
        BY <1>2
      <4> QED
        BY <4>2, <4>3, <4>4, <4>5
    <3> QED
      BY <3>1, <3>2, <3>3, <1>2
  <2>2. head_'.ptr = free'[1] /\ free' # <<>>
    <3>1. 1 \in 1 .. m + n /\ 1 <= m /\ m + n # 0
      BY <1>2
    <3>2. free' # <<>>
      BY <3>1, <1>3, EmptySeq
    <3> QED
      BY <3>1, <3>2, <1>3, <1>6
  <2>3. Len(free') = m + n /\ next' = next
    BY <1>1, <1>3
  <2> QED
    BY <2>1, <2>2, <2>3 DEF ListIsFree
<1>13. ViewInv'
  <2> SUFFICES ASSUME NEW q \in Proc PROVE View(q)'
    BY DEF ViewInv
  <2>1. CASE q = p
    BY <2>1, <1>1, <1>t DEF View, Popping, TypeOK
  <2>2. CASE q # p
    <3>1. pc'[q] = pc[q] /\ ret'[q] = ret[q] /\ nxt'[q] = nxt[q]
      BY <2>2, <1>1, <1>t DEF TypeOK
    <3> QED
      BY <2>2, <3>1, <1>1, OthersView
  <2> QED
    BY <2>1, <2>2
<1> QED
  BY <1>8, <1>10, <1>11, <1>12, <1>13 DEF IInv

-----------------------------------------------------------------------------
LEMMA StutterKeeps == IInv /\ UNCHANGED vars => IInv'
<1> SUFFICES ASSUME IInv, UNCHANGED vars PROVE IInv'
  OBVIOUS
<1> USE DEF vars, local
<1>t. TypeOK /\ OwnInv /\ PushInv /\ ListIsFree /\ ViewInv
  BY DEF IInv
<1>1. TypeOK' /\ PushInv' /\ ListIsFree' /\ ViewInv'
  BY <1>t DEF TypeOK, PushInv, Chained, ListIsFree, ViewInv, View, Popping
<1>2. OwnInv'
  BY <1>t, SameOwners
<1> QED
  BY <1>1, <1>2 DEF IInv

LEMMA StepKeeps == IInv /\ [Next]_vars => IInv'
<1>1. IInv /\ Next => IInv'
  BY ReadStep, TestStep, PopStep, GrowStep, FreeStep, PushStep, PushFailsStep, UseStep DEF Next
<1> QED
  BY <1>1, StutterKeeps

THEOREM FreeListInvariant == Spec => []IInv
  BY InitHolds, StepKeeps, PTL DEF Spec

(***************************************************************************)
(* From head_ on, through next, lie exactly the blocks that were given     *)
(* back (intl_malloc, free, freeLinkedList).                               *)
(***************************************************************************)
THEOREM FreeListIntact == Spec => []ListIsFree
<1>1. IInv => ListIsFree
  BY DEF IInv
<1> QED
  BY <1>1, FreeListInvariant, PTL

LEMMA OwnersDistinct == IInv => OneOwner
<1> SUFFICES ASSUME IInv, NEW b \in Block
             PROVE  Places(b) # {} /\ \A x, y \in Places(b) : x = y
  BY DEF OneOwner
<1>t. OwnInv
  BY DEF IInv
<1>1. Places(b) # {}
  <2>1. CASE b \in unused
    BY <2>1 DEF Places
  <2>2. CASE b \in Members(free)
    <3>1. PICK i \in 1 .. Len(free) : free[i] = b
      BY <2>2 DEF Members
    <3>2. <<"free", i>> \in Places(b)
      BY <3>1 DEF Places
    <3> QED
      BY <3>2
  <2>3. CASE \E p \in Proc : b \in Hands(p)
    BY <2>3 DEF Places, Hands
  <2> QED
    BY <2>1, <2>2, <2>3, <1>t DEF OwnInv
<1>2. ASSUME NEW x \in Places(b)
      PROVE  \/ \E p \in Proc : x = <<"held", p>> /\ b \in held[p]
             \/ \E p \in Proc : x = <<"list", p>> /\ b \in Members(list[p])
             \/ \E i \in 1 .. Len(free) : x = <<"free", i>> /\ free[i] = b
             \/ x = <<"unused", 0>> /\ b \in unused
  BY <1>2 DEF Places
<1>3. \A i \in 1 .. Len(free) : free[i] \in Members(free)
  BY DEF Members
<1>4. ASSUME NEW x \in Places(b), NEW y \in Places(b) PROVE x = y
  <2>1. CASE \E p \in Proc : x = <<"held", p>> /\ b \in held[p]
    BY <2>1, <1>2, <1>3, <1>4, <1>t DEF OwnInv, Hands
  <2>2. CASE \E p \in Proc : x = <<"list", p>> /\ b \in Members(list[p])
    BY <2>2, <1>2, <1>3, <1>4, <1>t DEF OwnInv, Hands
  <2>3. CASE \E i \in 1 .. Len(free) : x = <<"free", i>> /\ free[i] = b
    BY <2>3, <1>2, <1>3, <1>4, <1>t DEF OwnInv, Hands
  <2>4. CASE x = <<"unused", 0>> /\ b \in unused
    BY <2>4, <1>2, <1>3, <1>4, <1>t DEF OwnInv, Hands
  <2> QED
    BY <1>2, <1>4, <2>1, <2>2, <2>3, <2>4
<1> QED
  BY <1>1, <1>4

(***************************************************************************)
(* No block is handed out twice, or lost, for any number of threads,       *)
(* blocks and tags.                                                        *)
(***************************************************************************)
THEOREM HandedOutOnce == Spec => []OneOwner
  BY FreeListInvariant, OwnersDistinct, PTL

-----------------------------------------------------------------------------
(* The pool is a stack of blocks.                                          *)

(***************************************************************************)
(* Who holds pool_mutex_ is giving its new chunk to the pool; the others   *)
(* that give something back give what they had in use.                     *)
(***************************************************************************)
Giving(p) ==
  /\ pool_mutex_ = p => pc[p] = "push"
  /\ pc[p] = "push" =>
       Len(list[p]) \in IF pool_mutex_ = p THEN {ChunkSize} ELSE 1 .. ListMax

MutexInv == \A p \in Proc : Giving(p)

LEMMA MutexInit == Init => MutexInv
  BY NilAssumption DEF Init, MutexInv, Giving

LEMMA MutexKept ==
  ASSUME IInv, MutexInv, [Next]_vars
  PROVE  MutexInv'
<1>t. TypeOK
  BY DEF IInv
<1>1. ASSUME NEW p \in Proc, Load(p) \/ Test(p) \/ Pop(p) \/ PopFails(p) PROVE MutexInv'
  <2>1. /\ pc[p] # "push" /\ UNCHANGED <<pool_mutex_, list>>
        /\ \E place \in Place \ {"push"} : pc' = [pc EXCEPT ![p] = place]
    BY <1>1 DEF Load, Test, Pop, PopFails, GoTo, Place
  <2> QED
    BY <2>1, <1>t DEF TypeOK, MutexInv, Giving
<1>2. ASSUME NEW p \in Proc, Grow(p) PROVE MutexInv'
  <2>1. PICK s \in Lists(ChunkSize, unused) : list' = [list EXCEPT ![p] = s]
    BY <1>2 DEF Grow
  <2>2. /\ pool_mutex_ = Nil /\ pool_mutex_' = p
        /\ pc' = [pc EXCEPT ![p] = "push"]
    BY <1>2 DEF Grow, GoTo
  <2>3. Len(s) = ChunkSize
    BY ListFacts, ChunkAssumption, <1>t DEF TypeOK
  <2> QED
    BY <2>1, <2>2, <2>3, <1>t, NilAssumption DEF TypeOK, MutexInv, Giving
<1>3. ASSUME NEW p \in Proc, Free(p) PROVE MutexInv'
  <2>1. PICK n \in 1 .. ListMax : \E s \in Lists(n, held[p]) : list' = [list EXCEPT ![p] = s]
    BY <1>3 DEF Free
  <2>2. PICK s \in Lists(n, held[p]) : list' = [list EXCEPT ![p] = s]
    BY <2>1
  <2>3. Len(s) = n
    <3>1. n \in Nat \ {0} /\ held[p] \in SUBSET Block
      BY ListMaxAssumption, <1>t DEF TypeOK
    <3> QED
      BY <3>1, ListFacts
  <2>4. pc[p] = "user" /\ pc' = [pc EXCEPT ![p] = "push"] /\ pool_mutex_' = pool_mutex_
    BY <1>3 DEF Free, GoTo
  <2> QED
    BY <2>2, <2>3, <2>4, <1>t DEF TypeOK, MutexInv, Giving
<1>4. ASSUME NEW p \in Proc, Push(p) PROVE MutexInv'
  <2>1. /\ pool_mutex_' = IF pool_mutex_ = p THEN Nil ELSE pool_mutex_
        /\ pc' = [pc EXCEPT ![p] = IF pool_mutex_ = p THEN "load" ELSE "user"]
        /\ list' = [list EXCEPT ![p] = <<>>]
    BY <1>4 DEF Push, GoTo
  <2>2. pc'[p] # "push" /\ \A q \in Proc \ {p} : pc'[q] = pc[q] /\ list'[q] = list[q]
    BY <2>1, <1>t DEF TypeOK
  <2> QED
    BY <2>1, <2>2, NilAssumption DEF MutexInv, Giving
<1>5. ASSUME UNCHANGED <<pc, pool_mutex_, list>> PROVE MutexInv'
  BY <1>5 DEF MutexInv, Giving
<1> QED
  BY <1>1, <1>2, <1>3, <1>4, <1>5 DEF Next, PushFails, Use, vars, local

LEMMA StackInit == Init => Stack!Init
<1> SUFFICES ASSUME Init PROVE Stack!Init
  OBVIOUS
<1>1. free \in Lists(ChunkSize, Block) /\ unused = Block \ Members(free)
  BY DEF Init
<1>2. /\ held = [p \in Proc |-> {}] /\ pool_mutex_ = Nil
      /\ \A p \in Proc : Members(list[p]) = {}
  BY MembersEmpty DEF Init
<1>3. Kept = [p \in Proc |-> {}] /\ NotGot = unused
  BY <1>2 DEF Kept, NotGot
<1> QED
  BY <1>1, <1>3 DEF Stack!Init, Stack!Lists, Stack!Members, Lists, Members

(***************************************************************************)
(* Before the exchanges nothing is given or taken.                         *)
(***************************************************************************)
LEMMA BeforeExchange ==
  ASSUME IInv, MutexInv, NEW p \in Proc, Free(p) \/ Grow(p)
  PROVE  UNCHANGED Stack!vars
<1>t. TypeOK /\ OwnInv /\ PushInv
  BY DEF IInv
<1>1. /\ pc[p] # "push" /\ list[p] = <<>> /\ Members(list[p]) = {} /\ pool_mutex_ # p
      /\ UNCHANGED free
  BY <1>t, MembersEmpty DEF Free, Grow, PushInv, Chained, MutexInv, Giving
<1>2. CASE Free(p)
  <2>1. PICK n \in 1 .. ListMax :
          \E s \in Lists(n, held[p]) :
             list' = [list EXCEPT ![p] = s] /\ held' = [held EXCEPT ![p] = @ \ Members(s)]
    BY <1>2 DEF Free
  <2>2. PICK s \in Lists(n, held[p]) :
          list' = [list EXCEPT ![p] = s] /\ held' = [held EXCEPT ![p] = @ \ Members(s)]
    BY <2>1
  <2>3. Members(s) \subseteq held[p] /\ UNCHANGED <<pool_mutex_, unused>>
    <3>1. n \in Nat \ {0} /\ held[p] \in SUBSET Block
      BY ListMaxAssumption, <1>t DEF TypeOK
    <3> QED
      BY <3>1, <1>2, ListFacts DEF Free
  <2>4. /\ list'[p] = s /\ held'[p] = held[p] \ Members(s)
        /\ \A q \in Proc \ {p} : list'[q] = list[q] /\ held'[q] = held[q]
    BY <2>2, <1>t DEF TypeOK
  <2>5. \A q \in Proc \ {p} : Members(list[q])' = Members(list[q])
    BY <2>4 DEF Members
  <2>6. Members(list[p])' = Members(s)
    BY <2>4 DEF Members
  <2>7. \A q \in Proc : (held[q] \cup (IF pool_mutex_ = q THEN {} ELSE Members(list[q])))' =
                         held[q] \cup (IF pool_mutex_ = q THEN {} ELSE Members(list[q]))
    BY <1>1, <2>3, <2>4, <2>5, <2>6
  <2>8. NotGot' = NotGot
    <3>1. CASE pool_mutex_ = Nil
      BY <3>1, <2>3 DEF NotGot
    <3>2. CASE pool_mutex_ # Nil
      <4>1. pool_mutex_ \in Proc \ {p}
        BY <3>2, <1>1, <1>t DEF TypeOK
      <4>2. Members(list[pool_mutex_])' = Members(list[pool_mutex_])
        BY <4>1, <2>3, <2>4 DEF Members
      <4> QED
        BY <4>2, <2>3 DEF NotGot
    <3> QED
      BY <3>1, <3>2
  <2> QED
    BY <1>1, <2>7, <2>8 DEF Stack!vars, Kept
<1>3. CASE Grow(p)
  <2>1. PICK s \in Lists(ChunkSize, unused) :
          list' = [list EXCEPT ![p] = s] /\ unused' = unused \ Members(s)
    BY <1>3 DEF Grow
  <2>2. Members(s) \subseteq unused
    BY ListFacts, ChunkAssumption, <1>t DEF TypeOK
  <2>3. pool_mutex_ = Nil /\ pool_mutex_' = p /\ held' = held
    BY <1>3 DEF Grow
  <2>4. list'[p] = s /\ \A q \in Proc \ {p} : list'[q] = list[q]
    BY <2>1, <1>t DEF TypeOK
  <2>5. /\ \A q \in Proc \ {p} : Members(list[q])' = Members(list[q])
        /\ Members(list[p])' = Members(s)
    BY <2>4 DEF Members
  <2>6. Members(list[pool_mutex_])' = Members(s) /\ pool_mutex_' # Nil
    BY <2>3, <2>4, NilAssumption DEF Members
  <2>7. NotGot' = NotGot
    BY <2>1, <2>2, <2>3, <2>6 DEF NotGot
  <2>8. \A q \in Proc : (held[q] \cup (IF pool_mutex_ = q THEN {} ELSE Members(list[q])))' =
                         held[q] \cup (IF pool_mutex_ = q THEN {} ELSE Members(list[q]))
    BY <1>1, <2>3, <2>5, NilAssumption
  <2> QED
    BY <1>1, <2>7, <2>8 DEF Stack!vars, Kept
<1> QED
  BY <1>2, <1>3

(***************************************************************************)
(* The block that an exchange takes is the one on top at that instant.     *)
(***************************************************************************)
LEMMA PopTakes ==
  ASSUME IInv, NEW p \in Proc, Pop(p)
  PROVE  Stack!Take(p)
<1>t. TypeOK
  BY DEF IInv
<1>1. free \in Seq(Block) /\ Len(free) \in Nat \ {0} /\ ret[p].ptr = free[1]
  BY PopFacts DEF Pop
<1>2. free # <<>> /\ free' = Tail(free)
  <2>1. free # <<>> /\ free' = SubSeq(free, 2, Len(free))
    BY <1>1, EmptySeq DEF Pop
  <2> QED
    BY <2>1, <1>1, TailIsSubSeq
<1>3. held' = [held EXCEPT ![p] = @ \cup {free[1]}] /\ UNCHANGED <<pool_mutex_, unused, list>>
  BY <1>1 DEF Pop
<1>4. \A q \in Proc : Members(list[q])' = Members(list[q])
  BY <1>3 DEF Members
<1>5. Kept' = [Kept EXCEPT ![p] = @ \cup {free[1]}]
  <2>1. \A q \in Proc : held'[q] = IF q = p THEN held[q] \cup {free[1]} ELSE held[q]
    BY <1>3, <1>t DEF TypeOK
  <2>2. \A q \in Proc : (held[q] \cup (IF pool_mutex_ = q THEN {} ELSE Members(list[q])))' =
                         IF q = p THEN Kept[p] \cup {free[1]} ELSE Kept[q]
    BY <2>1, <1>3, <1>4 DEF Kept
  <2>3. Kept \in [Proc -> {Kept[q] : q \in Proc}]
    BY DEF Kept
  <2> QED
    BY <2>2, <2>3 DEF Kept
<1>6. NotGot' = NotGot
  BY <1>3 DEF NotGot, Members
<1> QED
  BY <1>2, <1>5, <1>6 DEF Stack!Take

(***************************************************************************)
(* A list of different blocks of a set is one of Lists.                    *)
(***************************************************************************)
LEMMA OfLists ==
  ASSUME NEW s \in Seq(Block), NEW S, Members(s) \subseteq S,
         \A i, j \in 1 .. Len(s) : s[i] = s[j] => i = j
  PROVE  s \in Stack!Lists(Len(s), S) /\ Stack!Members(s) = Members(s)
<1>1. \A i \in 1 .. Len(s) : s[i] \in S
  BY DEF Members
<1>2. s \in [1 .. Len(s) -> S]
  BY <1>1
<1> QED
  BY <1>2 DEF Stack!Lists, Stack!Members, Members

LEMMA PushGives ==
  ASSUME IInv, MutexInv, NEW p \in Proc, Push(p)
  PROVE  Stack!Next
<1> DEFINE l == list[p]
<1>t. TypeOK /\ OwnInv /\ Chained(p) /\ Giving(p)
  BY DEF IInv, PushInv, MutexInv
<1>1. /\ pc[p] = "push" /\ free' = l \o free
      /\ list' = [list EXCEPT ![p] = <<>>]
      /\ pool_mutex_' = IF pool_mutex_ = p THEN Nil ELSE pool_mutex_
      /\ UNCHANGED <<unused, held>>
  BY DEF Push
<1>2. /\ l \in Seq(Block) /\ \A i, j \in 1 .. Len(l) : l[i] = l[j] => i = j
      /\ held[p] \cap Members(l) = {} /\ Members(l) \cap unused = {}
  BY <1>t DEF TypeOK, Chained, OwnInv, Hands
<1>3. /\ list'[p] = <<>> /\ \A q \in Proc \ {p} : list'[q] = list[q]
  BY <1>1, <1>t DEF TypeOK
<1>4. /\ Members(list[p])' = {}
      /\ \A q \in Proc \ {p} : Members(list[q])' = Members(list[q])
  BY <1>3, MembersEmpty DEF Members
<1>5. CASE pool_mutex_ = p
  <2>1. Kept' = Kept
    <3>1. \A q \in Proc : (held[q] \cup (IF pool_mutex_ = q THEN {} ELSE Members(list[q])))' =
                           held[q] \cup (IF pool_mutex_ = q THEN {} ELSE Members(list[q]))
      BY <1>1, <1>4, <1>5, NilAssumption
    <3> QED
      BY <3>1 DEF Kept
  <2>2. NotGot = unused \cup Members(l) /\ NotGot' = NotGot \ Members(l)
    BY <1>1, <1>2, <1>5, NilAssumption DEF NotGot
  <2>3. l \in Stack!Lists(ChunkSize, NotGot) /\ Stack!Members(l) = Members(l)
    <3>1. Len(l) = ChunkSize
      BY <1>1, <1>5, <1>t DEF Giving
    <3>2. l \in Stack!Lists(Len(l), NotGot) /\ Stack!Members(l) = Members(l)
      BY <1>2, <2>2, OfLists
    <3> QED
      BY <3>1, <3>2
  <2>4. Stack!Grow
    BY <1>1, <2>1, <2>2, <2>3 DEF Stack!Grow
  <2> QED
    BY <2>4 DEF Stack!Next
<1>6. CASE pool_mutex_ # p
  <2>1. Kept[p] = held[p] \cup Members(l)
    BY <1>6 DEF Kept
  <2>2. Kept' = [Kept EXCEPT ![p] = @ \ Members(l)]
    <3>1. \A q \in Proc : (held[q] \cup (IF pool_mutex_ = q THEN {} ELSE Members(list[q])))' =
                           IF q = p THEN held[p]
                           ELSE held[q] \cup (IF pool_mutex_ = q THEN {} ELSE Members(list[q]))
      BY <1>1, <1>4, <1>6
    <3>2. held[p] = Kept[p] \ Members(l)
      BY <1>2, <2>1
    <3> QED
      BY <3>1, <3>2 DEF Kept
  <2>3. NotGot' = NotGot
    <3>1. pool_mutex_ # Nil => Members(list[pool_mutex_])' = Members(list[pool_mutex_])
      BY <1>1, <1>3, <1>6, <1>t DEF Members, TypeOK
    <3> QED
      BY <3>1, <1>1, <1>6 DEF NotGot
  <2>4. l \in Stack!Lists(Len(l), Kept[p]) /\ Stack!Members(l) = Members(l)
    BY <1>2, <2>1, OfLists
  <2>5. Len(l) \in 1 .. ListMax
    BY <1>1, <1>6, <1>t DEF Giving
  <2>6. Stack!Give(p)
    BY <1>1, <2>2, <2>3, <2>4, <2>5 DEF Stack!Give
  <2> QED
    BY <2>6 DEF Stack!Next
<1> QED
  BY <1>5, <1>6

LEMMA StackStep ==
  ASSUME IInv, MutexInv, [Next]_vars
  PROVE  [Stack!Next]_(Stack!vars)
<1>1. ASSUME UNCHANGED <<held, list, pool_mutex_, unused, free>> PROVE UNCHANGED Stack!vars
  BY <1>1 DEF Stack!vars, Kept, NotGot, Members
<1>2. ASSUME NEW p \in Proc, Load(p) \/ Test(p) \/ PopFails(p) \/ PushFails(p) \/ Use(p)
      PROVE  UNCHANGED Stack!vars
  BY <1>1, <1>2 DEF Load, Test, PopFails, PushFails, Use, local
<1>3. ASSUME NEW p \in Proc, Pop(p) PROVE Stack!Next
  BY <1>3, PopTakes DEF Stack!Next
<1>4. ASSUME UNCHANGED vars PROVE UNCHANGED Stack!vars
  BY <1>1, <1>4 DEF vars, local
<1> QED
  BY <1>2, <1>3, <1>4, BeforeExchange, PushGives DEF Next

(***************************************************************************)
(* However many threads pop and push, and however late their exchanges     *)
(* are, malloc hands out the block that was given back last, and what free *)
(* and allocate add is added whole (intl_malloc, freeLinkedList).          *)
(***************************************************************************)
THEOREM PoolIsStack == Spec => ImplementsBlockStack
<1>1. Init => IInv /\ MutexInv
  BY InitHolds, MutexInit
<1>2. IInv /\ MutexInv /\ [Next]_vars => (IInv /\ MutexInv)'
  BY StepKeeps, MutexKept
<1>3. IInv /\ MutexInv /\ [Next]_vars => [Stack!Next]_(Stack!vars)
  BY StackStep
<1> QED
  BY <1>1, <1>2, <1>3, StackInit, PTL DEF Spec, ImplementsBlockStack, Stack!Spec
=============================================================================
