------------------------------ MODULE FreeList ------------------------------
(***************************************************************************)
(* LinkedListPool: a lock-free list of free blocks whose head carries a    *)
(* tag, incremented by every change, in the high bits of the pointer       *)
(* (LinkedListPool.h).                                                     *)
(*                                                                         *)
(* A value of head_ or of a field next is a record: both may have a tag,   *)
(* as free copies head_ into next.  Who has a block may write its next,    *)
(* while a slower thread still reads it.                                   *)
(***************************************************************************)
EXTENDS Integers, Sequences, FiniteSets

CONSTANTS Block,       \* the blocks that the memory has room for
          Proc,        \* the threads
          Nil,         \* nullptr, also for no thread
          ChunkSize,   \* chunkSize_
          Tags,        \* how many tags there are: 2^16 in the source
          ListMax      \* the longest list that is freed at once, a bound

ASSUME NilAssumption == Nil \notin Block \cup Proc
ASSUME ChunkAssumption == ChunkSize \in Nat \ {0}
ASSUME TagsAssumption == Tags \in Nat \ {0}
ASSUME ListMaxAssumption == ListMax \in Nat \ {0}

VARIABLES
  head_,         \* the head of the pool
  next,          \* the field of each block
  pool_mutex_,   \* who is in allocate
  unused,        \* the blocks that malloc has not given out yet
  held,          \* the blocks that each thread has in use
  pc,            \* where each thread is
  ret,           \* in intl_malloc: the head that was read
  nxt,           \* and the next of that block
  list,          \* in free: the blocks that are given back
  gap,           \* how often head_ changed since ret was read
  free           \* the blocks of the pool, as the list that they should be

local == <<pc, ret, nxt, list>>
vars  == <<head_, next, pool_mutex_, unused, held, local, gap, free>>

Pointer == [ptr : Block \cup {Nil}, tag : 0 .. Tags - 1]

Null == [ptr |-> Nil, tag |-> 0]

Place == {"user", "load", "test", "cas", "grow", "push"}

(***************************************************************************)
(* Mutation of next_ptr: the tag is not incremented.                       *)
(***************************************************************************)
next_ptr_NoIncr(new, cur) == [ptr |-> new, tag |-> cur.tag]

next_ptr(new, cur) == [ptr |-> new, tag |-> (cur.tag + 1) % Tags]

(***************************************************************************)
(* The lists of n different blocks, and what linking one in front of h     *)
(* does to the fields next, which are nx before.                           *)
(***************************************************************************)
Lists(n, S) == { s \in [1 .. n -> S] : \A i, j \in 1 .. n : s[i] = s[j] => i = j }

Members(s) == { s[i] : i \in 1 .. Len(s) }

Linked(nx, s, h) ==
  [b \in Block |->
     IF b \in Members(s)
     THEN LET i == CHOOSE i \in 1 .. Len(s) : s[i] = b
          IN  IF i = Len(s) THEN h ELSE [ptr |-> s[i + 1], tag |-> 0]
     ELSE nx[b]]

(***************************************************************************)
(* The constructor allocates the first chunk.                              *)
(***************************************************************************)
Init ==
  /\ \E s \in Lists(ChunkSize, Block) :
       /\ head_ = next_ptr(s[1], Null)
       /\ next = Linked([b \in Block |-> Null], s, Null)
       /\ unused = Block \ Members(s)
       /\ free = s
  /\ pool_mutex_ = Nil
  /\ held = [p \in Proc |-> {}]
  /\ pc = [p \in Proc |-> "user"]
  /\ ret = [p \in Proc |-> Null]
  /\ nxt = [p \in Proc |-> Nil]
  /\ list = [p \in Proc |-> <<>>]
  /\ gap = [p \in Proc |-> 0]

GoTo(p, place) == pc' = [pc EXCEPT ![p] = place]

-----------------------------------------------------------------------------
(* A change of the head.  Threads between the read of ret and its exchange *)
(* fall behind; Timely bounds by how much, see the README.                 *)

Popping(p) == pc[p] \in {"test", "cas"}

Timely(p) == \A q \in Proc \ {p} : Popping(q) => gap[q] < Tags - 1

SetHead(p, new, cur) ==
  /\ Timely(p)
  /\ head_' = next_ptr(new, cur)
  /\ gap' = [q \in Proc |-> IF q # p /\ Popping(q) THEN gap[q] + 1 ELSE 0]

-----------------------------------------------------------------------------
(* malloc: intl_malloc, whose locals are forgotten when it ends.           *)

Load(p) ==
  /\ pc[p] \in {"user", "load"}
  /\ ret' = [ret EXCEPT ![p] = head_]
  /\ gap' = [gap EXCEPT ![p] = 0]
  /\ GoTo(p, "test")
  /\ UNCHANGED <<head_, next, pool_mutex_, unused, held, nxt, list, free>>

(***************************************************************************)
(* The block may have been handed out by now; its next is read anyway.     *)
(***************************************************************************)
Test(p) ==
  /\ pc[p] = "test"
  /\ IF ret[p].ptr = Nil
     THEN GoTo(p, "grow") /\ ret' = [ret EXCEPT ![p] = Null] /\ UNCHANGED nxt
     ELSE GoTo(p, "cas") /\ nxt' = [nxt EXCEPT ![p] = next[ret[p].ptr].ptr] /\ UNCHANGED ret
  /\ UNCHANGED <<head_, next, pool_mutex_, unused, held, list, gap, free>>

Pop(p) ==
  /\ pc[p] = "cas" /\ head_ = ret[p]
  /\ SetHead(p, nxt[p], ret[p])
  /\ held' = [held EXCEPT ![p] = @ \cup {ret[p].ptr}]
  /\ free' = SubSeq(free, 2, Len(free))
  /\ ret' = [ret EXCEPT ![p] = Null]
  /\ nxt' = [nxt EXCEPT ![p] = Nil]
  /\ GoTo(p, "user")
  /\ UNCHANGED <<next, pool_mutex_, unused, list>>

(***************************************************************************)
(* Mutation of PopFails: the next of the block is not read again.          *)
(***************************************************************************)
PopFails_OldNext(p) ==
  /\ pc[p] = "cas"
  /\ ret' = [ret EXCEPT ![p] = head_]
  /\ gap' = [gap EXCEPT ![p] = 0]
  /\ UNCHANGED <<head_, next, pool_mutex_, unused, held, pc, nxt, list, free>>

(***************************************************************************)
(* The exchange fails, when head_ is another or for no reason (it is a     *)
(* weak one), and leaves the present head in ret.                          *)
(***************************************************************************)
PopFails(p) ==
  /\ pc[p] = "cas"
  /\ ret' = [ret EXCEPT ![p] = head_]
  /\ nxt' = [nxt EXCEPT ![p] = Nil]
  /\ gap' = [gap EXCEPT ![p] = 0]
  /\ GoTo(p, "test")
  /\ UNCHANGED <<head_, next, pool_mutex_, unused, held, list, free>>

-----------------------------------------------------------------------------
(* free and freeLinkedList.  The blocks are linked already, as they come   *)
(* from a list; the next of the last is both what the head was when it was *)
(* read, and what the exchange compares with.                              *)

Last(p) == list[p][Len(list[p])]

Free(p) ==
  /\ pc[p] = "user"
  /\ \E n \in 1 .. ListMax : \E s \in Lists(n, held[p]) :
       /\ list' = [list EXCEPT ![p] = s]
       /\ held' = [held EXCEPT ![p] = @ \ Members(s)]
       /\ next' = Linked(next, s, head_)
  /\ GoTo(p, "push")
  /\ UNCHANGED <<head_, pool_mutex_, unused, ret, nxt, gap, free>>

(***************************************************************************)
(* allocate gets a chunk, and gives its blocks to the pool like free.      *)
(***************************************************************************)
Grow(p) ==
  /\ pc[p] = "grow" /\ pool_mutex_ = Nil
  /\ \E s \in Lists(ChunkSize, unused) :
       /\ list' = [list EXCEPT ![p] = s]
       /\ unused' = unused \ Members(s)
       /\ next' = Linked(next, s, head_)
  /\ pool_mutex_' = p
  /\ GoTo(p, "push")
  /\ UNCHANGED <<head_, held, ret, nxt, gap, free>>

(***************************************************************************)
(* Mutation of Push: the head is written, whatever it is by now.           *)
(***************************************************************************)
Push_NotCompared(p) ==
  /\ pc[p] = "push"
  /\ SetHead(p, list[p][1], head_)
  /\ free' = list[p] \o free
  /\ list' = [list EXCEPT ![p] = <<>>]
  /\ pool_mutex_' = IF pool_mutex_ = p THEN Nil ELSE pool_mutex_
  /\ GoTo(p, IF pool_mutex_ = p THEN "load" ELSE "user")
  /\ UNCHANGED <<next, unused, held, ret, nxt>>

Push(p) ==
  /\ pc[p] = "push" /\ head_ = next[Last(p)]
  /\ SetHead(p, list[p][1], head_)
  /\ free' = list[p] \o free
  /\ list' = [list EXCEPT ![p] = <<>>]
  /\ pool_mutex_' = IF pool_mutex_ = p THEN Nil ELSE pool_mutex_
  /\ GoTo(p, IF pool_mutex_ = p THEN "load" ELSE "user")
  /\ UNCHANGED <<next, unused, held, ret, nxt>>

PushFails(p) ==
  /\ pc[p] = "push"
  /\ next' = [next EXCEPT ![Last(p)] = head_]
  /\ UNCHANGED <<head_, pool_mutex_, unused, held, local, gap, free>>

(***************************************************************************)
(* The objects in use are linked in lists, by whoever has them.            *)
(***************************************************************************)
Use(p) ==
  /\ pc[p] = "user"
  /\ \E b \in held[p], c \in held[p] \cup {Nil} :
       next' = [next EXCEPT ![b] = [ptr |-> c, tag |-> 0]]
  /\ UNCHANGED <<head_, pool_mutex_, unused, held, local, gap, free>>

-----------------------------------------------------------------------------
Next ==
  \E p \in Proc :
    \/ Load(p) \/ Test(p) \/ Pop(p) \/ PopFails(p)
    \/ Grow(p) \/ Free(p) \/ Push(p) \/ PushFails(p) \/ Use(p)

Spec == Init /\ [][Next]_vars

-----------------------------------------------------------------------------
(***************************************************************************)
(* The variables have their types, which the proofs build on.              *)
(***************************************************************************)
TypeOK ==
  /\ head_ \in Pointer
  /\ next \in [Block -> Pointer]
  /\ pool_mutex_ \in Proc \cup {Nil}
  /\ unused \subseteq Block
  /\ held \in [Proc -> SUBSET Block]
  /\ pc \in [Proc -> Place]
  /\ ret \in [Proc -> Pointer]
  /\ nxt \in [Proc -> Block \cup {Nil}]
  /\ list \in [Proc -> Seq(Block)]
  /\ gap \in [Proc -> 0 .. Tags - 1]
  /\ free \in Seq(Block)

(***************************************************************************)
(* The list that starts at head_ is that of the blocks given back and not  *)
(* handed out again, in order: the exchanges of other threads, and their   *)
(* writes to next, never make a thread install a head that was read from a *)
(* block that is no longer free, or link a block to an old one.            *)
(***************************************************************************)
ListIsFree ==
  /\ head_.ptr = (IF free = <<>> THEN Nil ELSE free[1])
  /\ \A i \in 1 .. Len(free) :
       next[free[i]].ptr = (IF i = Len(free) THEN Nil ELSE free[i + 1])

(***************************************************************************)
(* No block is handed out twice: each is unused, in the pool, in use by    *)
(* one thread, or being given back by one; and none is lost.               *)
(***************************************************************************)
Places(b) ==
  { <<"held", p>> : p \in { q \in Proc : b \in held[q] } }
    \cup { <<"list", p>> : p \in { q \in Proc : b \in Members(list[q]) } }
    \cup { <<"free", i>> : i \in { j \in 1 .. Len(free) : free[j] = b } }
    \cup { <<"unused", 0>> : x \in {b} \cap unused }

OneOwner ==
  \A b \in Block : Places(b) # {} /\ \A x, y \in Places(b) : x = y

(***************************************************************************)
(* A thread keeps the blocks that it is giving back until the exchange;    *)
(* those of a new chunk belong to nobody before theirs.  So every malloc,  *)
(* free and allocate acts on a stack at the instant of its exchange: the   *)
(* block handed out is the top one at that instant, not when it was read.  *)
(***************************************************************************)
Kept == [p \in Proc |-> held[p] \cup (IF pool_mutex_ = p THEN {} ELSE Members(list[p]))]

NotGot == unused \cup (IF pool_mutex_ = Nil THEN {} ELSE Members(list[pool_mutex_]))

Stack == INSTANCE BlockStack WITH stack <- free, held <- Kept, fresh <- NotGot

ImplementsBlockStack == Stack!Spec
=============================================================================
