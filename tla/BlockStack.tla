----------------------------- MODULE BlockStack -----------------------------
(***************************************************************************)
(* What a pool of blocks promises: malloc takes the block that was given   *)
(* back last, free puts one or a list of them on top, and the pool grows   *)
(* by chunks, each at one instant, whatever other threads are doing.       *)
(***************************************************************************)
EXTENDS Integers, Sequences

CONSTANTS Block, Proc, ChunkSize, ListMax

VARIABLES stack,   \* the blocks of the pool, the next one to give out first
          held,    \* the blocks that each thread has
          fresh    \* those that the pool has not got yet

vars == <<stack, held, fresh>>

Lists(n, S) == { s \in [1 .. n -> S] : \A i, j \in 1 .. n : s[i] = s[j] => i = j }

Members(s) == { s[i] : i \in 1 .. Len(s) }

Init ==
  /\ stack \in Lists(ChunkSize, Block)
  /\ held = [p \in Proc |-> {}]
  /\ fresh = Block \ Members(stack)

Take(p) ==
  /\ stack # <<>>
  /\ held' = [held EXCEPT ![p] = @ \cup {stack[1]}]
  /\ stack' = Tail(stack)
  /\ UNCHANGED fresh

Give(p) ==
  \E n \in 1 .. ListMax : \E s \in Lists(n, held[p]) :
    /\ stack' = s \o stack
    /\ held' = [held EXCEPT ![p] = @ \ Members(s)]
    /\ UNCHANGED fresh

Grow ==
  \E s \in Lists(ChunkSize, fresh) :
    /\ stack' = s \o stack
    /\ fresh' = fresh \ Members(s)
    /\ UNCHANGED held

Next == Grow \/ \E p \in Proc : Take(p) \/ Give(p)

Spec == Init /\ [][Next]_vars
=============================================================================
