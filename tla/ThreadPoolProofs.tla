--------------------------- MODULE ThreadPoolProofs ---------------------------
(***************************************************************************)
(* A launch runs the function once in exactly the threads in use, and what *)
(* the owner does after a wait finds them all at rest: for any number of   *)
(* threads, and a resize to any size between two launches.                 *)
(***************************************************************************)
EXTENDS ThreadPool, FiniteSetTheorems, TLAPS

(***************************************************************************)
(* The threads that the present, or last, launch makes run the function:   *)
(* they have run it, are in it, or have a number that lets them in.        *)
(***************************************************************************)
Taker(t) ==
  calls[t] = 1 \/ pc[t] = "func" \/ (pc[t] = "decide" /\ my_id[t] < nthreads_in_use_)

Takers == {t \in Thread : Taker(t)}

(***************************************************************************)
(* The threads created are those that run main.                            *)
(***************************************************************************)
CreatedInv == \A t \in Thread : t \in threads_ <=> pc[t] # "none"

(***************************************************************************)
(* Where the owner is, and what a wait that has returned has seen.  Once   *)
(* it destroys the pool, threads take numbers whenever they wake up.       *)
(***************************************************************************)
OwnerInv ==
  /\ ret \in {"user", "grow", "set", "close"}
  /\ finish_ => ret = "set" /\ opc \notin {"user", "grow", "close"}
  /\ opc \in {"count", "grow", "set", "close"} => ~ ready_
  /\ opc \in {"grow", "set", "close"} /\ ~ finish_ => Numbered = {}

(***************************************************************************)
(* While a launch has not been seen by all, nobody who has taken a number  *)
(* gives it back, so that nobody takes two.                                *)
(***************************************************************************)
CallInv ==
  \A t \in Thread :
    /\ calls[t] \in {0, 1}
    /\ pc[t] = "func" => calls[t] = 0 /\ ~ finish_
    /\ pc[t] = "decide" /\ ~ finish_ => calls[t] = 0
    /\ pc[t] = "out" => finish_
    /\ ready_ /\ ~ finish_ => pc[t] # "back" /\ (t \notin Numbered => calls[t] = 0)

(***************************************************************************)
(* The numbers below nthreads_in_use_ are given out first.                 *)
(***************************************************************************)
TakersInv ==
  ~ finish_ =>
    /\ ready_ \/ Numbered # {} => launched = nthreads_in_use_
    /\ Cardinality(Takers) =
         IF ~ ready_ THEN launched
         ELSE IF count_ < nthreads_in_use_ THEN count_ ELSE nthreads_in_use_

IInv == TypeOK /\ CreatedInv /\ OwnerInv /\ CallInv /\ TakersInv

USE DEF Place, OwnerPlace

(***************************************************************************)
(* What is finite, and that no more numbers are out than threads exist.    *)
(***************************************************************************)
LEMMA Sizes ==
  ASSUME threads_ \subseteq Thread,
         \A t \in Thread : t \in threads_ <=> pc[t] # "none"
  PROVE  /\ IsFiniteSet(threads_) /\ Cardinality(threads_) \in Nat
         /\ IsFiniteSet(Numbered) /\ Cardinality(Numbered) \in 0 .. Cardinality(threads_)
         /\ IsFiniteSet(Takers) /\ Cardinality(Takers) \in Nat
         /\ Cardinality(Thread) \in Nat
<1>1. IsFiniteSet(threads_) /\ Numbered \subseteq threads_
  BY ThreadAssumption, FS_Subset DEF Numbered
<1>2. IsFiniteSet(Numbered) /\ Cardinality(Numbered) <= Cardinality(threads_)
  BY <1>1, FS_Subset
<1>3. IsFiniteSet(Takers)
  BY ThreadAssumption, FS_Subset DEF Takers
<1> QED
  BY <1>1, <1>2, <1>3, ThreadAssumption, FS_CardinalityType

LEMMA InitHolds == Init => IInv
<1> SUFFICES ASSUME Init PROVE IInv
  OBVIOUS
<1> USE DEF Init
<1>1. Numbered = {} /\ Takers = {}
  BY DEF Numbered, Takers, Taker
<1>2. Cardinality(threads_) = 0 /\ Cardinality(Numbered) = 0 /\ Cardinality(Takers) = 0
  BY <1>1, FS_EmptySet
<1>3. TypeOK
  <2>1. 0 \in 0 .. Cardinality(threads_)
    BY <1>2
  <2> QED
    BY <2>1, <1>1, <1>2 DEF TypeOK
<1> QED
  BY <1>1, <1>2, <1>3 DEF IInv, CreatedInv, OwnerInv, CallInv, TakersInv

(***************************************************************************)
(* Steps that move threads without taking or giving back a number, and     *)
(* those of the owner that leave the threads alone.                        *)
(***************************************************************************)
LEMMA ThreadMoves ==
  ASSUME IInv, NEW t \in Thread, NEW place \in Place,
         pc' = [pc EXCEPT ![t] = place],
         UNCHANGED <<threads_, nthreads_in_use_, ready_, count_, finish_, my_id, calls, ownerVars>>,
         \/ pc[t] \in {"top", "lock", "wait", "asleep"} /\ place \in {"lock", "wait", "asleep"}
         \/ pc[t] = "top" /\ place = "out" /\ finish_
         \/ pc[t] = "decide" /\ place = "func" /\ ~ finish_ /\ my_id[t] < nthreads_in_use_
         \/ pc[t] = "decide" /\ place = "spin" /\ (finish_ \/ ~ (my_id[t] < nthreads_in_use_))
         \/ pc[t] = "spin" /\ place = "back" /\ (~ ready_ \/ finish_)
  PROVE  IInv'
<1>t. TypeOK /\ CreatedInv /\ OwnerInv /\ CallInv /\ TakersInv
  BY DEF IInv
<1> USE DEF ownerVars
<1>1. /\ pc' \in [Thread -> Place] /\ pc'[t] = place
      /\ \A u \in Thread \ {t} : pc'[u] = pc[u]
  BY <1>t DEF TypeOK
<1>2. Numbered' = Numbered /\ TypeOK'
  <2>1. Numbered' = Numbered
    BY <1>1 DEF Numbered
  <2> QED
    BY <2>1, <1>1, <1>t DEF TypeOK
<1>3. ~ finish_ => Takers' = Takers
  BY <1>1, <1>t DEF Takers, Taker, CallInv
<1>4. CreatedInv'
  BY <1>1, <1>2, <1>t DEF CreatedInv
<1>5. OwnerInv'
  BY <1>2, <1>t DEF OwnerInv
<1>6. CallInv'
  BY <1>1, <1>2, <1>t DEF CallInv, Numbered
<1>7. TakersInv'
  BY <1>2, <1>3, <1>t DEF TakersInv
<1> QED
  BY <1>2, <1>4, <1>5, <1>6, <1>7 DEF IInv

LEMMA OwnerMoves ==
  ASSUME IInv,
         UNCHANGED <<threads_, nthreads_in_use_, ready_, count_, finish_, threadVars, launched>>,
         opc' \in OwnerPlace, size' \in Nat, OwnerInv'
  PROVE  IInv'
<1> USE DEF threadVars
<1>t. TypeOK /\ CreatedInv /\ OwnerInv /\ CallInv /\ TakersInv
  BY DEF IInv
<1>1. Numbered' = Numbered /\ Takers' = Takers
  BY DEF Numbered, Takers, Taker
<1>2. TypeOK'
  BY <1>1, <1>t DEF TypeOK, OwnerInv
<1>3. CreatedInv' /\ CallInv' /\ TakersInv'
  BY <1>1, <1>t DEF CreatedInv, CallInv, TakersInv
<1> QED
  BY <1>2, <1>3 DEF IInv

-----------------------------------------------------------------------------
(* The steps of a thread.                                                  *)

LEMMA MoveSteps ==
  ASSUME IInv, NEW t \in Thread,
         Top(t) \/ NothingToDo(t) \/ Sleep(t) \/ Spurious(t) \/ Decide(t) \/ Spin(t)
  PROVE  IInv'
<1>1. CASE Top(t)
  BY <1>1, ThreadMoves DEF Top, GoTo
<1>2. CASE NothingToDo(t) \/ Sleep(t)
  BY <1>2, ThreadMoves DEF NothingToDo, Sleep, GoTo
<1>3. CASE Spurious(t)
  BY <1>3, ThreadMoves DEF Spurious, GoTo
<1>4. CASE Decide(t)
  BY <1>4, ThreadMoves DEF Decide, GoTo
<1>5. CASE Spin(t)
  BY <1>5, ThreadMoves DEF Spin, GoTo
<1> QED
  BY <1>1, <1>2, <1>3, <1>4, <1>5

(***************************************************************************)
(* The last thread that takes a number ends the launch: by then those in   *)
(* use have theirs.                                                        *)
(***************************************************************************)
LEMMA CheckInStep ==
  ASSUME IInv, NEW t \in Thread, CheckIn(t)
  PROVE  IInv'
<1>t. TypeOK /\ CreatedInv /\ OwnerInv /\ CallInv /\ TakersInv
  BY DEF IInv
<1>1. /\ pc[t] = "lock" /\ (ready_ \/ finish_)
      /\ my_id' = [my_id EXCEPT ![t] = count_]
      /\ count_' = count_ + 1
      /\ ready_' = (ready_ /\ count_' # Cardinality(threads_))
      /\ pc' = [pc EXCEPT ![t] = "decide"]
      /\ UNCHANGED <<threads_, nthreads_in_use_, finish_, calls, opc, ret, size, launched>>
  BY DEF CheckIn, GoTo, ownerVars
<1>2. /\ pc'[t] = "decide" /\ my_id'[t] = count_
      /\ \A u \in Thread \ {t} : pc'[u] = pc[u] /\ my_id'[u] = my_id[u]
  BY <1>1, <1>t DEF TypeOK
<1>3. threads_ \subseteq Thread /\ \A u \in Thread : u \in threads_ <=> pc[u] # "none"
  BY <1>t DEF TypeOK, CreatedInv
<1>4. /\ IsFiniteSet(threads_) /\ Cardinality(threads_) \in Nat
      /\ IsFiniteSet(Numbered) /\ Cardinality(Numbered) \in Nat
      /\ IsFiniteSet(Takers) /\ Cardinality(Takers) \in Nat
  BY <1>3, Sizes
<1>5. t \notin Numbered /\ Numbered' = Numbered \cup {t}
  BY <1>1, <1>2 DEF Numbered
<1>6. \A u \in Thread : u \in threads_' <=> pc'[u] # "none"
  BY <1>1, <1>2, <1>3
<1>7. Cardinality(Numbered') = count_ + 1 /\ Numbered' \subseteq threads_
  <2>1. Cardinality(Numbered') = Cardinality(Numbered) + 1
    BY <1>4, <1>5, FS_AddElement
  <2>2. Numbered' \subseteq threads_
    BY <1>1, <1>2, <1>3 DEF Numbered
  <2> QED
    BY <2>1, <2>2, <1>t DEF TypeOK
<1>8. TypeOK'
  BY <1>1, <1>4, <1>7, <1>t DEF TypeOK
<1>9. CreatedInv'
  BY <1>6 DEF CreatedInv
<1>10. OwnerInv'
  BY <1>1, <1>t DEF OwnerInv
<1>11. CallInv'
  BY <1>1, <1>2, <1>5, <1>t DEF CallInv
<1>12. TakersInv'
  <2> SUFFICES ASSUME ~ finish_ PROVE TakersInv'
    BY <1>1 DEF TakersInv
  <2>0. ready_ /\ calls[t] = 0 /\ calls' = calls /\ nthreads_in_use_' = nthreads_in_use_
    BY <1>1, <1>5, <1>t DEF CallInv
  <2>1. launched = nthreads_in_use_ /\ launched' = launched
    BY <2>0, <1>1, <1>t DEF TakersInv
  <2>2. Cardinality(Takers) = IF count_ < nthreads_in_use_ THEN count_ ELSE nthreads_in_use_
    BY <2>0, <1>t DEF TakersInv
  <2>3. t \notin Takers
    BY <2>0, <1>1 DEF Takers, Taker
  <2>4. Takers' = IF count_ < nthreads_in_use_ THEN Takers \cup {t} ELSE Takers
    <3>1. \A u \in Thread \ {t} : Taker(u)' <=> Taker(u)
      BY <1>2, <2>0 DEF Taker
    <3>2. Taker(t)' <=> count_ < nthreads_in_use_
      BY <1>2, <2>0 DEF Taker
    <3> QED
      BY <3>1, <3>2, <2>3 DEF Takers
  <2>5. Cardinality(Takers') =
          IF count_ < nthreads_in_use_ THEN count_ + 1 ELSE nthreads_in_use_
    <3>1. CASE count_ < nthreads_in_use_
      BY <3>1, <2>2, <2>3, <2>4, <1>4, FS_AddElement
    <3>2. CASE ~ (count_ < nthreads_in_use_)
      BY <3>2, <2>2, <2>4
    <3> QED
      BY <3>1, <3>2
  <2>6. /\ count_ \in Nat /\ nthreads_in_use_ \in 0 .. Cardinality(threads_)
        /\ count_' = count_ + 1
        /\ ~ ready_' => count_ + 1 = Cardinality(threads_)
    <3>1. ~ ready_' => count_' = Cardinality(threads_)
      BY <2>0, <1>1, Zenon
    <3> QED
      BY <3>1, <1>1, <1>t, <1>4 DEF TypeOK
  <2>7. Cardinality(Takers') =
          IF ~ ready_' THEN launched'
          ELSE IF count_' < nthreads_in_use_' THEN count_' ELSE nthreads_in_use_'
    BY <2>0, <2>1, <2>5, <2>6, <1>4
  <2> QED
    BY <2>0, <2>1, <2>7 DEF TakersInv
<1> QED
  BY <1>8, <1>9, <1>10, <1>11, <1>12 DEF IInv

LEMMA FuncStep ==
  ASSUME IInv, NEW t \in Thread, Func(t)
  PROVE  IInv'
<1>t. TypeOK /\ CreatedInv /\ OwnerInv /\ CallInv /\ TakersInv
  BY DEF IInv
<1>1. /\ pc[t] = "func" /\ calls[t] = 0
      /\ pc' = [pc EXCEPT ![t] = "spin"]
      /\ calls' = [calls EXCEPT ![t] = 1]
      /\ UNCHANGED <<threads_, nthreads_in_use_, ready_, count_, finish_, my_id, opc, ret, size, launched>>
  <2>1. pc[t] = "func" /\ calls[t] = 0
    BY <1>t DEF Func, CallInv
  <2> QED
    BY <2>1 DEF Func, GoTo, ownerVars
<1>2. /\ pc'[t] = "spin" /\ calls'[t] = 1
      /\ \A u \in Thread \ {t} : pc'[u] = pc[u] /\ calls'[u] = calls[u]
  BY <1>1, <1>t DEF TypeOK
<1>4. Numbered' = Numbered /\ Takers' = Takers
  BY <1>1, <1>2 DEF Numbered, Takers, Taker
<1>3. TypeOK'
  BY <1>1, <1>4, <1>t DEF TypeOK
<1>5. CreatedInv' /\ OwnerInv' /\ TakersInv'
  BY <1>1, <1>2, <1>4, <1>t DEF CreatedInv, OwnerInv, TakersInv
<1>6. CallInv'
  BY <1>1, <1>2, <1>4, <1>t DEF CallInv, Numbered
<1> QED
  BY <1>3, <1>5, <1>6 DEF IInv

LEMMA CheckOutStep ==
  ASSUME IInv, NEW t \in Thread, CheckOut(t)
  PROVE  IInv'
<1>t. TypeOK /\ CreatedInv /\ OwnerInv /\ CallInv /\ TakersInv
  BY DEF IInv
<1>1. /\ pc[t] = "back"
      /\ pc' = [pc EXCEPT ![t] = "top"]
      /\ count_' = count_ - 1
      /\ UNCHANGED <<threads_, nthreads_in_use_, ready_, finish_, my_id, calls, opc, ret, size, launched>>
  BY DEF CheckOut, GoTo, ownerVars
<1>2. pc'[t] = "top" /\ \A u \in Thread \ {t} : pc'[u] = pc[u]
  BY <1>1, <1>t DEF TypeOK
<1>3. threads_ \subseteq Thread /\ \A u \in Thread : u \in threads_ <=> pc[u] # "none"
  BY <1>t DEF TypeOK, CreatedInv
<1>4. t \in Numbered /\ Numbered' = Numbered \ {t}
  BY <1>1, <1>2 DEF Numbered
<1>5. count_ - 1 = Cardinality(Numbered') /\ Numbered' \subseteq threads_
  <2>1. IsFiniteSet(Numbered)
    BY <1>3, Sizes
  <2>2. Cardinality(Numbered') = Cardinality(Numbered) - 1
    BY <2>1, <1>4, FS_RemoveElement
  <2> QED
    BY <2>2, <1>4, <1>t DEF TypeOK
<1>6. TypeOK'
  BY <1>1, <1>5, <1>t DEF TypeOK
<1>7. CreatedInv'
  BY <1>1, <1>2, <1>3 DEF CreatedInv
<1>8. OwnerInv'
  BY <1>1, <1>4, <1>t DEF OwnerInv
<1>9. CallInv'
  BY <1>1, <1>2, <1>4, <1>t DEF CallInv
<1>10. TakersInv'
  <2> SUFFICES ASSUME ~ finish_ PROVE TakersInv'
    BY <1>1 DEF TakersInv
  <2>1. ~ ready_
    BY <1>1, <1>t DEF CallInv
  <2>2. Takers' = Takers
    BY <1>1, <1>2 DEF Takers, Taker
  <2> QED
    BY <2>1, <2>2, <1>1, <1>4, <1>t DEF TakersInv
<1> QED
  BY <1>6, <1>7, <1>8, <1>9, <1>10 DEF IInv

-----------------------------------------------------------------------------
(* The steps of the owner.                                                 *)

LEMMA OwnerSteps ==
  ASSUME IInv,
         Resize \/ LaunchThreads \/ Wait \/ Destroy \/ ReadReady \/ ReadCount \/ Join
  PROVE  IInv'
<1>t. TypeOK /\ CreatedInv /\ OwnerInv
  BY DEF IInv
<1> USE DEF OwnerGoesTo, threadVars
<1>0. Cardinality(Thread) \in Nat
  BY ThreadAssumption, FS_CardinalityType
<1>1. Numbered' = Numbered
  BY DEF Resize, LaunchThreads, Wait, Destroy, ReadReady, ReadCount, Join, Numbered
<1>2. count_ = 0 => Numbered = {}
  <2>1. IsFiniteSet(Numbered)
    BY <1>t, Sizes DEF TypeOK, CreatedInv
  <2> QED
    BY <2>1, <1>t, FS_EmptySet DEF TypeOK
<1>3. CASE Resize
  BY <1>3, <1>0, <1>1, <1>t, OwnerMoves DEF Resize, OwnerInv
<1>4. CASE LaunchThreads \/ Wait \/ Destroy
  BY <1>4, <1>1, <1>t, OwnerMoves DEF LaunchThreads, Wait, Destroy, OwnerInv, TypeOK
<1>5. CASE ReadReady \/ Join
  BY <1>5, <1>1, <1>t, OwnerMoves DEF ReadReady, Join, OwnerInv, TypeOK
<1>6. CASE ReadCount
  BY <1>6, <1>1, <1>2, <1>t, OwnerMoves DEF ReadCount, OwnerInv, TypeOK
<1> QED
  BY <1>3, <1>4, <1>5, <1>6

(***************************************************************************)
(* resize, which finds all threads at rest.                                *)
(***************************************************************************)
LEMMA GrowStep ==
  ASSUME IInv, Grow
  PROVE  IInv'
<1>t. TypeOK /\ CreatedInv /\ OwnerInv /\ CallInv /\ TakersInv
  BY DEF IInv
<1>1. /\ opc = "grow" /\ ~ ready_ /\ ~ finish_ /\ Numbered = {}
      /\ UNCHANGED <<ready_, count_, finish_, my_id, calls, ret, size, launched>>
  BY <1>t DEF Grow, OwnerInv
<1>2. Takers = {t \in Thread : calls[t] = 1}
  BY <1>1 DEF Takers, Taker, Numbered
<1>3. ASSUME NEW t \in Thread \ threads_, threads_' = threads_ \cup {t},
             pc' = [pc EXCEPT ![t] = "top"], UNCHANGED <<nthreads_in_use_, opc>>
      PROVE  IInv'
  <2>1. pc'[t] = "top" /\ pc[t] = "none" /\ \A u \in Thread \ {t} : pc'[u] = pc[u]
    BY <1>3, <1>t DEF TypeOK, CreatedInv
  <2>2. Numbered' = {}
    BY <1>1, <2>1 DEF Numbered
  <2>3. Takers' = Takers
    BY <1>1, <1>2, <2>2 DEF Takers, Taker, Numbered
  <2>4. \A u \in Thread : u \in threads_' <=> pc'[u] # "none"
    BY <1>3, <2>1, <1>t DEF CreatedInv
  <2>5. /\ Cardinality(threads_') = Cardinality(threads_) + 1
        /\ Cardinality(threads_) \in Nat
    <3>1. IsFiniteSet(threads_) /\ Cardinality(threads_) \in Nat
      BY <1>t, Sizes DEF TypeOK, CreatedInv
    <3> QED
      BY <1>3, <3>1, FS_AddElement
  <2>6. TypeOK'
    BY <1>1, <1>3, <2>2, <2>5, <1>t DEF TypeOK
  <2>7. CreatedInv' /\ OwnerInv' /\ TakersInv'
    BY <1>1, <1>3, <2>2, <2>3, <2>4, <1>t DEF CreatedInv, OwnerInv, TakersInv
  <2>8. CallInv'
    BY <1>1, <2>1, <1>t DEF CallInv
  <2> QED
    BY <2>6, <2>7, <2>8 DEF IInv
<1>4. ASSUME Cardinality(threads_) >= size, nthreads_in_use_' = size, opc' = "user",
             UNCHANGED <<threads_, pc>>
      PROVE  IInv'
  <2>1. Numbered' = {} /\ Takers' = Takers
    BY <1>1, <1>2, <1>4 DEF Numbered, Takers, Taker
  <2>2. Cardinality(threads_) \in Nat
    BY <1>t, Sizes DEF TypeOK, CreatedInv
  <2>3. TypeOK'
    BY <1>1, <1>4, <2>1, <2>2, <1>t DEF TypeOK
  <2>4. CreatedInv' /\ OwnerInv' /\ TakersInv'
    BY <1>1, <1>4, <2>1, <1>t DEF CreatedInv, OwnerInv, TakersInv
  <2>5. CallInv'
    BY <1>1, <1>4, <1>t DEF CallInv
  <2> QED
    BY <2>3, <2>4, <2>5 DEF IInv
<1> QED
  BY <1>3, <1>4 DEF Grow, GoTo

LEMMA SetReadyStep ==
  ASSUME IInv, SetReady
  PROVE  IInv'
<1>t. TypeOK /\ CreatedInv /\ OwnerInv /\ CallInv
  BY DEF IInv
<1>1. /\ opc = "set" /\ opc' = "notify" /\ ready_' = TRUE
      /\ calls' = [t \in Thread |-> 0] /\ launched' = nthreads_in_use_
      /\ UNCHANGED <<threads_, nthreads_in_use_, count_, finish_, pc, my_id, ret, size>>
  BY DEF SetReady
<1>2. Numbered' = Numbered /\ (~ finish_ => Numbered = {})
  BY <1>1, <1>t DEF Numbered, OwnerInv
<1>3. TypeOK'
  BY <1>1, <1>2, <1>t DEF TypeOK
<1>4. CreatedInv' /\ OwnerInv'
  BY <1>1, <1>2, <1>t DEF CreatedInv, OwnerInv
<1>5. CallInv'
  BY <1>1, <1>2, <1>t DEF CallInv, Numbered
<1>6. TakersInv'
  <2> SUFFICES ASSUME ~ finish_ PROVE TakersInv'
    BY <1>1 DEF TakersInv
  <2>1. Takers' = {}
    BY <1>1, <1>2 DEF Takers, Taker, Numbered
  <2>2. Cardinality(Takers') = 0 /\ count_' = 0
    BY <2>1, <1>1, <1>2, <1>t, FS_EmptySet DEF TypeOK
  <2>3. nthreads_in_use_ \in Int /\ 0 <= nthreads_in_use_
    <3>1. Cardinality(threads_) \in Nat
      BY <1>t, Sizes DEF TypeOK, CreatedInv
    <3> QED
      BY <3>1, <1>t DEF TypeOK
  <2> QED
    BY <2>2, <2>3, <1>1 DEF TakersInv
<1> QED
  BY <1>3, <1>4, <1>5, <1>6 DEF IInv

LEMMA NotifyStep ==
  ASSUME IInv, Notify
  PROVE  IInv'
<1>t. TypeOK /\ CreatedInv /\ OwnerInv /\ CallInv /\ TakersInv
  BY DEF IInv
<1>1. /\ opc = "notify" /\ opc' = IF finish_ THEN "join" ELSE "user"
      /\ pc' = [t \in Thread |-> IF pc[t] = "asleep" THEN "lock" ELSE pc[t]]
      /\ UNCHANGED <<threads_, nthreads_in_use_, ready_, count_, finish_, my_id, calls, ret, size, launched>>
  BY DEF Notify
<1>2. \A t \in Thread : pc'[t] = IF pc[t] = "asleep" THEN "lock" ELSE pc[t]
  BY <1>1
<1>3. Numbered' = Numbered /\ Takers' = Takers
  BY <1>1, <1>2 DEF Numbered, Takers, Taker
<1>4. TypeOK'
  BY <1>1, <1>3, <1>t DEF TypeOK
<1>5. CreatedInv' /\ OwnerInv' /\ TakersInv'
  BY <1>1, <1>2, <1>3, <1>t DEF CreatedInv, OwnerInv, TakersInv
<1>6. CallInv'
  BY <1>1, <1>2, <1>3, <1>t DEF CallInv
<1> QED
  BY <1>4, <1>5, <1>6 DEF IInv

LEMMA CloseStep ==
  ASSUME IInv, Close
  PROVE  IInv'
<1>t. TypeOK /\ CreatedInv /\ OwnerInv /\ CallInv
  BY DEF IInv
<1>1. /\ opc = "close" /\ finish_' = TRUE /\ ret' = "set"
      /\ opc' \in {"ready", "join"}
      /\ UNCHANGED <<threads_, nthreads_in_use_, ready_, count_, pc, my_id, calls, size, launched>>
  BY DEF Close, threadVars
<1>2. Numbered' = Numbered /\ Numbered = {}
  BY <1>1, <1>t DEF Numbered, OwnerInv
<1>3. TypeOK'
  BY <1>1, <1>2, <1>t DEF TypeOK
<1>4. CreatedInv' /\ OwnerInv' /\ TakersInv'
  BY <1>1, <1>2, <1>t DEF CreatedInv, OwnerInv, TakersInv
<1>5. CallInv'
  BY <1>1, <1>2, <1>t DEF CallInv, Numbered
<1> QED
  BY <1>3, <1>4, <1>5 DEF IInv

-----------------------------------------------------------------------------
LEMMA StutterKeeps == IInv /\ UNCHANGED vars => IInv'
<1> SUFFICES ASSUME IInv, UNCHANGED vars PROVE IInv'
  OBVIOUS
<1> USE DEF vars, threadVars, ownerVars
<1>1. OwnerInv'
  BY DEF IInv, OwnerInv, Numbered
<1> QED
  BY <1>1, OwnerMoves DEF IInv, TypeOK

LEMMA StepKeeps == IInv /\ [Next]_vars => IInv'
<1>1. IInv /\ Next => IInv'
  BY MoveSteps, CheckInStep, FuncStep, CheckOutStep, OwnerSteps, GrowStep,
     SetReadyStep, NotifyStep, CloseStep DEF Next, Main, Working
<1> QED
  BY <1>1, StutterKeeps

THEOREM ThreadPoolInvariant == Spec => []IInv
  BY InitHolds, StepKeeps, PTL DEF Spec

(***************************************************************************)
(* count_ is exactly the number of threads that took a number and have not *)
(* given it back, though they wake up late and out of turn, and there are  *)
(* never more threads in use than were created, whatever the pool was      *)
(* resized to (ThreadPool::main, resize).                                  *)
(***************************************************************************)
THEOREM ThreadPoolTypes == Spec => []TypeOK
<1>1. IInv => TypeOK
  BY DEF IInv
<1> QED
  BY <1>1, ThreadPoolInvariant, PTL

(***************************************************************************)
(* A thread that is back from func_ does not run it a second time in the   *)
(* same launch, whenever the others wake up (ThreadPool::main).            *)
(***************************************************************************)
THEOREM CalledOnce == Spec => []OnceEach
<1>1. IInv => OnceEach
  <2> SUFFICES ASSUME IInv, NEW t \in Thread
               PROVE  calls[t] + (IF pc[t] = "func" THEN 1 ELSE 0) <= 1
    BY DEF OnceEach
  <2>1. calls[t] \in {0, 1} /\ (pc[t] = "func" => calls[t] = 0)
    BY DEF IInv, CallInv
  <2> QED
    BY <2>1
<1> QED
  BY <1>1, ThreadPoolInvariant, PTL

(***************************************************************************)
(* When wait lets the owner go on, all threads are at rest, and exactly as *)
(* many as were in use have run func_ (ThreadPool::wait, launch_theads).   *)
(***************************************************************************)
THEOREM LaunchComplete == Spec => []WaitIsComplete
<1>1. IInv => WaitIsComplete
  <2> SUFFICES ASSUME IInv, opc \in {"grow", "set", "close"}, ~ finish_
               PROVE  /\ \A t \in Thread : pc[t] \in {"none", "top", "lock", "wait", "asleep"}
                      /\ Cardinality({t \in Thread : calls[t] = 1}) = launched
    BY DEF WaitIsComplete
  <2>1. Numbered = {} /\ ~ ready_
    BY DEF IInv, OwnerInv
  <2>2. Takers = {t \in Thread : calls[t] = 1}
    BY <2>1 DEF Takers, Taker, Numbered
  <2>3. \A t \in Thread : pc[t] # "out"
    BY DEF IInv, CallInv
  <2> QED
    BY <2>1, <2>2, <2>3 DEF IInv, TakersInv, TypeOK, Numbered
<1> QED
  BY <1>1, ThreadPoolInvariant, PTL
=============================================================================
