----------------------------- MODULE ThreadPool -----------------------------
(***************************************************************************)
(* ThreadPool: threads that sleep until their owner launches them, all run *)
(* a function once, and go back to sleep (ThreadPool.h).                   *)
(*                                                                         *)
(* What a thread does with mutex_ taken is one step, but for its tests     *)
(* before the wait for a notification and the wait: finish_, which is set  *)
(* without the mutex, may be set in between.  The function is that of the  *)
(* user (for TaskPool, the loop of TaskPool!Loop); it ends.                *)
(***************************************************************************)
EXTENDS Integers, FiniteSets

CONSTANT Thread     \* the threads that resize may create

ASSUME ThreadAssumption == IsFiniteSet(Thread)

VARIABLES
  threads_,             \* those created
  nthreads_in_use_,     \* how many of them take part
  ready_,               \* a launch has not been seen by all
  count_,               \* how many have seen it and are not back
  finish_,              \* the pool is being destroyed
  pc, my_id,            \* of each thread
  opc,                  \* of the owner
  ret,                  \* where the owner goes on after wait
  size,                 \* the argument of resize
  launched,             \* how many threads were in use at the last launch
  calls                 \* how many times each thread called func_ since

threadVars == <<pc, my_id, calls>>
ownerVars  == <<opc, ret, size, launched>>
vars == <<threads_, nthreads_in_use_, ready_, count_, finish_, threadVars, ownerVars>>

Place ==
  {"none",                                  \* not created
   "top", "lock", "wait", "asleep",         \* down to cond_var_.wait, and in it
   "decide", "func", "spin", "back", "out"}

OwnerPlace ==
  {"user",                                  \* in no function of the pool
   "ready", "count",                        \* the two reads of wait
   "grow", "set", "notify", "close", "join", "gone"}

Init ==
  /\ threads_ = {}
  /\ nthreads_in_use_ = 0
  /\ ready_ = FALSE
  /\ count_ = 0
  /\ finish_ = FALSE
  /\ pc = [t \in Thread |-> "none"]
  /\ my_id = [t \in Thread |-> 0]
  /\ calls = [t \in Thread |-> 0]
  /\ opc = "user" /\ ret = "user"
  /\ size = 0
  /\ launched = 0

GoTo(t, place) == pc' = [pc EXCEPT ![t] = place]

(***************************************************************************)
(* A thread has mutex_, which the wait for a notification gives back.      *)
(***************************************************************************)
Locked == \E t \in Thread : pc[t] = "wait"

-----------------------------------------------------------------------------
(* ThreadPool::main.                                                       *)

Top(t) ==
  /\ pc[t] = "top"
  /\ GoTo(t, IF finish_ THEN "out" ELSE "lock")
  /\ UNCHANGED <<threads_, nthreads_in_use_, ready_, count_, finish_, my_id, calls, ownerVars>>

(***************************************************************************)
(* With nothing to do, the thread waits for a notification.  One that is   *)
(* sent after its tests and before the wait does not wake it up.           *)
(***************************************************************************)
NothingToDo(t) ==
  /\ pc[t] = "lock" /\ ~ Locked /\ ~ ready_ /\ ~ finish_
  /\ GoTo(t, "wait")
  /\ UNCHANGED <<threads_, nthreads_in_use_, ready_, count_, finish_, my_id, calls, ownerVars>>

Sleep(t) ==
  /\ pc[t] = "wait"
  /\ GoTo(t, "asleep")
  /\ UNCHANGED <<threads_, nthreads_in_use_, ready_, count_, finish_, my_id, calls, ownerVars>>

(***************************************************************************)
(* Wake-ups without a reason, which the standard allows.                   *)
(***************************************************************************)
Spurious(t) ==
  /\ pc[t] = "asleep"
  /\ GoTo(t, "lock")
  /\ UNCHANGED <<threads_, nthreads_in_use_, ready_, count_, finish_, my_id, calls, ownerVars>>

(***************************************************************************)
(* The thread takes its number; the last one ends the launch.              *)
(***************************************************************************)
CheckIn(t) ==
  /\ pc[t] = "lock" /\ ~ Locked /\ (ready_ \/ finish_)
  /\ my_id' = [my_id EXCEPT ![t] = count_]
  /\ count_' = count_ + 1
  /\ ready_' = (ready_ /\ count_' # Cardinality(threads_))
  /\ GoTo(t, "decide")
  /\ UNCHANGED <<threads_, nthreads_in_use_, finish_, calls, ownerVars>>

(***************************************************************************)
(* Only so many take part.                                                 *)
(***************************************************************************)
Decide(t) ==
  /\ pc[t] = "decide"
  /\ GoTo(t, IF ~ finish_ /\ my_id[t] < nthreads_in_use_ THEN "func" ELSE "spin")
  /\ UNCHANGED <<threads_, nthreads_in_use_, ready_, count_, finish_, my_id, calls, ownerVars>>

Func(t) ==
  /\ pc[t] = "func"
  /\ calls' = [calls EXCEPT ![t] = @ + 1]
  /\ GoTo(t, "spin")
  /\ UNCHANGED <<threads_, nthreads_in_use_, ready_, count_, finish_, my_id, ownerVars>>

(***************************************************************************)
(* Mutation of Spin: nobody waits for the threads that are still asleep.   *)
(***************************************************************************)
Spin_Not(t) ==
  /\ pc[t] = "spin"
  /\ GoTo(t, "back")
  /\ UNCHANGED <<threads_, nthreads_in_use_, ready_, count_, finish_, my_id, calls, ownerVars>>

(***************************************************************************)
(* The threads wait until all have taken their number.                     *)
(***************************************************************************)
Spin(t) ==
  /\ pc[t] = "spin" /\ (~ ready_ \/ finish_)
  /\ GoTo(t, "back")
  /\ UNCHANGED <<threads_, nthreads_in_use_, ready_, count_, finish_, my_id, calls, ownerVars>>

(***************************************************************************)
(* Mutation of CheckOut: the thread does not give its number back.         *)
(***************************************************************************)
CheckOut_Kept(t) ==
  /\ pc[t] = "back" /\ ~ Locked
  /\ GoTo(t, "top")
  /\ UNCHANGED <<threads_, nthreads_in_use_, ready_, count_, finish_, my_id, calls, ownerVars>>

CheckOut(t) ==
  /\ pc[t] = "back" /\ ~ Locked
  /\ count_' = count_ - 1
  /\ GoTo(t, "top")
  /\ UNCHANGED <<threads_, nthreads_in_use_, ready_, finish_, my_id, calls, ownerVars>>

-----------------------------------------------------------------------------
(* The owner.  Every operation of it begins with a wait.                   *)

OwnerGoesTo(place) ==
  /\ opc' = place
  /\ UNCHANGED <<threads_, nthreads_in_use_, ready_, count_, finish_, threadVars>>

Resize ==
  /\ opc = "user"
  /\ size' \in 0 .. Cardinality(Thread)
  /\ ret' = "grow"
  /\ OwnerGoesTo("ready") /\ UNCHANGED launched

LaunchThreads ==
  /\ opc = "user" /\ nthreads_in_use_ # 0
  /\ ret' = "set"
  /\ OwnerGoesTo("ready") /\ UNCHANGED <<size, launched>>

Wait ==
  /\ opc = "user"
  /\ ret' = "user"
  /\ OwnerGoesTo("ready") /\ UNCHANGED <<size, launched>>

Destroy ==
  /\ opc = "user"
  /\ ret' = "close"
  /\ OwnerGoesTo("ready") /\ UNCHANGED <<size, launched>>

(***************************************************************************)
(* The two reads of wait.  Where there is a wait the test is the guard.    *)
(***************************************************************************)
ReadReady ==
  /\ opc = "ready" /\ ~ ready_
  /\ OwnerGoesTo("count") /\ UNCHANGED <<ret, size, launched>>

(***************************************************************************)
(* Mutation of ReadCount: wait looks at ready_ only.                       *)
(***************************************************************************)
ReadCount_Not ==
  /\ opc = "count"
  /\ OwnerGoesTo(ret) /\ UNCHANGED <<ret, size, launched>>

ReadCount ==
  /\ opc = "count"
  /\ OwnerGoesTo(IF count_ = 0 THEN ret ELSE "ready")
  /\ UNCHANGED <<ret, size, launched>>

(***************************************************************************)
(* resize creates the threads that are missing one by one; they run        *)
(* meanwhile.  With enough of them it only changes how many are in use.    *)
(***************************************************************************)
Grow ==
  /\ opc = "grow"
  /\ \/ \E t \in Thread \ threads_ :
          /\ Cardinality(threads_) < size
          /\ threads_' = threads_ \cup {t}
          /\ GoTo(t, "top")
          /\ UNCHANGED <<nthreads_in_use_, opc>>
     \/ /\ Cardinality(threads_) >= size
        /\ nthreads_in_use_' = size
        /\ opc' = "user"
        /\ UNCHANGED <<threads_, pc>>
  /\ UNCHANGED <<ready_, count_, finish_, my_id, calls, ret, size, launched>>

(***************************************************************************)
(* Mutation of SetReady: the mutex is not taken.                           *)
(***************************************************************************)
SetReady_Unlocked ==
  /\ opc = "set"
  /\ ready_' = TRUE
  /\ calls' = [t \in Thread |-> 0]
  /\ launched' = nthreads_in_use_
  /\ opc' = "notify"
  /\ UNCHANGED <<threads_, nthreads_in_use_, count_, finish_, pc, my_id, ret, size>>

SetReady ==
  /\ opc = "set" /\ ~ Locked
  /\ ready_' = TRUE
  /\ calls' = [t \in Thread |-> 0]
  /\ launched' = nthreads_in_use_
  /\ opc' = "notify"
  /\ UNCHANGED <<threads_, nthreads_in_use_, count_, finish_, pc, my_id, ret, size>>

(***************************************************************************)
(* Mutation of Notify: one thread is notified.                             *)
(***************************************************************************)
Notify_One ==
  /\ opc = "notify"
  /\ \E t \in Thread : GoTo(t, IF pc[t] = "asleep" THEN "lock" ELSE pc[t])
  /\ opc' = IF finish_ THEN "join" ELSE "user"
  /\ UNCHANGED <<threads_, nthreads_in_use_, ready_, count_, finish_, my_id, calls, ret, size, launched>>

Notify ==
  /\ opc = "notify"
  /\ pc' = [t \in Thread |-> IF pc[t] = "asleep" THEN "lock" ELSE pc[t]]
  /\ opc' = IF finish_ THEN "join" ELSE "user"
  /\ UNCHANGED <<threads_, nthreads_in_use_, ready_, count_, finish_, my_id, calls, ret, size, launched>>

(***************************************************************************)
(* The destructor: launch_theads, which does nothing when no thread is in  *)
(* use, is what wakes the threads up so that they see finish_.             *)
(***************************************************************************)
Close ==
  /\ opc = "close"
  /\ finish_' = TRUE
  /\ opc' = IF nthreads_in_use_ # 0 THEN "ready" ELSE "join"
  /\ ret' = "set"
  /\ UNCHANGED <<threads_, nthreads_in_use_, ready_, count_, threadVars, size, launched>>

Join ==
  /\ opc = "join"
  /\ \A t \in threads_ : pc[t] = "out"
  /\ OwnerGoesTo("gone") /\ UNCHANGED <<ret, size, launched>>

-----------------------------------------------------------------------------
Main(t) ==
  Top(t) \/ NothingToDo(t) \/ Sleep(t) \/ CheckIn(t) \/ Decide(t) \/ Func(t) \/ Spin(t) \/ CheckOut(t)

Working == ReadReady \/ ReadCount \/ Grow \/ SetReady \/ Notify \/ Close \/ Join

Next ==
  \/ \E t \in Thread : Main(t) \/ Spurious(t)
  \/ Resize \/ LaunchThreads \/ Wait \/ Destroy
  \/ Working

Spec == Init /\ [][Next]_vars

(***************************************************************************)
(* No thread stops but where it sleeps, and the owner goes on with what it *)
(* called.  Nothing says that it calls anything.  The mutex does not only  *)
(* go to threads that wake up without a reason, time and again.            *)
(***************************************************************************)
Fairness ==
  /\ WF_vars(Working) /\ \A t \in Thread : WF_vars(Main(t))
  /\ SF_vars(SetReady \/ \E t \in Thread : CheckOut(t))

FairSpec == Spec /\ Fairness

-----------------------------------------------------------------------------
(***************************************************************************)
(* The variables have their types, and count_ is exact: it counts those    *)
(* who took a number and have not given it back, in use or not.            *)
(***************************************************************************)
Numbered == {t \in Thread : pc[t] \in {"decide", "func", "spin", "back"}}

TypeOK ==
  /\ threads_ \subseteq Thread
  /\ nthreads_in_use_ \in 0 .. Cardinality(threads_)
  /\ ready_ \in BOOLEAN /\ finish_ \in BOOLEAN
  /\ count_ = Cardinality(Numbered) /\ Numbered \subseteq threads_
  /\ pc \in [Thread -> Place]
  /\ my_id \in [Thread -> Nat]
  /\ opc \in OwnerPlace /\ ret \in OwnerPlace
  /\ size \in Nat
  /\ launched \in 0 .. Cardinality(threads_)
  /\ calls \in [Thread -> Nat]

(***************************************************************************)
(* Nobody takes part twice in a launch, however late others wake up.       *)
(***************************************************************************)
OnceEach == \A t \in Thread : calls[t] + (IF pc[t] = "func" THEN 1 ELSE 0) <= 1

(***************************************************************************)
(* What the owner changes after a wait it changes behind nobody's back:    *)
(* the threads are asleep, or about to be, and exactly as many as were in  *)
(* use have run the function.                                              *)
(***************************************************************************)
WaitIsComplete ==
  opc \in {"grow", "set", "close"} /\ ~ finish_ =>
    /\ \A t \in Thread : pc[t] \in {"none", "top", "lock", "wait", "asleep"}
    /\ Cardinality({t \in Thread : calls[t] = 1}) = launched

(***************************************************************************)
(* A launch gets to all the threads and ends.                              *)
(***************************************************************************)
LaunchEnds == (opc = "notify" /\ ~ finish_) ~> (~ ready_ /\ count_ = 0)

(***************************************************************************)
(* What the owner calls returns.  The exception is the destructor of a     *)
(* pool that was resized to no threads: it wakes up none, and waits.       *)
(***************************************************************************)
CallsReturn ==
  (opc # "user") ~> \/ opc \in {"user", "gone"}
                    \/ opc = "join" /\ nthreads_in_use_ = 0
=============================================================================
