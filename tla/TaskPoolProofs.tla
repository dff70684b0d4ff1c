--------------------------- MODULE TaskPoolProofs ---------------------------
(***************************************************************************)
(* When wait gives up waiting, the pool is quiet, and the pool is the bag  *)
(* of tasks that TaskBag describes: for any number of threads and tasks,   *)
(* and queues of any size.                                                 *)
(***************************************************************************)
EXTENDS TaskPool, FiniteSetTheorems, SequenceTheorems, TLAPS

(***************************************************************************)
(* Where a thread may be, and that one in the middle of a task is where it *)
(* runs it or looks for another to run on top of it.                       *)
(***************************************************************************)
Running == {"run", "pop_hp", "pop", "pop_hp_only"}

MainPlace == Running \cup {"load", "finish", "join", "off"}

ThreadPlace == Running \cup {"top", "sub", "idle", "add", "exit", "out"}

PlaceInv ==
  /\ pc[Main] \in MainPlace
  /\ \A p \in Thread : pc[p] \in ThreadPlace
  /\ \A p \in Proc : /\ pc[p] \in {"run", "pop_hp_only"} => stack[p] # <<>>
                     /\ stack[p] # <<>> => pc[p] \in Running

(***************************************************************************)
(* busy_threads_ counts the threads that have not said that they are out   *)
(* of work.                                                                *)
(***************************************************************************)
Counted == {p \in Thread : pc[p] \notin {"idle", "add", "out"}}

CountInv == busy_threads_ = Cardinality(Counted)

(***************************************************************************)
(* A thread that will look in the queue of high priority before it says so *)
(* (Eager), and one that will look in one of the two (Willing).  What is   *)
(* put in a queue after wait found it empty comes from such a thread, and  *)
(* it stays so as long as the queue is not empty again.                    *)
(***************************************************************************)
Eager(p) == stack[p] # <<>> \/ pc[p] = "pop_hp"

Willing(p) == Eager(p) \/ pc[p] = "pop"

HpSeenEmpty == stack[Main] = <<>> /\ pc[Main] \in {"pop", "load"}

WatchInv ==
  /\ HpSeenEmpty /\ hp_queue_ # <<>> => \E p \in Thread : Eager(p)
  /\ pc[Main] = "load" /\ queue_ # <<>> => \E p \in Thread : Willing(p)

IInv == TypeOK /\ PlaceInv /\ CountInv /\ WatchInv /\ WaitIsQuiescent

USE DEF Proc, Func, Place, Running, MainPlace, ThreadPlace

LEMMA InitHolds == Init => IInv
<1> SUFFICES ASSUME Init PROVE IInv
  OBVIOUS
<1> USE DEF Init
<1>1. TypeOK
  BY QueueSizeAssumption DEF TypeOK
<1>2. PlaceInv
  BY MainAssumption DEF PlaceInv
<1>3. CountInv
  <2>1. Counted = {}
    BY MainAssumption DEF Counted
  <2> QED
    BY <2>1, FS_EmptySet DEF CountInv
<1>4. WatchInv
  BY DEF WatchInv, HpSeenEmpty
<1>5. WaitIsQuiescent
  BY DEF WaitIsQuiescent
<1> QED
  BY <1>1, <1>2, <1>3, <1>4, <1>5 DEF IInv

(***************************************************************************)
(* Taking one task off the stack leaves others, unless it was the last.    *)
(***************************************************************************)
LEMMA TailOfMany ==
  ASSUME NEW s \in Seq(Func), s # <<>>, Len(s) # 1
  PROVE  Tail(s) # <<>>
<1> SUFFICES ASSUME Tail(s) = <<>> PROVE FALSE
  OBVIOUS
<1>1. Len(s) \in Nat \ {0} /\ Len(Tail(s)) = Len(s) - 1
  OBVIOUS
<1>2. Len(Tail(s)) = 0
  BY EmptySeq, Zenon
<1> QED
  BY <1>1, <1>2

(***************************************************************************)
(* What a thread at "run" enqueues next is a task, and comes from its      *)
(* stack.                                                                  *)
(***************************************************************************)
LEMMA RunFacts ==
  ASSUME IInv, NEW p \in Proc, pc[p] = "run"
  PROVE  /\ stack[p] # <<>> /\ stack[p] \in Seq(Func) /\ Head(stack[p]) \in Func
         /\ enqueued[Head(stack[p])] < Len(Kids[Head(stack[p])])
              => NextKid(Head(stack[p])) \in Task
<1>1. stack[p] # <<>> /\ stack[p] \in Seq(Func)
  BY DEF IInv, TypeOK, PlaceInv
<1>2. Head(stack[p]) \in Func
  BY <1>1
<1>3. ASSUME NEW f \in Func, enqueued[f] < Len(Kids[f])
      PROVE  NextKid(f) \in Task
  <2>1. Kids[f] \in Seq(Task) /\ enqueued[f] \in Nat
    BY KidsAssumption DEF IInv, TypeOK
  <2>2. enqueued[f] + 1 \in 1 .. Len(Kids[f])
    BY <2>1, <1>3
  <2> QED
    BY <2>1, <2>2 DEF NextKid
<1> QED
  BY <1>1, <1>2, <1>3

LEMMA TypePlaceStep == IInv /\ Next => TypeOK' /\ PlaceInv'
<1> SUFFICES ASSUME IInv, Next PROVE TypeOK' /\ PlaceInv'
  OBVIOUS
<1> USE MainAssumption DEF GoTo
<1>t. TypeOK /\ PlaceInv
  BY DEF IInv
<1>1. ASSUME NEW p \in Proc, Push(p) PROVE TypeOK' /\ PlaceInv'
  <2> DEFINE f == Head(stack[p])
             t == NextKid(f)
  <2>1. pc[p] = "run" /\ enqueued[f] < Len(Kids[f]) /\ Fits(t)
    BY <1>1 DEF Push
  <2>2. f \in Func /\ t \in Task
    BY <2>1, RunFacts
  <2> HIDE DEF f, t
  <2>3. /\ queue_' = Into(queue_, t, FALSE)
        /\ hp_queue_' = Into(hp_queue_, t, TRUE)
        /\ enqueued' = [enqueued EXCEPT ![f] = @ + 1]
        /\ UNCHANGED <<finish_, busy_threads_, pc, stack, done>>
    BY <1>1 DEF Push, f, t
  <2>4. queue_' \in Seq(Task \ Hp) /\ Len(queue_') <= QueueSize
    BY <2>1, <2>2, <2>3, <1>t, QueueSizeAssumption DEF TypeOK, Into, Fits
  <2>5. hp_queue_' \in Seq(Hp) /\ Len(hp_queue_') <= QueueSize
    BY <2>1, <2>2, <2>3, <1>t, QueueSizeAssumption DEF TypeOK, Into, Fits
  <2>6. enqueued' \in [Func -> Nat]
    BY <2>2, <2>3, <1>t DEF TypeOK
  <2> QED
    BY <2>3, <2>4, <2>5, <2>6, <1>t DEF TypeOK, PlaceInv
<1>2. ASSUME NEW p \in Proc, PushFull(p) \/ Join(p) PROVE TypeOK' /\ PlaceInv'
  <2>1. /\ pc[p] = "run"
        /\ pc' = [pc EXCEPT ![p] = "pop_hp"] \/ pc' = [pc EXCEPT ![p] = "pop_hp_only"]
        /\ UNCHANGED <<queues, finish_, busy_threads_, stack, enqueued, done>>
    BY <1>2 DEF PushFull, Join
  <2>2. stack[p] # <<>>
    BY <2>1, <1>t DEF PlaceInv
  <2> QED
    BY <2>1, <2>2, <1>t DEF TypeOK, PlaceInv, queues
<1>3. ASSUME NEW p \in Proc, Return(p) PROVE TypeOK' /\ PlaceInv'
  <2> DEFINE f == Head(stack[p])
  <2>1. pc[p] = "run" /\ f # Main
    BY <1>3 DEF Return
  <2>2. f \in Task /\ stack[p] # <<>> /\ stack[p] \in Seq(Func)
    BY <2>1, RunFacts
  <2> HIDE DEF f
  <2>3. /\ done' = done \cup {f}
        /\ stack' = [stack EXCEPT ![p] = Tail(@)]
        /\ pc' = [pc EXCEPT ![p] = IF Len(stack[p]) = 1 THEN "pop_hp" ELSE "run"]
        /\ UNCHANGED <<queues, finish_, busy_threads_, enqueued>>
    BY <1>3 DEF Return, f
  <2>4. Tail(stack[p]) \in Seq(Func) /\ (Len(stack[p]) # 1 => Tail(stack[p]) # <<>>)
    BY <2>2, TailOfMany
  <2>5. TypeOK'
    BY <2>2, <2>3, <2>4, <1>t DEF TypeOK, queues
  <2>6. PlaceInv'
    BY <2>3, <2>4, <1>t DEF TypeOK, PlaceInv
  <2> QED
    BY <2>5, <2>6
<1>4. ASSUME NEW p \in Proc, PopHp(p) PROVE TypeOK' /\ PlaceInv'
  <2>1. CASE hp_queue_ # <<>>
    <3>1. Head(hp_queue_) \in Func /\ Tail(hp_queue_) \in Seq(Hp) /\ Len(Tail(hp_queue_)) <= QueueSize
      BY <2>1, <1>t, HpAssumption, QueueSizeAssumption DEF TypeOK
    <3>2. <<Head(hp_queue_)>> \o stack[p] \in Seq(Func) /\ <<Head(hp_queue_)>> \o stack[p] # <<>>
      BY <3>1, <1>t DEF TypeOK
    <3>3. /\ hp_queue_' = Tail(hp_queue_)
          /\ stack' = [stack EXCEPT ![p] = <<Head(hp_queue_)>> \o stack[p]]
          /\ pc' = [pc EXCEPT ![p] = "run"]
          /\ UNCHANGED <<queue_, finish_, busy_threads_, enqueued, done>>
      BY <1>4, <2>1 DEF PopHp
    <3>4. TypeOK'
      BY <3>1, <3>2, <3>3, <1>t DEF TypeOK
    <3>5. PlaceInv'
      BY <3>2, <3>3, <1>t DEF TypeOK, PlaceInv
    <3> QED
      BY <3>4, <3>5
  <2>2. CASE hp_queue_ = <<>>
    <3>1. /\ pc[p] \in {"pop_hp", "pop_hp_only"}
          /\ pc' = [pc EXCEPT ![p] = IF pc[p] = "pop_hp" THEN "pop" ELSE "run"]
          /\ UNCHANGED <<queue_, hp_queue_, finish_, busy_threads_, stack, enqueued, done>>
      BY <1>4, <2>2 DEF PopHp
    <3> QED
      BY <3>1, <1>t DEF TypeOK, PlaceInv
  <2> QED
    BY <2>1, <2>2
<1>5. ASSUME NEW p \in Proc, Pop(p) PROVE TypeOK' /\ PlaceInv'
  <2>1. CASE queue_ # <<>>
    <3>1. Head(queue_) \in Func /\ Tail(queue_) \in Seq(Task \ Hp) /\ Len(Tail(queue_)) <= QueueSize
      BY <2>1, <1>t, QueueSizeAssumption DEF TypeOK
    <3>2. <<Head(queue_)>> \o stack[p] \in Seq(Func) /\ <<Head(queue_)>> \o stack[p] # <<>>
      BY <3>1, <1>t DEF TypeOK
    <3>3. /\ queue_' = Tail(queue_)
          /\ stack' = [stack EXCEPT ![p] = <<Head(queue_)>> \o stack[p]]
          /\ pc' = [pc EXCEPT ![p] = "run"]
          /\ UNCHANGED <<hp_queue_, finish_, busy_threads_, enqueued, done>>
      BY <1>5, <2>1 DEF Pop
    <3>4. TypeOK'
      BY <3>1, <3>2, <3>3, <1>t DEF TypeOK
    <3>5. PlaceInv'
      BY <3>2, <3>3, <1>t DEF TypeOK, PlaceInv
    <3> QED
      BY <3>4, <3>5
  <2>2. CASE queue_ = <<>>
    <3>1. /\ pc' = [pc EXCEPT ![p] = IF stack[p] # <<>> THEN "run"
                                     ELSE IF p = Main THEN "load" ELSE "sub"]
          /\ UNCHANGED <<queue_, hp_queue_, finish_, busy_threads_, stack, enqueued, done>>
      BY <1>5, <2>2 DEF Pop
    <3> QED
      BY <3>1, <1>t DEF TypeOK, PlaceInv
  <2> QED
    BY <2>1, <2>2
<1>6. ASSUME NEW p \in Thread, Loop(p) PROVE TypeOK' /\ PlaceInv'
  <2>1. /\ pc[p] \in {"top", "sub", "idle", "add", "exit"}
        /\ \E place \in {"exit", "pop_hp", "idle", "add", "top", "out"} :
              pc' = [pc EXCEPT ![p] = place]
        /\ UNCHANGED <<queues, finish_, stack, enqueued, done>>
        /\ busy_threads_' \in {busy_threads_, busy_threads_ - 1, busy_threads_ + 1}
    BY <1>6 DEF Loop, Top, OutOfWork, Wake, Resume, Exit
  <2>2. PICK place \in {"exit", "pop_hp", "idle", "add", "top", "out"} :
           pc' = [pc EXCEPT ![p] = place]
    BY <2>1
  <2>3. TypeOK'
    BY <2>1, <2>2, <1>t DEF TypeOK, queues
  <2>4. \A q \in Proc : pc'[q] = IF q = p THEN place ELSE pc[q]
    BY <2>2, <1>t DEF TypeOK
  <2>5. PlaceInv'
    BY <2>1, <2>4, <1>t DEF PlaceInv
  <2> QED
    BY <2>3, <2>5
<1>7. ASSUME Launch PROVE TypeOK' /\ PlaceInv'
  <2>1. busy_threads_' \in Int
    BY <1>7, ThreadAssumption, FS_CardinalityType DEF Launch
  <2>2. \A p \in Thread : stack[p] = <<>>
    BY <1>7 DEF Launch, IInv, WaitIsQuiescent
  <2>3. /\ stack' \in [Proc -> Seq(Func)] /\ stack'[Main] # <<>>
        /\ \A p \in Thread : stack'[p] = <<>>
    BY <1>7, <2>2, <1>t DEF Launch, TypeOK
  <2> QED
    BY <1>7, <2>1, <2>3, <1>t DEF Launch, TypeOK, PlaceInv, queues
<1>8. ASSUME Wait PROVE TypeOK' /\ PlaceInv'
  BY <1>8, <1>t DEF Wait, TypeOK, PlaceInv, queues
<1>9. ASSUME Waiting PROVE TypeOK' /\ PlaceInv'
  BY <1>9, <1>t DEF Waiting, TestBusy, Finish, JoinThreads, TypeOK, PlaceInv, queues
<1> QED
  BY <1>1, <1>2, <1>3, <1>4, <1>5, <1>6, <1>7, <1>8, <1>9 DEF Next, Run

(***************************************************************************)
(* Counting.                                                               *)
(***************************************************************************)
LEMMA CountStep == IInv /\ Next => CountInv'
<1> SUFFICES ASSUME IInv, Next PROVE CountInv'
  OBVIOUS
<1> USE MainAssumption DEF GoTo
<1>t. TypeOK /\ PlaceInv /\ CountInv
  BY DEF IInv
<1>f. IsFiniteSet(Counted)
  BY ThreadAssumption, FS_Subset DEF Counted
<1>s. ASSUME busy_threads_' = busy_threads_, Counted' = Counted PROVE CountInv'
  BY <1>s, <1>t DEF CountInv
<1>l. ASSUME NEW p \in Counted, busy_threads_' = busy_threads_ - 1, Counted' = Counted \ {p}
      PROVE  CountInv'
  BY <1>l, <1>t, <1>f, FS_RemoveElement DEF CountInv
<1>1. ASSUME NEW p \in Proc, Run(p) PROVE CountInv'
  <2>1. /\ pc[p] \notin {"idle", "add", "out"}
        /\ \E place \in Place \ {"idle", "add", "out"} :
              pc' = [pc EXCEPT ![p] = place]
        /\ busy_threads_' = busy_threads_
    <3>1. CASE Push(p)
      <4>1. pc' = [pc EXCEPT ![p] = "run"] /\ pc[p] = "run"
        BY <3>1, <1>t DEF Push, TypeOK
      <4> QED
        BY <3>1, <4>1 DEF Push
    <3>2. CASE PushFull(p)
      BY <3>2 DEF PushFull
    <3>3. CASE Join(p)
      BY <3>3 DEF Join
    <3>4. CASE Return(p)
      BY <3>4 DEF Return
    <3>5. CASE PopHp(p)
      BY <3>5 DEF PopHp
    <3>6. CASE Pop(p)
      BY <3>6 DEF Pop
    <3> QED
      BY <1>1, <3>1, <3>2, <3>3, <3>4, <3>5, <3>6 DEF Run
  <2>2. Counted' = Counted
    BY <2>1, <1>t DEF Counted, TypeOK
  <2> QED
    BY <2>1, <2>2, <1>s
<1>2. ASSUME NEW p \in Thread, Top(p) \/ Wake(p) PROVE CountInv'
  <2>1. busy_threads_' = busy_threads_
    BY <1>2 DEF Top, Wake
  <2>2. Counted' = Counted
    BY <1>2, <1>t DEF Top, Wake, Counted, TypeOK
  <2> QED
    BY <2>1, <2>2, <1>s
<1>3. ASSUME NEW p \in Thread, OutOfWork(p) \/ Exit(p) PROVE CountInv'
  <2>1. p \in Counted /\ busy_threads_' = busy_threads_ - 1
    BY <1>3 DEF OutOfWork, Exit, Counted
  <2>2. Counted' = Counted \ {p}
    BY <1>3, <1>t DEF OutOfWork, Exit, Counted, TypeOK
  <2> QED
    BY <2>1, <2>2, <1>l
<1>4. ASSUME NEW p \in Thread, Resume(p) PROVE CountInv'
  <2>1. p \notin Counted /\ busy_threads_' = busy_threads_ + 1
    BY <1>4 DEF Resume, Counted
  <2>2. Counted' = Counted \cup {p}
    BY <1>4, <1>t DEF Resume, Counted, TypeOK
  <2> QED
    BY <2>1, <2>2, <1>t, <1>f, FS_AddElement DEF CountInv
<1>5. ASSUME Launch PROVE CountInv'
  <2>1. Counted' = Thread
    BY <1>5 DEF Launch, Counted
  <2> QED
    BY <1>5, <2>1 DEF Launch, CountInv
<1>6. ASSUME Wait \/ Waiting PROVE CountInv'
  <2>1. busy_threads_' = busy_threads_
    BY <1>6 DEF Wait, Waiting, TestBusy, Finish, JoinThreads
  <2>2. Counted' = Counted
    BY <1>6, <1>t DEF Wait, Waiting, TestBusy, Finish, JoinThreads, Counted, TypeOK
  <2> QED
    BY <2>1, <2>2, <1>s
<1> QED
  BY <1>1, <1>2, <1>3, <1>4, <1>5, <1>6 DEF Next, Loop

(***************************************************************************)
(* Watching over the queues.  A thread that runs something is Eager, and a *)
(* queue only gets a task from such a thread.                              *)
(***************************************************************************)
LEMMA WatchStep == IInv /\ Next => WatchInv'
<1> SUFFICES ASSUME IInv, Next PROVE WatchInv'
  OBVIOUS
<1> USE MainAssumption DEF GoTo
<1>t. TypeOK /\ PlaceInv /\ WatchInv /\ WaitIsQuiescent
  BY DEF IInv
<1>1. ASSUME NEW p \in Proc, Push(p) PROVE WatchInv'
  <2>1. stack[p] # <<>> /\ pc[p] = "run" /\ UNCHANGED <<pc, stack>>
    BY <1>1, RunFacts DEF Push
  <2>2. CASE p = Main
    BY <2>1, <2>2 DEF WatchInv, HpSeenEmpty
  <2>3. CASE p \in Thread
    BY <2>1, <2>3 DEF WatchInv, HpSeenEmpty, Eager, Willing
  <2> QED
    BY <2>2, <2>3
<1>2. ASSUME NEW p \in Proc, PushFull(p) \/ Join(p) PROVE WatchInv'
  <2>1. /\ pc[p] = "run" /\ stack[p] # <<>>
        /\ pc' = [pc EXCEPT ![p] = "pop_hp"] \/ pc' = [pc EXCEPT ![p] = "pop_hp_only"]
        /\ UNCHANGED <<queue_, hp_queue_, stack>>
    BY <1>2, RunFacts DEF PushFull, Join, queues
  <2> QED
    BY <2>1, <1>t DEF WatchInv, HpSeenEmpty, Eager, Willing, TypeOK
<1>3. ASSUME NEW p \in Proc, Return(p) PROVE WatchInv'
  <2>1. stack[p] # <<>> /\ stack[p] \in Seq(Func) /\ pc[p] = "run"
    BY <1>3, RunFacts DEF Return
  <2>2. /\ stack' = [stack EXCEPT ![p] = Tail(@)]
        /\ pc' = [pc EXCEPT ![p] = IF Len(stack[p]) = 1 THEN "pop_hp" ELSE "run"]
        /\ UNCHANGED <<queue_, hp_queue_>>
    BY <1>3 DEF Return, queues
  <2>3. p \in Thread => Eager(p)'
    BY <2>1, <2>2, TailOfMany, <1>t DEF Eager, TypeOK
  <2>4. \A q \in Thread \ {p} : Eager(q)' = Eager(q) /\ Willing(q)' = Willing(q)
    BY <2>2, <1>t DEF Eager, Willing, TypeOK
  <2>5. p = Main => pc'[Main] \notin {"pop", "load"}
    BY <2>2, <1>t DEF TypeOK
  <2>6. p # Main => pc'[Main] = pc[Main] /\ stack'[Main] = stack[Main]
    BY <2>2, <1>t DEF TypeOK
  <2> QED
    BY <2>2, <2>3, <2>4, <2>5, <2>6, <1>t DEF WatchInv, HpSeenEmpty, Willing
<1>4. ASSUME NEW p \in Proc, PopHp(p) PROVE WatchInv'
  <2>1. CASE hp_queue_ # <<>>
    <3>1. /\ stack' = [stack EXCEPT ![p] = <<Head(hp_queue_)>> \o stack[p]]
          /\ pc' = [pc EXCEPT ![p] = "run"]
          /\ queue_' = queue_
      BY <1>4, <2>1 DEF PopHp
    <3>2. <<Head(hp_queue_)>> \o stack[p] # <<>>
      BY <1>t DEF TypeOK
    <3>3. \A q \in Thread : (Eager(q) => Eager(q)') /\ (Willing(q) => Willing(q)')
      BY <3>1, <3>2, <1>t DEF Eager, Willing, TypeOK
    <3>4. /\ HpSeenEmpty' => HpSeenEmpty
          /\ pc'[Main] = "load" => pc[Main] = "load"
      BY <3>1, <3>2, <1>t DEF HpSeenEmpty, TypeOK
    <3> QED
      BY <2>1, <3>1, <3>3, <3>4, <1>t DEF WatchInv
  <2>2. CASE hp_queue_ = <<>>
    <3>1. /\ pc[p] \in {"pop_hp", "pop_hp_only"}
          /\ pc' = [pc EXCEPT ![p] = IF pc[p] = "pop_hp" THEN "pop" ELSE "run"]
          /\ UNCHANGED <<queue_, hp_queue_, stack>>
      BY <1>4, <2>2 DEF PopHp
    <3>2. \A q \in Thread : Willing(q) => Willing(q)'
      BY <3>1, <1>t DEF Eager, Willing, TypeOK, PlaceInv
    <3>3. pc'[Main] = "load" => pc[Main] = "load"
      BY <3>1, <1>t DEF TypeOK
    <3> QED
      BY <2>2, <3>1, <3>2, <3>3, <1>t DEF WatchInv
  <2> QED
    BY <2>1, <2>2
<1>5. ASSUME NEW p \in Proc, Pop(p) PROVE WatchInv'
  <2>1. CASE queue_ # <<>>
    <3>1. /\ stack' = [stack EXCEPT ![p] = <<Head(queue_)>> \o stack[p]]
          /\ pc' = [pc EXCEPT ![p] = "run"]
          /\ hp_queue_' = hp_queue_
      BY <1>5, <2>1 DEF Pop
    <3>2. <<Head(queue_)>> \o stack[p] # <<>>
      BY <1>t DEF TypeOK
    <3>3. \A q \in Thread : (Eager(q) => Eager(q)') /\ (Willing(q) => Willing(q)')
      BY <3>1, <3>2, <1>t DEF Eager, Willing, TypeOK
    <3>4. /\ HpSeenEmpty' => HpSeenEmpty
          /\ pc'[Main] = "load" => pc[Main] = "load"
      BY <3>1, <3>2, <1>t DEF HpSeenEmpty, TypeOK
    <3> QED
      BY <2>1, <3>1, <3>3, <3>4, <1>t DEF WatchInv
  <2>2. CASE queue_ = <<>>
    <3>1. /\ pc[p] = "pop"
          /\ pc' = [pc EXCEPT ![p] = IF stack[p] # <<>> THEN "run"
                                     ELSE IF p = Main THEN "load" ELSE "sub"]
          /\ UNCHANGED <<queue_, hp_queue_, stack>>
      BY <1>5, <2>2 DEF Pop
    <3>2. \A q \in Thread : Eager(q) => Eager(q)'
      BY <3>1, <1>t DEF Eager, TypeOK
    <3>3. HpSeenEmpty' => HpSeenEmpty
      BY <3>1, <1>t DEF HpSeenEmpty, TypeOK
    <3> QED
      BY <2>2, <3>1, <3>2, <3>3, <1>t DEF WatchInv
  <2> QED
    BY <2>1, <2>2
<1>6. ASSUME NEW p \in Thread, Loop(p) PROVE WatchInv'
  <2>1. /\ pc[p] \in {"top", "sub", "idle", "add", "exit"}
        /\ \E place \in {"exit", "pop_hp", "idle", "add", "top", "out"} :
              pc' = [pc EXCEPT ![p] = place]
        /\ UNCHANGED <<queue_, hp_queue_, stack>>
    BY <1>6 DEF Loop, Top, OutOfWork, Wake, Resume, Exit, queues
  <2>2. \A q \in Thread : (Eager(q) => Eager(q)') /\ (Willing(q) => Willing(q)')
    BY <2>1, <1>t DEF Eager, Willing, TypeOK
  <2>3. pc'[Main] = pc[Main]
    BY <2>1, <1>t DEF TypeOK
  <2> QED
    BY <2>1, <2>2, <2>3, <1>t DEF WatchInv, HpSeenEmpty
<1>7. ASSUME Launch \/ Wait \/ Finish \/ JoinThreads PROVE WatchInv'
  BY <1>7, <1>t DEF Launch, Wait, Finish, JoinThreads, WatchInv, HpSeenEmpty, TypeOK
<1>8. ASSUME TestBusy PROVE WatchInv'
  BY <1>8, <1>t DEF TestBusy, WatchInv, HpSeenEmpty, TypeOK
<1> QED
  BY <1>1, <1>2, <1>3, <1>4, <1>5, <1>6, <1>7, <1>8 DEF Next, Run, Waiting

(***************************************************************************)
(* The decision of wait: no thread is counted, so none is Willing, and     *)
(* nothing was put in a queue behind its back.                             *)
(***************************************************************************)
LEMMA ZeroMeansQuiet ==
  ASSUME IInv, pc[Main] = "load", busy_threads_ = 0
  PROVE  /\ queue_ = <<>> /\ hp_queue_ = <<>>
         /\ \A p \in Proc : stack[p] = <<>>
<1> USE MainAssumption
<1>t. PlaceInv /\ CountInv /\ WatchInv
  BY DEF IInv
<1>1. Counted = {}
  <2>1. IsFiniteSet(Counted)
    BY ThreadAssumption, FS_Subset DEF Counted
  <2> QED
    BY <2>1, <1>t, FS_EmptySet DEF CountInv
<1>2. \A p \in Thread : ~ Willing(p)
  BY <1>1, <1>t DEF Counted, Willing, Eager, PlaceInv
<1>3. stack[Main] = <<>>
  BY <1>t DEF PlaceInv
<1> QED
  BY <1>2, <1>3, <1>t DEF WatchInv, HpSeenEmpty, Willing, Eager

LEMMA QuietStep == IInv /\ Next => WaitIsQuiescent'
<1> SUFFICES ASSUME IInv, Next, pc'[Main] \in {"finish", "join", "off"}
             PROVE  /\ queue_' = <<>> /\ hp_queue_' = <<>>
                    /\ \A p \in Proc : stack'[p] = <<>>
  BY DEF WaitIsQuiescent
<1> USE MainAssumption DEF GoTo
<1>t. TypeOK /\ PlaceInv /\ WaitIsQuiescent
  BY DEF IInv
<1>1. ASSUME NEW p \in Proc, Push(p) \/ PushFull(p) \/ Join(p) \/ Return(p) PROVE FALSE
  <2>1. pc[p] = "run" /\ stack[p] # <<>>
    BY <1>1, RunFacts DEF Push, PushFull, Join, Return
  <2>2. pc[Main] \notin {"finish", "join", "off"}
    BY <2>1, <1>t DEF WaitIsQuiescent
  <2>3. p # Main => pc'[Main] = pc[Main]
    BY <1>1, <1>t DEF Push, PushFull, Join, Return, TypeOK
  <2>4. p = Main => pc'[Main] \in {"run", "pop_hp", "pop_hp_only"}
    BY <1>1, <2>1, <1>t DEF Push, PushFull, Join, Return, TypeOK
  <2> QED
    BY <2>2, <2>3, <2>4
<1>2. ASSUME NEW p \in Proc, PopHp(p) \/ Pop(p)
      PROVE  /\ queue_' = <<>> /\ hp_queue_' = <<>>
             /\ \A q \in Proc : stack'[q] = <<>>
  <2>1. p # Main
    BY <1>2, <1>t DEF PopHp, Pop, TypeOK
  <2>2. pc[Main] \in {"finish", "join", "off"}
    BY <1>2, <2>1, <1>t DEF PopHp, Pop, TypeOK
  <2>3. queue_ = <<>> /\ hp_queue_ = <<>> /\ \A q \in Proc : stack[q] = <<>>
    BY <2>2, <1>t DEF WaitIsQuiescent
  <2> QED
    BY <1>2, <2>3 DEF PopHp, Pop
<1>3. ASSUME NEW p \in Thread, Loop(p)
      PROVE  /\ queue_' = <<>> /\ hp_queue_' = <<>>
             /\ \A q \in Proc : stack'[q] = <<>>
  <2>1. /\ \E place \in Place : pc' = [pc EXCEPT ![p] = place]
        /\ UNCHANGED <<queue_, hp_queue_, stack>>
    BY <1>3 DEF Loop, Top, OutOfWork, Wake, Resume, Exit, queues
  <2>2. pc[Main] \in {"finish", "join", "off"}
    BY <2>1, <1>t DEF TypeOK
  <2> QED
    BY <2>1, <2>2, <1>t DEF WaitIsQuiescent
<1>4. ASSUME Launch \/ Wait PROVE FALSE
  BY <1>4, <1>t DEF Launch, Wait, TypeOK
<1>5. CASE TestBusy
  <2>1. pc[Main] = "load" /\ busy_threads_ = 0
    BY <1>5, <1>t DEF TestBusy, TypeOK
  <2> QED
    BY <2>1, <1>5, ZeroMeansQuiet DEF TestBusy, queues
<1>6. CASE Finish \/ JoinThreads
  BY <1>6, <1>t DEF Finish, JoinThreads, WaitIsQuiescent, queues
<1> QED
  BY <1>1, <1>2, <1>3, <1>4, <1>5, <1>6 DEF Next, Run, Waiting

LEMMA StutterKeeps == IInv /\ UNCHANGED vars => IInv'
<1> SUFFICES ASSUME IInv, UNCHANGED vars PROVE IInv'
  OBVIOUS
<1> USE DEF vars, queues
<1>1. TypeOK' /\ PlaceInv'
  BY DEF IInv, TypeOK, PlaceInv
<1>2. CountInv'
  BY DEF IInv, CountInv, Counted
<1>3. WatchInv'
  BY DEF IInv, WatchInv, HpSeenEmpty, Eager, Willing
<1>4. WaitIsQuiescent'
  BY DEF IInv, WaitIsQuiescent
<1> QED
  BY <1>1, <1>2, <1>3, <1>4 DEF IInv

LEMMA StepKeeps == IInv /\ [Next]_vars => IInv'
  BY TypePlaceStep, CountStep, WatchStep, QuietStep, StutterKeeps DEF IInv

THEOREM PoolInvariant == Spec => []IInv
  BY InitHolds, StepKeeps, PTL DEF Spec

(***************************************************************************)
(* The queues never hold more than QueueSize tasks, nor a task of the      *)
(* other priority, and what a thread is in the middle of are functions.    *)
(***************************************************************************)
THEOREM PoolTypes == Spec => []TypeOK
<1>1. IInv => TypeOK
  BY DEF IInv
<1> QED
  BY <1>1, PoolInvariant, PTL

(***************************************************************************)
(* wait only asks the threads to stop, and only returns, when no task is   *)
(* enqueued and none is being run (TaskPool::wait), though it looks at the *)
(* two queues and at busy_threads_ one after the other.                    *)
(***************************************************************************)
THEOREM WaitSeesQuiescence == Spec => []WaitIsQuiescent
<1>1. IInv => WaitIsQuiescent
  BY DEF IInv
<1> QED
  BY <1>1, PoolInvariant, PTL

-----------------------------------------------------------------------------
(* The pool is a bag of tasks.                                             *)

Elems(s) == {s[i] : i \in DOMAIN s}

NoRepeat(s) == \A i, j \in DOMAIN s : s[i] = s[j] => i = j

Enqueued(t) ==
  \E f \in Func : \E i \in DOMAIN Kids[f] : i <= enqueued[f] /\ Kids[f][i] = t

(***************************************************************************)
(* While the threads are asked to stop there is nothing in the pool.  That *)
(* is why a task that runs finds the pool open when it enqueues another.   *)
(***************************************************************************)
ClosedInv ==
  /\ finish_ => /\ queue_ = <<>> /\ hp_queue_ = <<>>
                /\ \A p \in Proc : stack[p] = <<>>
  /\ pc[Main] \in {"join", "off"} => finish_

(***************************************************************************)
(* Each task is in one position of one queue or stack, or done, and was    *)
(* enqueued.                                                               *)
(***************************************************************************)
StackInv ==
  /\ \A p \in Proc : NoRepeat(stack[p])
  /\ \A p, q \in Proc : p # q => Elems(stack[p]) \cap Elems(stack[q]) = {}

PlacesInv ==
  /\ NoRepeat(queue_) /\ NoRepeat(hp_queue_)
  /\ InQueues \cap InStacks = {}
  /\ done \cap (InQueues \cup InStacks) = {}
  /\ \A t \in InQueues \cup (InStacks \ {Main}) \cup done : Enqueued(t)

BagInv == ClosedInv /\ StackInv /\ PlacesInv

LEMMA AppendElems ==
  ASSUME NEW S, NEW s \in Seq(S), NEW x \in S
  PROVE  /\ Elems(Append(s, x)) = Elems(s) \cup {x}
         /\ NoRepeat(s) /\ x \notin Elems(s) => NoRepeat(Append(s, x))
<1> DEFINE n == Len(s)
           a == Append(s, x)
<1>1. /\ n \in Nat /\ DOMAIN s = 1 .. n
      /\ DOMAIN a = 1 .. n + 1
      /\ \A i \in 1 .. n : a[i] = s[i]
      /\ a[n + 1] = x
  OBVIOUS
<1> HIDE DEF a, n
<1>2. 1 .. n + 1 = (1 .. n) \cup {n + 1}
  BY <1>1
<1>3. ASSUME NEW i \in 1 .. n + 1
      PROVE  (i = n + 1 /\ a[i] = x) \/ (i \in 1 .. n /\ a[i] = s[i])
  BY <1>1, <1>2
<1>4. Elems(a) = Elems(s) \cup {x}
  <2>1. ASSUME NEW e \in Elems(a) PROVE e \in Elems(s) \cup {x}
    BY <1>1, <1>3, <2>1 DEF Elems
  <2>2. ASSUME NEW e \in Elems(s) \cup {x} PROVE e \in Elems(a)
    BY <1>1, <1>2, <2>2 DEF Elems
  <2> QED
    BY <2>1, <2>2
<1>5. ASSUME NoRepeat(s), x \notin Elems(s) PROVE NoRepeat(a)
  <2> SUFFICES ASSUME NEW i \in 1 .. n + 1, NEW j \in 1 .. n + 1, a[i] = a[j] PROVE i = j
    BY <1>1 DEF NoRepeat
  <2>1. \A k \in 1 .. n : s[k] # x
    BY <1>1, <1>5 DEF Elems
  <2> QED
    BY <1>1, <1>3, <1>5, <2>1 DEF NoRepeat
<1> QED
  BY <1>4, <1>5 DEF a

LEMMA PopElems ==
  ASSUME NEW S, NEW s \in Seq(S), s # <<>>, NoRepeat(s)
  PROVE  /\ Head(s) \in Elems(s) /\ Elems(Tail(s)) = Elems(s) \ {Head(s)}
         /\ NoRepeat(Tail(s))
<1> DEFINE n == Len(s)
           r == Tail(s)
<1>1. /\ n \in Nat \ {0} /\ DOMAIN s = 1 .. n /\ Head(s) = s[1]
      /\ DOMAIN r = 1 .. n - 1
      /\ \A i \in 1 .. n - 1 : r[i] = s[i + 1]
  OBVIOUS
<1> HIDE DEF r, n
<1>2. \A i \in 1 .. n - 1 : i + 1 \in 1 .. n /\ i + 1 # 1
  BY <1>1
<1>3. \A i \in 1 .. n : i = 1 \/ \E j \in 1 .. n - 1 : i = j + 1
  <2> SUFFICES ASSUME NEW i \in 1 .. n, i # 1 PROVE i - 1 \in 1 .. n - 1 /\ i = (i - 1) + 1
    BY Zenon
  <2> QED
    BY <1>1
<1>4. 1 \in 1 .. n
  BY <1>1
<1>5. Head(s) \in Elems(s)
  BY <1>1, <1>4 DEF Elems
<1>6. Elems(r) = Elems(s) \ {Head(s)}
  <2>1. ASSUME NEW e \in Elems(r) PROVE e \in Elems(s) \ {Head(s)}
    <3>1. PICK i \in 1 .. n - 1 : e = s[i + 1]
      BY <1>1, <2>1 DEF Elems
    <3>2. e # s[1]
      BY <1>1, <1>2, <1>4, <3>1 DEF NoRepeat
    <3> QED
      BY <1>1, <1>2, <3>1, <3>2 DEF Elems
  <2>2. ASSUME NEW e \in Elems(s) \ {Head(s)} PROVE e \in Elems(r)
    <3>1. PICK i \in 1 .. n : e = s[i]
      BY <1>1, <2>2 DEF Elems
    <3>2. PICK j \in 1 .. n - 1 : i = j + 1
      BY <1>1, <1>3, <2>2, <3>1
    <3> QED
      BY <1>1, <3>1, <3>2 DEF Elems
  <2> QED
    BY <2>1, <2>2
<1>7. NoRepeat(r)
  <2> SUFFICES ASSUME NEW i \in 1 .. n - 1, NEW j \in 1 .. n - 1, r[i] = r[j] PROVE i = j
    BY <1>1 DEF NoRepeat
  <2>1. i + 1 = j + 1
    BY <1>1, <1>2 DEF NoRepeat
  <2> QED
    BY <2>1
<1> QED
  BY <1>5, <1>6, <1>7 DEF r

LEMMA PushElems ==
  ASSUME NEW S, NEW s \in Seq(S), NEW x \in S, NoRepeat(s), x \notin Elems(s)
  PROVE  /\ Elems(<<x>> \o s) = Elems(s) \cup {x}
         /\ NoRepeat(<<x>> \o s)
<1> DEFINE n == Len(s)
           c == <<x>> \o s
<1>1. /\ n \in Nat /\ DOMAIN s = 1 .. n
      /\ DOMAIN c = 1 .. n + 1
      /\ c[1] = x
      /\ \A i \in 1 .. n : c[i + 1] = s[i]
  OBVIOUS
<1> HIDE DEF c, n
<1>2. \A i \in 1 .. n : i + 1 \in 1 .. n + 1
  BY <1>1
<1>3. ASSUME NEW i \in 1 .. n + 1
      PROVE  (i = 1 /\ c[i] = x) \/ \E j \in 1 .. n : i = j + 1 /\ c[i] = s[j]
  <2>1. i = 1 \/ (i - 1 \in 1 .. n /\ i = (i - 1) + 1)
    BY <1>1
  <2> QED
    BY <2>1, <1>1, Zenon
<1>4. 1 \in 1 .. n + 1
  BY <1>1
<1>5. Elems(c) = Elems(s) \cup {x}
  <2>1. ASSUME NEW e \in Elems(c) PROVE e \in Elems(s) \cup {x}
    <3>1. PICK i \in 1 .. n + 1 : e = c[i]
      BY <1>1, <2>1 DEF Elems
    <3>2. CASE i = 1
      BY <3>1, <3>2, <1>1
    <3>3. CASE i # 1
      <4>1. PICK j \in 1 .. n : c[i] = s[j]
        BY <3>3, <1>3
      <4> QED
        BY <3>1, <4>1, <1>1 DEF Elems
    <3> QED
      BY <3>2, <3>3
  <2>2. ASSUME NEW e \in Elems(s) \cup {x} PROVE e \in Elems(c)
    BY <1>1, <1>2, <1>4, <2>2 DEF Elems
  <2> QED
    BY <2>1, <2>2
<1>6. NoRepeat(c)
  <2> SUFFICES ASSUME NEW i \in 1 .. n + 1, NEW j \in 1 .. n + 1, c[i] = c[j] PROVE i = j
    BY <1>1 DEF NoRepeat
  <2>1. \A k \in 1 .. n : s[k] # x
    BY <1>1 DEF Elems
  <2>2. CASE i = 1 \/ j = 1
    BY <2>1, <2>2, <1>1, <1>3
  <2>3. CASE i # 1 /\ j # 1
    <3>1. PICK k \in 1 .. n : i = k + 1 /\ c[i] = s[k]
      BY <2>3, <1>3
    <3>2. PICK l \in 1 .. n : j = l + 1 /\ c[j] = s[l]
      BY <2>3, <1>3
    <3>3. k = l
      BY <3>1, <3>2, <1>1 DEF NoRepeat
    <3> QED
      BY <3>1, <3>2, <3>3
  <2> QED
    BY <2>2, <2>3
<1> QED
  BY <1>5, <1>6 DEF c

LEMMA EmptyElems == Elems(<<>>) = {} /\ NoRepeat(<<>>)
<1>1. DOMAIN <<>> = {}
  OBVIOUS
<1> QED
  BY <1>1, Zenon DEF Elems, NoRepeat

LEMMA InPlaces ==
  /\ InQueues = Elems(queue_) \cup Elems(hp_queue_)
  /\ InStacks = UNION {Elems(stack[p]) : p \in Proc}
BY DEF InQueues, InStacks, Elems

(***************************************************************************)
(* A task put on a stack, and the innermost task taken off.                *)
(***************************************************************************)
LEMMA StackGrows ==
  ASSUME TypeOK, StackInv, NEW p \in Proc, NEW t \in Func, t \notin InStacks,
         stack' = [stack EXCEPT ![p] = <<t>> \o stack[p]]
  PROVE  StackInv' /\ InStacks' = InStacks \cup {t}
<1>1. stack \in [Proc -> Seq(Func)]
  BY DEF TypeOK
<1>2. /\ stack'[p] = <<t>> \o stack[p]
      /\ \A q \in Proc \ {p} : stack'[q] = stack[q]
  BY <1>1
<1>3. \A q \in Proc : t \notin Elems(stack[q])
  BY InPlaces, Zenon
<1>4. Elems(stack'[p]) = Elems(stack[p]) \cup {t} /\ NoRepeat(stack'[p])
  BY <1>1, <1>2, <1>3, PushElems DEF StackInv
<1>5. InStacks' = UNION {Elems(stack'[q]) : q \in Proc}
  BY DEF InStacks, Elems
<1>6. StackInv'
  <2>1. \A q \in Proc : NoRepeat(stack'[q])
    BY <1>2, <1>4 DEF StackInv
  <2>2. ASSUME NEW q \in Proc, NEW r \in Proc, q # r
        PROVE  Elems(stack'[q]) \cap Elems(stack'[r]) = {}
    <3>1. Elems(stack[q]) \cap Elems(stack[r]) = {}
      BY <2>2 DEF StackInv
    <3> QED
      BY <2>2, <3>1, <1>2, <1>3, <1>4
  <2> QED
    BY <2>1, <2>2 DEF StackInv
<1> HIDE DEF Proc
<1>7. ASSUME NEW e PROVE e \in InStacks' <=> e \in InStacks \/ e = t
  BY <1>2, <1>4, <1>5, InPlaces, Zenon
<1> QED
  BY <1>6, <1>7

LEMMA StackShrinks ==
  ASSUME TypeOK, StackInv, NEW p \in Proc, stack[p] # <<>>,
         stack' = [stack EXCEPT ![p] = Tail(stack[p])]
  PROVE  /\ StackInv' /\ Head(stack[p]) \in InStacks
         /\ InStacks' = InStacks \ {Head(stack[p])}
<1> DEFINE h == Head(stack[p])
<1>1. stack \in [Proc -> Seq(Func)]
  BY DEF TypeOK
<1>2. /\ stack'[p] = Tail(stack[p])
      /\ \A q \in Proc \ {p} : stack'[q] = stack[q]
  BY <1>1
<1>3. h \in Elems(stack[p]) /\ Elems(stack'[p]) = Elems(stack[p]) \ {h} /\ NoRepeat(stack'[p])
  BY <1>1, <1>2, PopElems DEF StackInv
<1>4. \A q \in Proc \ {p} : h \notin Elems(stack[q])
  BY <1>3 DEF StackInv
<1>5. InStacks' = UNION {Elems(stack'[q]) : q \in Proc}
  BY DEF InStacks, Elems
<1>6. StackInv'
  BY <1>2, <1>3 DEF StackInv
<1> HIDE DEF Proc, h
<1>7. h \in InStacks
  BY <1>3, InPlaces, Zenon
<1>8. ASSUME NEW e PROVE e \in InStacks' <=> e \in InStacks /\ e # h
  BY <1>2, <1>3, <1>4, <1>5, InPlaces, Zenon
<1> QED
  BY <1>6, <1>7, <1>8 DEF h

-----------------------------------------------------------------------------
(* Each step of the pool is one of the bag, or none.                       *)

(***************************************************************************)
(* A task stays enqueued, and the next that f enqueues was not yet.        *)
(***************************************************************************)
LEMMA EnqueuedStays ==
  ASSUME NEW t, Enqueued(t),
         \A f \in Func : enqueued[f] \in Nat /\ enqueued'[f] \in Nat /\ enqueued[f] <= enqueued'[f]
  PROVE  Enqueued(t)'
<1>1. PICK f \in Func : \E i \in DOMAIN Kids[f] : i <= enqueued[f] /\ Kids[f][i] = t
  BY DEF Enqueued
<1>0. PICK i \in DOMAIN Kids[f] : i <= enqueued[f] /\ Kids[f][i] = t
  BY <1>1
<1>2. i \in Nat
  BY KidsAssumption
<1>3. i <= enqueued'[f]
  BY <1>0, <1>2
<1> QED
  BY <1>0, <1>3 DEF Enqueued

LEMMA PushBag ==
  ASSUME IInv, BagInv, NEW p \in Proc, Push(p)
  PROVE  BagInv' /\ \E t \in Task : Bag!Enqueue(t)
<1> USE MainAssumption
<1>t. TypeOK /\ ClosedInv /\ StackInv /\ PlacesInv
  BY DEF IInv, BagInv
<1>0. PICK f \in Func, t \in Task : f = Head(stack[p]) /\ t = NextKid(f)
  BY RunFacts DEF Push
<1>1. pc[p] = "run" /\ enqueued[f] < Len(Kids[f]) /\ stack[p] # <<>>
  BY <1>0, RunFacts DEF Push
<1>2. t = Kids[f][enqueued[f] + 1]
  BY <1>0 DEF NextKid
<1>3. /\ queue_' = Into(queue_, t, FALSE)
      /\ hp_queue_' = Into(hp_queue_, t, TRUE)
      /\ enqueued' = [enqueued EXCEPT ![f] = @ + 1]
      /\ UNCHANGED <<finish_, busy_threads_, pc, stack, done>>
  BY <1>0 DEF Push
<1>4. ~ finish_
  BY <1>1, <1>t DEF ClosedInv
<1>5. /\ Kids[f] \in Seq(Task) /\ enqueued \in [Func -> Nat]
      /\ enqueued[f] + 1 \in DOMAIN Kids[f]
  BY <1>1, <1>t, KidsAssumption DEF TypeOK
<1>6. ~ Enqueued(t)
  <2> SUFFICES ASSUME NEW g \in Func, NEW i \in DOMAIN Kids[g], i <= enqueued[g], Kids[g][i] = t
               PROVE  FALSE
    BY DEF Enqueued
  <2>1. g = f /\ i = enqueued[f] + 1
    BY <1>1, <1>2, <1>5, KidsOnceAssumption
  <2> QED
    BY <2>1, <1>1, <1>5
<1>7. t \notin InQueues /\ t \notin InStacks /\ t \notin done
  BY <1>1, <1>6, <1>t DEF PlacesInv
<1>8. /\ InQueues' = InQueues \cup {t}
      /\ NoRepeat(queue_)' /\ NoRepeat(hp_queue_)'
  <2>1. queue_ \in Seq(Task) /\ hp_queue_ \in Seq(Task)
    BY <1>t, HpAssumption DEF TypeOK
  <2>2. t \notin Elems(queue_) /\ t \notin Elems(hp_queue_)
    BY <1>7, InPlaces
  <2>3. InQueues' = Elems(queue_') \cup Elems(hp_queue_')
    BY DEF InQueues, Elems
  <2>4. CASE t \in Hp
    <3>1. queue_' = queue_ /\ hp_queue_' = Append(hp_queue_, t)
      BY <1>3, <2>4 DEF Into
    <3> QED
      BY <3>1, <2>1, <2>2, <2>3, <1>1, <1>t, AppendElems, InPlaces DEF PlacesInv
  <2>5. CASE t \notin Hp
    <3>1. queue_' = Append(queue_, t) /\ hp_queue_' = hp_queue_
      BY <1>3, <2>5 DEF Into
    <3> QED
      BY <3>1, <2>1, <2>2, <2>3, <1>1, <1>t, AppendElems, InPlaces DEF PlacesInv
  <2> QED
    BY <2>4, <2>5
<1>9. InStacks' = InStacks
  BY <1>3 DEF InStacks
<1>10. Enqueued(t)'
  <2>1. enqueued[f] + 1 <= enqueued'[f]
    BY <1>3, <1>5, <1>1
  <2> QED
    BY <2>1, <1>1, <1>2, <1>5, Zenon DEF Enqueued
<1>11. \A u : Enqueued(u) => Enqueued(u)'
  <2>1. \A g \in Func : enqueued[g] \in Nat /\ enqueued'[g] \in Nat /\ enqueued[g] <= enqueued'[g]
    BY <1>1, <1>3, <1>5
  <2> QED
    BY <2>1, EnqueuedStays
<1>12. PlacesInv'
  <2>1. \A u \in (InQueues \cup (InStacks \ {Main}) \cup done)' : Enqueued(u)'
    BY <1>3, <1>8, <1>9, <1>10, <1>11, <1>t DEF PlacesInv
  <2>2. (InQueues \cap InStacks)' = {} /\ (done \cap (InQueues \cup InStacks))' = {}
    BY <1>3, <1>7, <1>8, <1>9, <1>t DEF PlacesInv
  <2> QED
    BY <2>1, <2>2, <1>8 DEF PlacesInv
<1>13. ClosedInv' /\ StackInv'
  BY <1>3, <1>4, <1>t DEF ClosedInv, StackInv
<1>14. Bag!Enqueue(t)
  BY <1>3, <1>4, <1>7, <1>8, <1>9 DEF Bag!Enqueue
<1> QED
  BY <1>1, <1>12, <1>13, <1>14 DEF BagInv

(***************************************************************************)
(* A task goes from a queue to a stack.                                    *)
(***************************************************************************)
LEMMA TakeBag ==
  ASSUME IInv, BagInv, NEW p \in Proc, NEW t \in InQueues, t \in Task,
         InQueues' = InQueues \ {t}, NoRepeat(queue_)', NoRepeat(hp_queue_)',
         stack' = [stack EXCEPT ![p] = <<t>> \o stack[p]],
         pc' = [pc EXCEPT ![p] = "run"],
         UNCHANGED <<finish_, enqueued, done>>
  PROVE  BagInv' /\ Bag!Take(t)
<1> USE MainAssumption
<1>t. TypeOK /\ ClosedInv /\ StackInv /\ PlacesInv
  BY DEF IInv, BagInv
<1>1. t \notin InStacks /\ t \notin done
  BY <1>t DEF PlacesInv
<1>2. StackInv' /\ InStacks' = InStacks \cup {t}
  BY <1>1, <1>t, StackGrows
<1>3. ~ finish_
  BY <1>t, EmptyElems, InPlaces DEF ClosedInv
<1>4. ClosedInv'
  BY <1>3, <1>t DEF ClosedInv, TypeOK
<1>5. \A u : Enqueued(u)' <=> Enqueued(u)
  BY DEF Enqueued
<1>6. PlacesInv'
  BY <1>1, <1>2, <1>5, <1>t DEF PlacesInv
<1>7. Bag!Take(t)
  BY <1>2 DEF Bag!Take
<1> QED
  BY <1>2, <1>4, <1>6, <1>7 DEF BagInv

(***************************************************************************)
(* Steps that leave the tasks where they are.                              *)
(***************************************************************************)
LEMMA IdleBag ==
  ASSUME IInv, BagInv, UNCHANGED <<queue_, hp_queue_, finish_, stack, enqueued, done>>,
         pc'[Main] \in {"join", "off"} => pc[Main] \in {"join", "off"}
  PROVE  BagInv' /\ UNCHANGED Bag!vars
<1>1. InQueues' = InQueues /\ InStacks' = InStacks
  BY DEF InQueues, InStacks
<1>2. \A t : Enqueued(t)' <=> Enqueued(t)
  BY DEF Enqueued
<1>3. BagInv'
  BY <1>1, <1>2 DEF BagInv, ClosedInv, StackInv, PlacesInv
<1>4. UNCHANGED Bag!vars
  BY <1>1 DEF Bag!vars
<1> QED
  BY <1>3, <1>4

LEMMA ReturnBag ==
  ASSUME IInv, BagInv, NEW p \in Proc, Return(p)
  PROVE  BagInv' /\ \E t \in Task : Bag!End(t)
<1> USE MainAssumption
<1> DEFINE f == Head(stack[p])
<1>t. TypeOK /\ ClosedInv /\ StackInv /\ PlacesInv
  BY DEF IInv, BagInv
<1>1. stack[p] # <<>> /\ f \in Task
  BY RunFacts DEF Return
<1>2. /\ done' = done \cup {f}
      /\ stack' = [stack EXCEPT ![p] = Tail(stack[p])]
      /\ pc' = [pc EXCEPT ![p] = IF Len(stack[p]) = 1 THEN "pop_hp" ELSE "run"]
      /\ UNCHANGED <<queue_, hp_queue_, finish_, busy_threads_, enqueued>>
  BY DEF Return, GoTo, queues
<1>3. StackInv' /\ f \in InStacks /\ InStacks' = InStacks \ {f}
  BY <1>1, <1>2, <1>t, StackShrinks
<1> HIDE DEF f
<1>4. InQueues' = InQueues /\ \A u : Enqueued(u)' <=> Enqueued(u)
  BY <1>2 DEF InQueues, Enqueued
<1>5. f # Main
  BY <1>1
<1>6. PlacesInv'
  BY <1>2, <1>3, <1>4, <1>5, <1>t DEF PlacesInv
<1>7. ~ finish_
  BY <1>1, <1>t DEF ClosedInv
<1>8. ClosedInv'
  BY <1>2, <1>7, <1>t DEF ClosedInv, TypeOK
<1>9. Bag!End(f)
  BY <1>2, <1>3, <1>4, <1>5 DEF Bag!End
<1> QED
  BY <1>1, <1>3, <1>6, <1>8, <1>9 DEF BagInv

LEMMA PopBag ==
  ASSUME IInv, BagInv, NEW p \in Proc, PopHp(p) \/ Pop(p)
  PROVE  BagInv' /\ (UNCHANGED Bag!vars \/ \E t \in Task : Bag!Take(t))
<1> USE MainAssumption DEF GoTo
<1>t. TypeOK /\ PlacesInv
  BY DEF IInv, BagInv
<1>0. Elems(queue_) \cap Elems(hp_queue_) = {}
  <2>1. Elems(queue_) \subseteq Task \ Hp /\ Elems(hp_queue_) \subseteq Hp
    BY <1>t DEF Elems, TypeOK
  <2> QED
    BY <2>1
<1>q. InQueues' = Elems(queue_') \cup Elems(hp_queue_')
  BY DEF InQueues, Elems
<1>1. CASE PopHp(p) /\ hp_queue_ # <<>>
  <2>1. /\ hp_queue_' = Tail(hp_queue_)
        /\ stack' = [stack EXCEPT ![p] = <<Head(hp_queue_)>> \o stack[p]]
        /\ pc' = [pc EXCEPT ![p] = "run"]
        /\ UNCHANGED <<queue_, finish_, busy_threads_, enqueued, done>>
    BY <1>1 DEF PopHp
  <2>2. /\ Head(hp_queue_) \in Elems(hp_queue_) /\ Head(hp_queue_) \in Task
        /\ Elems(hp_queue_') = Elems(hp_queue_) \ {Head(hp_queue_)}
        /\ NoRepeat(hp_queue_')
    <3>1. hp_queue_ \in Seq(Task)
      BY <1>t, HpAssumption DEF TypeOK
    <3>2. Head(hp_queue_) \in Task
      BY <3>1, <1>1
    <3> QED
      BY <3>1, <3>2, <1>1, <2>1, <1>t, PopElems DEF PlacesInv
  <2>3. /\ Head(hp_queue_) \in InQueues
        /\ InQueues' = InQueues \ {Head(hp_queue_)} /\ NoRepeat(queue_')
    BY <2>1, <2>2, <1>0, <1>q, <1>t, InPlaces DEF PlacesInv
  <2> QED
    BY <2>1, <2>2, <2>3, TakeBag
<1>2. CASE Pop(p) /\ queue_ # <<>>
  <2>1. /\ queue_' = Tail(queue_)
        /\ stack' = [stack EXCEPT ![p] = <<Head(queue_)>> \o stack[p]]
        /\ pc' = [pc EXCEPT ![p] = "run"]
        /\ UNCHANGED <<hp_queue_, finish_, busy_threads_, enqueued, done>>
    BY <1>2 DEF Pop
  <2>2. /\ Head(queue_) \in Elems(queue_) /\ Head(queue_) \in Task
        /\ Elems(queue_') = Elems(queue_) \ {Head(queue_)}
        /\ NoRepeat(queue_')
    <3>1. queue_ \in Seq(Task)
      BY <1>t DEF TypeOK
    <3>2. Head(queue_) \in Task
      BY <3>1, <1>2
    <3> QED
      BY <3>1, <3>2, <1>2, <2>1, <1>t, PopElems DEF PlacesInv
  <2>3. /\ Head(queue_) \in InQueues
        /\ InQueues' = InQueues \ {Head(queue_)} /\ NoRepeat(hp_queue_')
    BY <2>1, <2>2, <1>0, <1>q, <1>t, InPlaces DEF PlacesInv
  <2> QED
    BY <2>1, <2>2, <2>3, TakeBag
<1>3. CASE PopHp(p) /\ hp_queue_ = <<>>
  BY <1>3, <1>t, IdleBag DEF PopHp, TypeOK
<1>4. CASE Pop(p) /\ queue_ = <<>>
  BY <1>4, <1>t, IdleBag DEF Pop, TypeOK
<1> QED
  BY <1>1, <1>2, <1>3, <1>4

(***************************************************************************)
(* launch_threads and wait of the main thread.                             *)
(***************************************************************************)
LEMMA MainBag ==
  ASSUME IInv, BagInv, Launch \/ Wait \/ Finish
  PROVE  BagInv' /\ [Bag!Next]_(Bag!vars)
<1> USE MainAssumption DEF GoTo
<1>t. TypeOK /\ WaitIsQuiescent /\ ClosedInv /\ StackInv /\ PlacesInv
  BY DEF IInv, BagInv
<1>0. /\ UNCHANGED <<queue_, hp_queue_, enqueued, done>>
      /\ InQueues' = InQueues /\ \A t : Enqueued(t)' <=> Enqueued(t)
  <2>1. UNCHANGED <<queue_, hp_queue_, enqueued, done>>
    BY DEF Launch, Wait, Finish, queues
  <2> QED
    BY <2>1 DEF InQueues, Enqueued
<1>s. InStacks' = UNION {Elems(stack'[p]) : p \in Proc}
  BY DEF InStacks, Elems
<1>m. Elems(<<Main>>) = {Main} /\ NoRepeat(<<Main>>)
  <2>1. DOMAIN <<Main>> = {1}
    OBVIOUS
  <2> QED
    BY <2>1 DEF Elems, NoRepeat
<1>1. CASE Launch
  <2>1. finish_ /\ ~ finish_' /\ pc'[Main] = "run" /\ \A p \in Proc : stack[p] = <<>>
    BY <1>1, <1>t DEF Launch, ClosedInv
  <2>2. stack'[Main] = <<Main>> /\ \A p \in Proc \ {Main} : stack'[p] = <<>>
    BY <1>1, <2>1, <1>t DEF Launch, TypeOK
  <2>3. StackInv'
    BY <2>2, <1>m, EmptyElems DEF StackInv
  <2>4. InStacks \ {Main} = {} /\ InStacks' \ {Main} = {}
    BY <2>1, <2>2, <1>m, <1>s, EmptyElems, InPlaces
  <2>5. InQueues = {}
    BY <2>1, <1>t, EmptyElems, InPlaces DEF ClosedInv
  <2>6. Main \notin done
    BY <1>t DEF TypeOK
  <2>7. PlacesInv' /\ ClosedInv'
    BY <2>1, <2>4, <2>5, <2>6, <1>0, <1>t DEF PlacesInv, ClosedInv
  <2>8. Bag!Launch
    BY <2>1, <2>4, <1>0 DEF Bag!Launch
  <2> QED
    BY <2>3, <2>7, <2>8 DEF BagInv, Bag!Next
<1>2. CASE Wait
  <2>1. finish_' = finish_ /\ pc'[Main] = "pop_hp"
    BY <1>2, <1>t DEF Wait, TypeOK
  <2>2. stack'[Main] = <<>> /\ \A p \in Proc \ {Main} : stack'[p] = stack[p]
    BY <1>2, <1>t DEF Wait, TypeOK
  <2>3. Elems(stack[Main]) \subseteq {Main}
    BY <1>2, <1>m, <1>t, EmptyElems DEF Wait, ClosedInv
  <2>4. StackInv'
    BY <2>2, <1>t, EmptyElems DEF StackInv
  <2>5. InStacks' \subseteq InStacks /\ InStacks' \ {Main} = InStacks \ {Main}
    BY <2>2, <2>3, <1>s, EmptyElems, InPlaces
  <2>6. PlacesInv'
    BY <2>5, <1>0, <1>t DEF PlacesInv
  <2>7. ClosedInv'
    BY <2>1, <2>2, <1>0, <1>t DEF ClosedInv
  <2>8. UNCHANGED Bag!vars
    BY <2>1, <2>5, <1>0 DEF Bag!vars
  <2> QED
    BY <2>4, <2>6, <2>7, <2>8 DEF BagInv
<1>3. CASE Finish
  <2>1. finish_' /\ pc[Main] = "finish" /\ UNCHANGED stack
    BY <1>3 DEF Finish
  <2>2. queue_ = <<>> /\ hp_queue_ = <<>> /\ \A p \in Proc : stack[p] = <<>>
    BY <2>1, <1>t DEF WaitIsQuiescent
  <2>3. InQueues = {} /\ InStacks = {} /\ InStacks' = {}
    BY <2>1, <2>2, <1>s, EmptyElems, InPlaces
  <2>4. BagInv'
    BY <2>1, <2>2, <2>3, <1>0, <1>t DEF BagInv, ClosedInv, StackInv, PlacesInv
  <2>5. CASE finish_
    <3>1. finish_' = finish_
      BY <1>3, <2>5, <1>t DEF Finish, TypeOK
    <3> QED
      BY <3>1, <2>1, <2>3, <2>4, <1>0 DEF Bag!vars
  <2>6. CASE ~ finish_
    <3>1. (~ finish_') = FALSE
      BY <1>3 DEF Finish
    <3>2. Bag!WaitReturns
      BY <3>1, <2>1, <2>3, <2>6, <1>0 DEF Bag!WaitReturns
    <3> QED
      BY <2>4, <3>2 DEF Bag!Next
  <2> QED
    BY <2>4, <2>5, <2>6
<1> QED
  BY <1>1, <1>2, <1>3

LEMMA BagInit == Init => BagInv /\ Bag!Init
<1> SUFFICES ASSUME Init PROVE BagInv /\ Bag!Init
  OBVIOUS
<1>1. /\ queue_ = <<>> /\ hp_queue_ = <<>> /\ \A p \in Proc : stack[p] = <<>>
      /\ finish_ = TRUE /\ done = {}
  BY DEF Init
<1>2. InQueues = {} /\ InStacks = {}
  BY <1>1, EmptyElems, InPlaces
<1>3. BagInv
  BY <1>1, <1>2, EmptyElems DEF BagInv, ClosedInv, StackInv, PlacesInv
<1>4. Bag!Init
  BY <1>1, <1>2 DEF Bag!Init
<1> QED
  BY <1>3, <1>4

LEMMA BagStep == IInv /\ BagInv /\ [Next]_vars => BagInv' /\ [Bag!Next]_(Bag!vars)
<1> SUFFICES ASSUME IInv, BagInv, [Next]_vars PROVE BagInv' /\ [Bag!Next]_(Bag!vars)
  OBVIOUS
<1>t. TypeOK
  BY DEF IInv
<1>1. ASSUME NEW p \in Proc, Run(p) PROVE BagInv' /\ [Bag!Next]_(Bag!vars)
  <2>1. CASE Push(p) \/ Return(p) \/ PopHp(p) \/ Pop(p)
    BY <2>1, PushBag, ReturnBag, PopBag DEF Bag!Next
  <2>2. CASE PushFull(p) \/ Join(p)
    <3>1. /\ UNCHANGED <<queue_, hp_queue_, finish_, stack, enqueued, done>>
          /\ pc'[Main] \in {"join", "off"} => pc[Main] \in {"join", "off"}
      BY <2>2, <1>t DEF PushFull, Join, GoTo, queues, TypeOK
    <3> QED
      BY <3>1, IdleBag
  <2> QED
    BY <1>1, <2>1, <2>2 DEF Run
<1>2. ASSUME NEW p \in Thread, Loop(p) PROVE BagInv' /\ [Bag!Next]_(Bag!vars)
  <2>1. /\ UNCHANGED <<queue_, hp_queue_, finish_, stack, enqueued, done>>
        /\ \E place \in Place : pc' = [pc EXCEPT ![p] = place]
    BY <1>2 DEF Loop, Top, OutOfWork, Wake, Resume, Exit, GoTo, queues
  <2>2. pc'[Main] = pc[Main]
    BY <2>1, <1>t, MainAssumption DEF TypeOK
  <2> QED
    BY <2>1, <2>2, IdleBag
<1>3. CASE Launch \/ Wait \/ Finish
  BY <1>3, MainBag
<1>4. CASE TestBusy \/ JoinThreads
  <2>1. /\ UNCHANGED <<queue_, hp_queue_, finish_, stack, enqueued, done>>
        /\ pc'[Main] \in {"join", "off"} => pc[Main] \in {"join", "off"}
    BY <1>4, <1>t DEF TestBusy, JoinThreads, GoTo, queues, TypeOK
  <2> QED
    BY <2>1, IdleBag
<1>5. CASE UNCHANGED vars
  BY <1>5, IdleBag DEF vars, queues
<1> QED
  BY <1>1, <1>2, <1>3, <1>4, <1>5 DEF Next, Waiting

(***************************************************************************)
(* The pool is the bag of tasks that the worklist takes it for: whatever   *)
(* enqueue, try_run, soft_parallel_for and wait do at the same time, each  *)
(* task is taken once, run once, and wait returns when none is left.       *)
(***************************************************************************)
THEOREM PoolIsBag == Spec => ImplementsTaskBag
<1>1. Init => BagInv /\ Bag!Init
  BY BagInit
<1>2. IInv /\ BagInv /\ [Next]_vars => BagInv' /\ [Bag!Next]_(Bag!vars)
  BY BagStep
<1>3. Spec => []IInv
  BY PoolInvariant
<1> QED
  BY <1>1, <1>2, <1>3, PTL DEF Spec, ImplementsTaskBag, Bag!Spec
=============================================================================
