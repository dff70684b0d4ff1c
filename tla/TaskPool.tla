------------------------------ MODULE TaskPool ------------------------------
(***************************************************************************)
(* TaskPool: threads that execute tasks from two bounded queues, and a     *)
(* main thread that enqueues tasks, helps, and waits until all is done     *)
(* (TaskPool.h).                                                           *)
(*                                                                         *)
(* A thread that finds the queue full when it enqueues runs other tasks in *)
(* the meantime, on top of the one it is in the middle of: stack[p] holds  *)
(* the tasks of thread p, the innermost first.  The code of the user in    *)
(* the main thread counts as a task, Main, that never ends.                *)
(*                                                                         *)
(* The queues are those of Boost: a push or a pop takes effect at once,    *)
(* and a push fails when QueueSize tasks are in.  launch_threads and the   *)
(* end of the function of a thread are those of ThreadPool.                *)
(***************************************************************************)
EXTENDS Integers, Sequences, FiniteSets

CONSTANTS Thread,     \* the threads of the pool
          Main,       \* the main thread, and its code as a task
          Task,       \* the tasks
          Kids,       \* Kids[t]: the tasks that t, or Main, enqueues, in order
          Hp,         \* the tasks that go to the queue of high priority
          Soft,       \* the tasks that wait for those they enqueue
          QueueSize   \* the positions of each queue

ASSUME ThreadAssumption == IsFiniteSet(Thread)
ASSUME MainAssumption == Main \notin Thread \cup Task
ASSUME KidsAssumption == Kids \in [Task \cup {Main} -> Seq(Task)]
\* enqueue builds a Task each time it is called
ASSUME KidsOnceAssumption ==
  \A f, g \in Task \cup {Main} : \A i \in DOMAIN Kids[f], j \in DOMAIN Kids[g] :
    Kids[f][i] = Kids[g][j] => f = g /\ i = j
ASSUME HpAssumption == Hp \subseteq Task
ASSUME SoftAssumption == Soft \subseteq Task
ASSUME QueueSizeAssumption == QueueSize \in Nat \ {0}

VARIABLES
  queue_, hp_queue_,    \* the tasks enqueued
  finish_,              \* the threads of the pool are asked to stop
  busy_threads_,        \* how many of them are not out of work
  pc,                   \* where each thread is
  stack,                \* the tasks each thread is in
  enqueued,             \* how many of its Kids each task has enqueued
  done                  \* the tasks that have returned

queues == <<queue_, hp_queue_>>
vars   == <<queues, finish_, busy_threads_, pc, stack, enqueued, done>>

Proc == Thread \cup {Main}
Func == Task \cup {Main}

Place ==
  {"run",                      \* in the function Head(stack[p])
   "pop_hp", "pop",            \* in try_run
   "pop_hp_only",              \* in hp_try_run
   "top", "sub", "idle", "add", "exit", "out",        \* in TaskPool::main
   "load", "finish", "join", "off"}                   \* in TaskPool::wait

Init ==
  /\ queue_ = <<>>
  /\ hp_queue_ = <<>>
  /\ finish_ = TRUE
  /\ busy_threads_ = 0
  /\ pc = [p \in Proc |-> IF p = Main THEN "off" ELSE "out"]
  /\ stack = [p \in Proc |-> <<>>]
  /\ enqueued = [f \in Func |-> 0]
  /\ done = {}

GoTo(p, place) == pc' = [pc EXCEPT ![p] = place]

-----------------------------------------------------------------------------
(* Running tasks.                                                          *)

(***************************************************************************)
(* The next task that function f enqueues, and whether it fits.            *)
(***************************************************************************)
NextKid(f) == Kids[f][enqueued[f] + 1]

Fits(t) == Len(IF t \in Hp THEN hp_queue_ ELSE queue_) < QueueSize

Into(q, t, isHp) == IF (t \in Hp) = isHp THEN Append(q, t) ELSE q

(***************************************************************************)
(* Mutation of Push: the bound of the queue is not looked at.              *)
(***************************************************************************)
Push_Unbounded(p) ==
  LET f == Head(stack[p])
  IN  /\ pc[p] = "run" /\ enqueued[f] < Len(Kids[f])
      /\ queue_' = Into(queue_, NextKid(f), FALSE)
      /\ hp_queue_' = Into(hp_queue_, NextKid(f), TRUE)
      /\ enqueued' = [enqueued EXCEPT ![f] = @ + 1]
      /\ UNCHANGED <<finish_, busy_threads_, pc, stack, done>>

(***************************************************************************)
(* enqueue or hp_enqueue puts a task in its queue ...                      *)
(***************************************************************************)
Push(p) ==
  LET f == Head(stack[p])
  IN  /\ pc[p] = "run" /\ enqueued[f] < Len(Kids[f])
      /\ Fits(NextKid(f))
      /\ queue_' = Into(queue_, NextKid(f), FALSE)
      /\ hp_queue_' = Into(hp_queue_, NextKid(f), TRUE)
      /\ enqueued' = [enqueued EXCEPT ![f] = @ + 1]
      /\ UNCHANGED <<finish_, busy_threads_, pc, stack, done>>

(***************************************************************************)
(* ... or, when there is no room, runs another one and tries again.        *)
(***************************************************************************)
PushFull(p) ==
  LET f == Head(stack[p])
  IN  /\ pc[p] = "run" /\ enqueued[f] < Len(Kids[f])
      /\ ~ Fits(NextKid(f))
      /\ GoTo(p, IF NextKid(f) \in Hp THEN "pop_hp_only" ELSE "pop_hp")
      /\ UNCHANGED <<queues, finish_, busy_threads_, stack, enqueued, done>>

KidsOf(f) == { Kids[f][i] : i \in DOMAIN Kids[f] }

(***************************************************************************)
(* soft_parallel_for: a task that has to wait for its kids runs others.    *)
(***************************************************************************)
Join(p) ==
  LET f == Head(stack[p])
  IN  /\ pc[p] = "run" /\ f \in Soft /\ enqueued[f] = Len(Kids[f])
      /\ ~ (KidsOf(f) \subseteq done)
      /\ GoTo(p, IF Kids[f][1] \in Hp THEN "pop_hp_only" ELSE "pop_hp")
      /\ UNCHANGED <<queues, finish_, busy_threads_, stack, enqueued, done>>

(***************************************************************************)
(* The function returns to where its thread called try_run: the loop of    *)
(* empty_queue, or the task that was in the middle of something.           *)
(***************************************************************************)
Return(p) ==
  LET f == Head(stack[p])
  IN  /\ pc[p] = "run" /\ f # Main /\ enqueued[f] = Len(Kids[f])
      /\ f \in Soft => KidsOf(f) \subseteq done
      /\ done' = done \cup {f}
      /\ stack' = [stack EXCEPT ![p] = Tail(@)]
      /\ GoTo(p, IF Len(stack[p]) = 1 THEN "pop_hp" ELSE "run")
      /\ UNCHANGED <<queues, finish_, busy_threads_, enqueued>>

(***************************************************************************)
(* try_run looks in the queue of high priority first, ...                  *)
(***************************************************************************)
PopHp(p) ==
  /\ pc[p] \in {"pop_hp", "pop_hp_only"}
  /\ IF hp_queue_ # <<>>
     THEN /\ hp_queue_' = Tail(hp_queue_)
          /\ stack' = [stack EXCEPT ![p] = <<Head(hp_queue_)>> \o @]
          /\ GoTo(p, "run")
     ELSE /\ GoTo(p, IF pc[p] = "pop_hp" THEN "pop" ELSE "run")
          /\ UNCHANGED <<hp_queue_, stack>>
  /\ UNCHANGED <<queue_, finish_, busy_threads_, enqueued, done>>

(***************************************************************************)
(* ... then in the other.  With no task in either, empty_queue ends, or    *)
(* the task that had no room, or that waits for its kids, tries again.     *)
(***************************************************************************)
Pop(p) ==
  /\ pc[p] = "pop"
  /\ IF queue_ # <<>>
     THEN /\ queue_' = Tail(queue_)
          /\ stack' = [stack EXCEPT ![p] = <<Head(queue_)>> \o @]
          /\ GoTo(p, "run")
     ELSE /\ GoTo(p, IF stack[p] # <<>> THEN "run" ELSE IF p = Main THEN "load" ELSE "sub")
          /\ UNCHANGED <<queue_, stack>>
  /\ UNCHANGED <<hp_queue_, finish_, busy_threads_, enqueued, done>>

-----------------------------------------------------------------------------
(* TaskPool::main, the function of the threads of the pool.                *)

Top(p) ==
  /\ pc[p] = "top"
  /\ GoTo(p, IF finish_ THEN "exit" ELSE "pop_hp")
  /\ UNCHANGED <<queues, finish_, busy_threads_, stack, enqueued, done>>

(***************************************************************************)
(* Mutation of OutOfWork: the thread is still counted as busy.             *)
(***************************************************************************)
OutOfWork_Counted(p) ==
  /\ pc[p] = "sub"
  /\ GoTo(p, "idle")
  /\ UNCHANGED <<queues, finish_, busy_threads_, stack, enqueued, done>>

OutOfWork(p) ==
  /\ pc[p] = "sub"
  /\ busy_threads_' = busy_threads_ - 1
  /\ GoTo(p, "idle")
  /\ UNCHANGED <<queues, finish_, stack, enqueued, done>>

(***************************************************************************)
(* Mutation of Wake: tasks of high priority wake up nobody.                *)
(***************************************************************************)
Wake_NotHp(p) ==
  /\ pc[p] = "idle"
  /\ finish_ \/ queue_ # <<>>
  /\ GoTo(p, "add")
  /\ UNCHANGED <<queues, finish_, busy_threads_, stack, enqueued, done>>

Wake(p) ==
  /\ pc[p] = "idle"
  /\ finish_ \/ queue_ # <<>> \/ hp_queue_ # <<>>
  /\ GoTo(p, "add")
  /\ UNCHANGED <<queues, finish_, busy_threads_, stack, enqueued, done>>

Resume(p) ==
  /\ pc[p] = "add"
  /\ busy_threads_' = busy_threads_ + 1
  /\ GoTo(p, "top")
  /\ UNCHANGED <<queues, finish_, stack, enqueued, done>>

Exit(p) ==
  /\ pc[p] = "exit"
  /\ busy_threads_' = busy_threads_ - 1
  /\ GoTo(p, "out")
  /\ UNCHANGED <<queues, finish_, stack, enqueued, done>>

-----------------------------------------------------------------------------
(* The main thread.                                                        *)

(***************************************************************************)
(* launch_threads; the code of the user goes on.                           *)
(***************************************************************************)
Launch ==
  /\ pc[Main] = "off"
  /\ busy_threads_' = Cardinality(Thread)
  /\ finish_' = FALSE
  /\ pc' = [p \in Proc |-> IF p = Main THEN "run" ELSE "top"]
  /\ stack' = [stack EXCEPT ![Main] = <<Main>>]
  /\ UNCHANGED <<queues, enqueued, done>>

(***************************************************************************)
(* wait is called, at top level, or, as by the destructor, again.          *)
(***************************************************************************)
Wait ==
  /\ pc[Main] = "off" \/ (pc[Main] = "run" /\ stack[Main] = <<Main>>)
  /\ stack' = [stack EXCEPT ![Main] = <<>>]
  /\ GoTo(Main, "pop_hp")
  /\ UNCHANGED <<queues, finish_, busy_threads_, enqueued, done>>

(***************************************************************************)
(* Mutation of TestBusy: wait returns when it finds the queues empty.      *)
(***************************************************************************)
TestBusy_Skipped ==
  /\ pc[Main] = "load"
  /\ GoTo(Main, "finish")
  /\ UNCHANGED <<queues, finish_, busy_threads_, stack, enqueued, done>>

(***************************************************************************)
(* The queues were found empty; now the threads must be out of work too.   *)
(***************************************************************************)
TestBusy ==
  /\ pc[Main] = "load"
  /\ GoTo(Main, IF busy_threads_ = 0 THEN "finish" ELSE "pop_hp")
  /\ UNCHANGED <<queues, finish_, busy_threads_, stack, enqueued, done>>

Finish ==
  /\ pc[Main] = "finish"
  /\ finish_' = TRUE
  /\ GoTo(Main, "join")
  /\ UNCHANGED <<queues, busy_threads_, stack, enqueued, done>>

JoinThreads ==
  /\ pc[Main] = "join"
  /\ \A p \in Thread : pc[p] = "out"
  /\ GoTo(Main, "off")
  /\ UNCHANGED <<queues, finish_, busy_threads_, stack, enqueued, done>>

-----------------------------------------------------------------------------
Run(p) == Push(p) \/ PushFull(p) \/ Join(p) \/ Return(p) \/ PopHp(p) \/ Pop(p)

Loop(p) == Top(p) \/ OutOfWork(p) \/ Wake(p) \/ Resume(p) \/ Exit(p)

Waiting == TestBusy \/ Finish \/ JoinThreads

Next ==
  \/ \E p \in Proc : Run(p)
  \/ \E p \in Thread : Loop(p)
  \/ Launch \/ Wait \/ Waiting

Spec == Init /\ [][Next]_vars

(***************************************************************************)
(* No thread stops, in a task or between them.  Nothing says that the      *)
(* user calls wait, or launches the threads again.                         *)
(***************************************************************************)
Fairness ==
  /\ \A p \in Proc : WF_vars(Run(p))
  /\ \A p \in Thread : WF_vars(Loop(p))
  /\ WF_vars(Waiting)

FairSpec == Spec /\ Fairness

-----------------------------------------------------------------------------
(***************************************************************************)
(* The variables have their types, the queues their bound.                 *)
(***************************************************************************)
TypeOK ==
  /\ queue_ \in Seq(Task \ Hp) /\ Len(queue_) <= QueueSize
  /\ hp_queue_ \in Seq(Hp) /\ Len(hp_queue_) <= QueueSize
  /\ finish_ \in BOOLEAN
  /\ busy_threads_ \in Int
  /\ pc \in [Proc -> Place]
  /\ stack \in [Proc -> Seq(Func)]
  /\ enqueued \in [Func -> Nat]
  /\ done \subseteq Task

(***************************************************************************)
(* wait only asks the threads to stop when no task is enqueued and none is *)
(* being run: its two tests, of the queues and of busy_threads_, are not   *)
(* made at the same time, and threads pop, run and enqueue between them.   *)
(***************************************************************************)
WaitIsQuiescent ==
  pc[Main] \in {"finish", "join", "off"} =>
     /\ queue_ = <<>> /\ hp_queue_ = <<>>
     /\ \A p \in Proc : stack[p] = <<>>

InQueues == { queue_[i] : i \in DOMAIN queue_ } \cup { hp_queue_[i] : i \in DOMAIN hp_queue_ }

InStacks == UNION { { stack[p][i] : i \in DOMAIN stack[p] } : p \in Proc }

Bag == INSTANCE TaskBag WITH
  ready   <- InQueues,
  running <- InStacks \ {Main},
  open    <- ~ finish_

(***************************************************************************)
(* The pool is the bag that Worklist takes it for: each task is run once,  *)
(* whichever thread takes it, and wait returns when all have been.         *)
(***************************************************************************)
ImplementsTaskBag == Bag!Spec

(***************************************************************************)
(* Every enqueued task is run to its end, though threads in full queues    *)
(* and in soft_parallel_for hold tasks up while they run others.           *)
(***************************************************************************)
EveryTaskRuns ==
  \A t \in Task : (t \in InQueues) ~> (t \in done)

(***************************************************************************)
(* wait returns.                                                           *)
(***************************************************************************)
WaitEnds == (stack[Main] = <<>>) ~> (pc[Main] = "off")
=============================================================================
