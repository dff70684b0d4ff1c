------------------------------ MODULE Worklist ------------------------------
(***************************************************************************)
(* The heart of DepSpawn: the worklist of Workitems, how a new one finds   *)
(* the earlier ones it depends on (Workitem::insert_in_worklist) and how a *)
(* finished one releases those that wait for it                            *)
(* (Workitem::finish_execution).                                           *)
(*                                                                         *)
(* Every Workitem is named by its task.  Two threads may work on a task t: *)
(* the one that spawns it, at ins[t] of insert_in_worklist, and later the  *)
(* one that executes it, at run[t] of TaskPool::Task::run and              *)
(* finish_execution.  Nil is the null pointer, and as a father it stands   *)
(* for the main thread, which executes no task of its own.                 *)
(*                                                                         *)
(* The pool that executes tasks is a bag of ready ones, from which any may *)
(* be taken at any time; the items that leave the list (Clean_worklist)    *)
(* are not removed here.  Memory is sequentially consistent: the fence and *)
(* the compare-and-swap of the code order the only stores that could be    *)
(* seen late, those of the status Done.                                    *)
(***************************************************************************)
EXTENDS ArgInfo, FiniteSets

CONSTANTS Task,      \* the tasks of the program
          Nil,       \* nullptr
          Body,      \* Body[f]: the tasks that f, or the main thread, spawns, in order
          Uses       \* Uses[t]: the argument lists t may be spawned with

ASSUME TaskAssumption == IsFiniteSet(Task)
ASSUME NilAssumption == Nil \notin Task
ASSUME BodyAssumption == Body \in [Task \cup {Nil} -> Seq(Task)]
ASSUME UsesAssumption == Uses \in [Task -> SUBSET Seq(Region)]

VARIABLES
  worklist,       \* the newest Workitem in the list
  \* the fields of each Workitem
  next, status, optFlags, father, args, ndependencies, nchildren, deps,
  queue,          \* how many times each task is enqueued in the TaskPool
  \* the thread that inserts a task: its place, the item it looks at (p), the
  \* next ancestor it expects, and the arguments it still compares
  ins, scan, ancestor, argv,
  \* the thread that executes a task: its place, the item it waits for (p),
  \* the item it is finishing and the place in that item's deps
  run, walk, current, idep,
  \* history: the arguments a task was spawned with, and the items that were
  \* in the list when it was pushed
  declared, before

itemVars == <<next, status, optFlags, father, args, ndependencies, nchildren, deps>>
insVars  == <<ins, scan, ancestor, argv>>
runVars  == <<run, walk, current, idep>>
history  == <<declared, before>>
vars     == <<worklist, itemVars, queue, insVars, runVars, history>>

Pointer == Task \cup {Nil}

Active == {"Filling", "Waiting", "Ready", "Running"}     \* status < Done
Finished == {"Done", "Deallocatable"}
Status == {"Unallocated"} \cup Active \cup Finished

OptFlags == {"PendingFills", "FatherScape"}

InsPlace == {"unborn", "push", "scan", "examine", "flag", "wait", "inserted"}
RunPlace == {"idle", "body", "mark", "load", "walk", "drain", "free", "climb", "out"}

Init ==
  /\ worklist = Nil
  /\ next = [t \in Task |-> Nil]
  /\ status = [t \in Task |-> "Unallocated"]
  /\ optFlags = [t \in Task |-> {}]
  /\ father = [t \in Task |-> Nil]
  /\ args = [t \in Task |-> <<>>]
  /\ ndependencies = [t \in Task |-> 0]
  /\ nchildren = [t \in Task |-> 0]
  /\ deps = [t \in Task |-> <<>>]
  /\ queue = [t \in Task |-> 0]
  /\ ins = [t \in Task |-> "unborn"]
  /\ scan = [t \in Task |-> Nil]
  /\ ancestor = [t \in Task |-> Nil]
  /\ argv = [t \in Task |-> <<>>]
  /\ run = [t \in Task |-> "idle"]
  /\ walk = [t \in Task |-> Nil]
  /\ current = [t \in Task |-> Nil]
  /\ idep = [t \in Task |-> 0]
  /\ declared = [t \in Task |-> <<>>]
  /\ before = [t \in Task |-> {}]

-----------------------------------------------------------------------------
(* Spawning and insertion.                                                 *)

Inserting(t) == ins[t] \notin {"unborn", "inserted"}

(***************************************************************************)
(* The thread of f, or the main thread, is in the code of the user.        *)
(***************************************************************************)
InUserCode(f) ==
  /\ f # Nil => run[f] = "body"
  /\ \A t \in Task : father[t] = f => ~ Inserting(t)

(***************************************************************************)
(* The next spawn statement in the function of f is that of t.             *)
(***************************************************************************)
NextSpawn(f, t) ==
  \E k \in DOMAIN Body[f] :
     /\ Body[f][k] = t
     /\ \A j \in 1 .. k - 1 : ins[Body[f][j]] # "unborn"

(***************************************************************************)
(* spawn: the argument list is built and the Workitem constructed.         *)
(***************************************************************************)
Spawn(f, t, a) ==
  /\ InUserCode(f) /\ NextSpawn(f, t)
  /\ ins[t] = "unborn"
  /\ ins' = [ins EXCEPT ![t] = "push"]
  /\ status' = [status EXCEPT ![t] = "Filling"]
  /\ father' = [father EXCEPT ![t] = f]
  /\ args' = [args EXCEPT ![t] = a]
  /\ nchildren' = [u \in Task |-> IF u = t THEN 1
                                  ELSE IF u = f THEN nchildren[u] + 1
                                  ELSE nchildren[u]]
  /\ argv' = [argv EXCEPT ![t] = a]
  /\ ancestor' = [ancestor EXCEPT ![t] = f]
  /\ declared' = [declared EXCEPT ![t] = a]
  /\ UNCHANGED <<worklist, next, optFlags, ndependencies, deps, queue, scan, runVars, before>>

InWorklist == IF worklist = Nil THEN {} ELSE before[worklist] \cup {worklist}

(***************************************************************************)
(* The compare-and-swap that makes t the head of the worklist.             *)
(***************************************************************************)
Push(t) ==
  /\ ins[t] = "push"
  /\ next' = [next EXCEPT ![t] = worklist]
  /\ worklist' = t
  /\ scan' = [scan EXCEPT ![t] = worklist]
  /\ ins' = [ins EXCEPT ![t] = "scan"]
  /\ before' = [before EXCEPT ![t] = InWorklist]
  /\ UNCHANGED <<status, optFlags, father, args, ndependencies, nchildren, deps,
                 queue, ancestor, argv, runVars, declared>>

(***************************************************************************)
(* Mutation of SkipAncestor: only the father is recognised as an ancestor, *)
(* not the tasks above it.                                                 *)
(***************************************************************************)
SkipAncestor_OnlyFather(t) ==
  LET p     == scan[t]
      above == father[p]
      stop  == above # Nil /\ is_contained(args[t], args[above])
  IN  /\ ins[t] = "scan" /\ p # Nil /\ p = ancestor[t]
      /\ optFlags' = IF stop THEN [optFlags EXCEPT ![t] = @ \cup {"FatherScape"}] ELSE optFlags
      /\ scan' = [scan EXCEPT ![t] = IF stop THEN Nil ELSE next[p]]
      /\ UNCHANGED <<worklist, next, status, father, args, ndependencies, nchildren, deps,
                     queue, ins, ancestor, argv, runVars, history>>

(***************************************************************************)
(* The scan reaches the next ancestor: no dependency on it.  The search    *)
(* ends here if the arguments of t lie within those of the ancestor above. *)
(***************************************************************************)
SkipAncestor(t) ==
  LET p     == scan[t]
      above == father[p]
      stop  == above # Nil /\ is_contained(args[t], args[above])
  IN  /\ ins[t] = "scan" /\ p # Nil /\ p = ancestor[t]
      /\ ancestor' = [ancestor EXCEPT ![t] = above]
      /\ optFlags' = IF stop THEN [optFlags EXCEPT ![t] = @ \cup {"FatherScape"}] ELSE optFlags
      /\ scan' = [scan EXCEPT ![t] = IF stop THEN Nil ELSE next[p]]
      /\ UNCHANGED <<worklist, next, status, father, args, ndependencies, nchildren, deps,
                     queue, ins, argv, runVars, history>>

(***************************************************************************)
(* The scan reaches another item, and reads its status: finished ones are  *)
(* passed over.                                                            *)
(***************************************************************************)
Look(t) ==
  LET p == scan[t]
  IN  /\ ins[t] = "scan" /\ p # Nil /\ p # ancestor[t]
      /\ IF status[p] \in Active
         THEN /\ ins' = [ins EXCEPT ![t] = "examine"]
              /\ UNCHANGED scan
         ELSE /\ scan' = [scan EXCEPT ![t] = next[p]]
              /\ UNCHANGED ins
      /\ UNCHANGED <<worklist, itemVars, queue, ancestor, argv, runVars, history>>

(***************************************************************************)
(* The scan takes up the next item.                                        *)
(***************************************************************************)
Scan(t) == ins[t] = "scan" /\ (SkipAncestor(t) \/ Look(t))

(***************************************************************************)
(* Mutation of Examine: the dependency is linked without being counted     *)
(* when the task already has one.                                          *)
(***************************************************************************)
Examine_CountOnce(t) ==
  LET p   == scan[t]
      hit == FirstConflict(args[p], argv[t])
  IN  /\ ins[t] = "examine"
      /\ ins' = [ins EXCEPT ![t] = "flag"]
      /\ IF hit = NoConflict
         THEN UNCHANGED <<ndependencies, deps, argv>>
         ELSE /\ ndependencies' = [ndependencies EXCEPT ![t] = 1]
              /\ deps' = [deps EXCEPT ![p] = Append(@, t)]
              /\ argv' = [argv EXCEPT ![t] = RemoveCovered(args[p], @, hit)]
      /\ UNCHANGED <<worklist, next, status, optFlags, father, args, nchildren,
                     queue, scan, ancestor, runVars, history>>

(***************************************************************************)
(* The arguments of t and p are compared, and t linked behind p if they    *)
(* conflict.                                                               *)
(***************************************************************************)
Examine(t) ==
  LET p   == scan[t]
      hit == FirstConflict(args[p], argv[t])
  IN  /\ ins[t] = "examine"
      /\ ins' = [ins EXCEPT ![t] = "flag"]
      /\ IF hit = NoConflict
         THEN UNCHANGED <<ndependencies, deps, argv>>
         ELSE /\ ndependencies' = [ndependencies EXCEPT ![t] = @ + 1]
              /\ deps' = [deps EXCEPT ![p] = Append(@, t)]
              /\ argv' = [argv EXCEPT ![t] = RemoveCovered(args[p], @, hit)]
      /\ UNCHANGED <<worklist, next, status, optFlags, father, args, nchildren,
                     queue, scan, ancestor, runVars, history>>

(***************************************************************************)
(* Mutation of Flag: an item that is still being filled in is not noted.   *)
(***************************************************************************)
Flag_Never(t) ==
  /\ ins[t] = "flag"
  /\ scan' = [scan EXCEPT ![t] = next[scan[t]]]
  /\ ins' = [ins EXCEPT ![t] = "scan"]
  /\ UNCHANGED <<worklist, itemVars, queue, ancestor, argv, runVars, history>>

(***************************************************************************)
(* t notes that p is itself still looking for its dependencies, and goes   *)
(* on to the next item.                                                    *)
(***************************************************************************)
Flag(t) ==
  LET p == scan[t]
  IN  /\ ins[t] = "flag"
      /\ optFlags' = IF status[p] = "Filling"
                     THEN [optFlags EXCEPT ![t] = @ \cup {"PendingFills"}] ELSE optFlags
      /\ scan' = [scan EXCEPT ![t] = next[p]]
      /\ ins' = [ins EXCEPT ![t] = "scan"]
      /\ UNCHANGED <<worklist, next, status, father, args, ndependencies, nchildren, deps,
                     queue, ancestor, argv, runVars, history>>

(***************************************************************************)
(* Mutation of Settle: the task is posted whether it has dependencies or   *)
(* not.                                                                    *)
(***************************************************************************)
Settle_Always(t) ==
  /\ ins[t] = "scan" /\ scan[t] = Nil
  /\ status' = [status EXCEPT ![t] = "Ready"]
  /\ queue' = [queue EXCEPT ![t] = @ + 1]
  /\ ins' = [ins EXCEPT ![t] = "inserted"]
  /\ UNCHANGED <<worklist, next, optFlags, father, args, ndependencies, nchildren, deps,
                 scan, ancestor, argv, runVars, history>>

(***************************************************************************)
(* End of the scan: without dependencies t is posted (status Ready, then   *)
(* TP->enqueue); otherwise it waits.                                       *)
(***************************************************************************)
Settle(t) ==
  /\ ins[t] = "scan" /\ scan[t] = Nil
  /\ IF ndependencies[t] = 0
     THEN /\ status' = [status EXCEPT ![t] = "Ready"]
          /\ queue' = [queue EXCEPT ![t] = @ + 1]
          /\ ins' = [ins EXCEPT ![t] = "inserted"]
     ELSE /\ ins' = [ins EXCEPT ![t] = "wait"]
          /\ UNCHANGED <<status, queue>>
  /\ UNCHANGED <<worklist, next, optFlags, father, args, ndependencies, nchildren, deps,
                 scan, ancestor, argv, runVars, history>>

SetWaiting(t) ==
  /\ ins[t] = "wait"
  /\ status' = [status EXCEPT ![t] = "Waiting"]
  /\ ins' = [ins EXCEPT ![t] = "inserted"]
  /\ UNCHANGED <<worklist, next, optFlags, father, args, ndependencies, nchildren, deps,
                 queue, scan, ancestor, argv, runVars, history>>

-----------------------------------------------------------------------------
(* Execution and completion.                                               *)

(***************************************************************************)
(* Mutation of Start: the thread does not check that it took the task out  *)
(* of the queue.                                                           *)
(***************************************************************************)
Start_NotTaken(t) ==
  /\ run[t] = "idle" /\ ins[t] = "inserted"
  /\ queue' = [queue EXCEPT ![t] = @ - 1]
  /\ status' = [status EXCEPT ![t] = "Running"]
  /\ run' = [run EXCEPT ![t] = "body"]
  /\ UNCHANGED <<worklist, next, optFlags, father, args, ndependencies, nchildren, deps,
                 insVars, walk, current, idep, history>>

(***************************************************************************)
(* A thread of the pool takes t and begins to run its function.            *)
(***************************************************************************)
Start(t) ==
  /\ queue[t] > 0 /\ run[t] = "idle"
  /\ queue' = [queue EXCEPT ![t] = @ - 1]
  /\ status' = [status EXCEPT ![t] = "Running"]
  /\ run' = [run EXCEPT ![t] = "body"]
  /\ UNCHANGED <<worklist, next, optFlags, father, args, ndependencies, nchildren, deps,
                 insVars, walk, current, idep, history>>

(***************************************************************************)
(* Mutation of EndBody: the task completes with its function, whatever its *)
(* subtasks do.                                                            *)
(***************************************************************************)
EndBody_Alone(t) ==
  /\ run[t] = "body" /\ InUserCode(t)
  /\ nchildren' = [nchildren EXCEPT ![t] = @ - 1]
  /\ run' = [run EXCEPT ![t] = "mark"]
  /\ current' = [current EXCEPT ![t] = t]
  /\ UNCHANGED <<worklist, next, status, optFlags, father, args, ndependencies, deps,
                 queue, insVars, walk, idep, history>>

(***************************************************************************)
(* The function returns.  The task is complete unless it has subtasks that *)
(* are not: then the last of them completes it.                            *)
(***************************************************************************)
EndBody(t) ==
  /\ run[t] = "body" /\ InUserCode(t)
  /\ nchildren' = [nchildren EXCEPT ![t] = @ - 1]
  /\ IF nchildren[t] = 1
     THEN /\ run' = [run EXCEPT ![t] = "mark"]
          /\ current' = [current EXCEPT ![t] = t]
     ELSE /\ run' = [run EXCEPT ![t] = "out"]
          /\ UNCHANGED current
  /\ UNCHANGED <<worklist, next, status, optFlags, father, args, ndependencies, deps,
                 queue, insVars, walk, idep, history>>

MarkDone(t) ==
  /\ run[t] = "mark"
  /\ status' = [status EXCEPT ![current[t]] = "Done"]
  /\ run' = [run EXCEPT ![t] = "load"]
  /\ UNCHANGED <<worklist, next, optFlags, father, args, ndependencies, nchildren, deps,
                 queue, insVars, walk, current, idep, history>>

(***************************************************************************)
(* worklist_wait_hint: the newest item that may have seen current before   *)
(* it was Done.                                                            *)
(***************************************************************************)
LoadHint(t) ==
  /\ run[t] = "load"
  /\ walk' = [walk EXCEPT ![t] = worklist]
  /\ run' = [run EXCEPT ![t] = "walk"]
  /\ UNCHANGED <<worklist, itemVars, queue, insVars, current, idep, history>>

(***************************************************************************)
(* Mutation of Walk: it does not wait for items that are being filled in.  *)
(***************************************************************************)
Walk_NoWait(t) ==
  LET p == walk[t]
  IN  /\ run[t] = "walk"
      /\ IF p = Nil \/ p = t \/ optFlags[p] = {}
         THEN /\ run' = [run EXCEPT ![t] = "drain"]
              /\ idep' = [idep EXCEPT ![t] = 1]
              /\ UNCHANGED walk
         ELSE /\ walk' = [walk EXCEPT ![t] = next[p]]
              /\ UNCHANGED <<run, idep>>
      /\ UNCHANGED <<worklist, itemVars, queue, insVars, current, history>>

(***************************************************************************)
(* One step of the wait for the items between the hint and t itself: each  *)
(* must have found its dependencies, and the first that saw none pending   *)
(* ends the wait.  One that stopped its scan at an ancestor only vouches   *)
(* for the items above its father.  The flags and the father of an item    *)
(* do not change after Filling, which does not come back, so that a step   *)
(* stands for the last of its reads.  Only for the jump to the father of   *)
(* an item, which may be done and erased right after the test, it does so  *)
(* just as long as nothing is erased.                                      *)
(***************************************************************************)
Walk(t) ==
  LET p == walk[t]
      atEnd == p = Nil \/ p = t
      clear == ~ atEnd /\ optFlags[p] = {}
      after == IF /\ "PendingFills" \notin optFlags[p]
                  /\ "FatherScape" \in optFlags[p]
                  /\ status[p] \in Active
               THEN next[father[p]]
               ELSE next[p]
  IN  /\ run[t] = "walk"
      /\ ~ atEnd => status[p] # "Filling"
      /\ IF atEnd \/ clear
         THEN /\ run' = [run EXCEPT ![t] = "drain"]
              /\ idep' = [idep EXCEPT ![t] = 1]
              /\ UNCHANGED walk
         ELSE /\ walk' = [walk EXCEPT ![t] = after]
              /\ UNCHANGED <<run, idep>>
      /\ UNCHANGED <<worklist, itemVars, queue, insVars, current, history>>

(***************************************************************************)
(* Mutation of Drain: the value before the decrement is tested.            *)
(***************************************************************************)
Drain_TestOld(t) ==
  LET list == deps[current[t]]
      w    == list[idep[t]]
  IN  /\ run[t] = "drain" /\ idep[t] <= Len(list)
      /\ ndependencies' = [ndependencies EXCEPT ![w] = @ - 1]
      /\ IF ndependencies[w] = 0
         THEN /\ status' = [status EXCEPT ![w] = "Ready"]
              /\ queue' = [queue EXCEPT ![w] = @ + 1]
         ELSE UNCHANGED <<status, queue>>
      /\ idep' = [idep EXCEPT ![t] = @ + 1]
      /\ UNCHANGED <<worklist, next, optFlags, father, args, nchildren, deps,
                     insVars, run, walk, current, history>>

(***************************************************************************)
(* One dependency is released; the task that waited is posted when it was  *)
(* its last.                                                               *)
(***************************************************************************)
Drain(t) ==
  LET list == deps[current[t]]
      w    == list[idep[t]]
  IN  /\ run[t] = "drain" /\ idep[t] <= Len(list)
      /\ ndependencies' = [ndependencies EXCEPT ![w] = @ - 1]
      /\ IF ndependencies[w] = 1
         THEN /\ status' = [status EXCEPT ![w] = "Ready"]
              /\ queue' = [queue EXCEPT ![w] = @ + 1]
         ELSE UNCHANGED <<status, queue>>
      /\ idep' = [idep EXCEPT ![t] = @ + 1]
      /\ UNCHANGED <<worklist, next, optFlags, father, args, nchildren, deps,
                     insVars, run, walk, current, history>>

(***************************************************************************)
(* After the last one, the list of dependencies is freed ...               *)
(***************************************************************************)
FreeDeps(t) ==
  LET c == current[t]
  IN  /\ run[t] = "drain" /\ idep[t] > Len(deps[c])
      /\ deps' = [deps EXCEPT ![c] = <<>>]
      /\ run' = [run EXCEPT ![t] = "free"]
      /\ UNCHANGED <<worklist, next, status, optFlags, father, args, ndependencies,
                     nchildren, queue, insVars, walk, current, idep, history>>

(***************************************************************************)
(* ... then that of arguments, and the item can be deallocated.            *)
(***************************************************************************)
Release(t) ==
  LET c == current[t]
  IN  /\ run[t] = "free"
      /\ args' = [args EXCEPT ![c] = <<>>]
      /\ status' = [status EXCEPT ![c] = "Deallocatable"]
      /\ run' = [run EXCEPT ![t] = "climb"]
      /\ UNCHANGED <<worklist, next, optFlags, father, ndependencies, nchildren, deps,
                     queue, insVars, walk, current, idep, history>>

(***************************************************************************)
(* Mutation of Climb: the father is completed only if it is waiting for    *)
(* none.                                                                   *)
(***************************************************************************)
Climb_TestOld(t) ==
  LET f == father[current[t]]
  IN  /\ run[t] = "climb"
      /\ IF f = Nil
         THEN /\ run' = [run EXCEPT ![t] = "out"]
              /\ UNCHANGED <<nchildren, current>>
         ELSE /\ nchildren' = [nchildren EXCEPT ![f] = @ - 1]
              /\ IF nchildren[f] = 0
                 THEN /\ run' = [run EXCEPT ![t] = "mark"]
                      /\ current' = [current EXCEPT ![t] = f]
                 ELSE /\ run' = [run EXCEPT ![t] = "out"]
                      /\ UNCHANGED current
      /\ UNCHANGED <<worklist, next, status, optFlags, father, args, ndependencies, deps,
                     queue, insVars, walk, idep, history>>

(***************************************************************************)
(* The father has one subtask less; if it was waiting for this one only,   *)
(* it is finished now too.                                                 *)
(***************************************************************************)
Climb(t) ==
  LET f == father[current[t]]
  IN  /\ run[t] = "climb"
      /\ IF f = Nil
         THEN /\ run' = [run EXCEPT ![t] = "out"]
              /\ UNCHANGED <<nchildren, current>>
         ELSE /\ nchildren' = [nchildren EXCEPT ![f] = @ - 1]
              /\ IF nchildren[f] = 1
                 THEN /\ run' = [run EXCEPT ![t] = "mark"]
                      /\ current' = [current EXCEPT ![t] = f]
                 ELSE /\ run' = [run EXCEPT ![t] = "out"]
                      /\ UNCHANGED current
      /\ UNCHANGED <<worklist, next, status, optFlags, father, args, ndependencies, deps,
                     queue, insVars, walk, idep, history>>

(***************************************************************************)
(* wait_for_all: TP->wait returns when no task is enqueued and no thread   *)
(* is busy; then the whole list is freed.                                  *)
(***************************************************************************)
Quiescent ==
  \A t \in Task : queue[t] = 0 /\ ~ Inserting(t) /\ run[t] \in {"idle", "out"}

WaitForAll ==
  /\ Quiescent
  /\ worklist' = Nil
  /\ UNCHANGED <<itemVars, queue, insVars, runVars, history>>

-----------------------------------------------------------------------------
Insert(t) ==
  Push(t) \/ Scan(t) \/ Examine(t) \/ Flag(t) \/ Settle(t) \/ SetWaiting(t)

Execute(t) ==
  \/ Start(t) \/ EndBody(t) \/ MarkDone(t) \/ LoadHint(t) \/ Walk(t)
  \/ Drain(t) \/ FreeDeps(t) \/ Release(t) \/ Climb(t)

Next ==
  \/ \E f \in Pointer, t \in Task : \E a \in Uses[t] : Spawn(f, t, a)
  \/ \E t \in Task : Insert(t) \/ Execute(t)
  \/ WaitForAll

Spec == Init /\ [][Next]_vars

(***************************************************************************)
(* A spawn in progress goes on; the functions of the tasks terminate, and  *)
(* as every thread of the pool, and the one in wait_for_all, takes tasks   *)
(* while there are any, each enqueued task is eventually run.              *)
(***************************************************************************)
Fairness == \A t \in Task : WF_vars(Insert(t)) /\ WF_vars(Execute(t))

FairSpec == Spec /\ Fairness

-----------------------------------------------------------------------------
(***************************************************************************)
(* Every field has its type; the deps lists and the counters are over      *)
(* tasks and integers.                                                     *)
(***************************************************************************)
ItemTypeOK ==
  /\ worklist \in Pointer
  /\ next \in [Task -> Pointer]
  /\ status \in [Task -> Status]
  /\ optFlags \in [Task -> SUBSET OptFlags]
  /\ father \in [Task -> Pointer]
  /\ args \in [Task -> Seq(Region)]
  /\ ndependencies \in [Task -> Int]
  /\ nchildren \in [Task -> Int]
  /\ deps \in [Task -> Seq(Task)]
  /\ queue \in [Task -> Nat]

ThreadTypeOK ==
  /\ ins \in [Task -> InsPlace]
  /\ scan \in [Task -> Pointer]
  /\ ancestor \in [Task -> Pointer]
  /\ argv \in [Task -> Seq(Region)]
  /\ run \in [Task -> RunPlace]
  /\ walk \in [Task -> Pointer]
  /\ current \in [Task -> Pointer]
  /\ idep \in [Task -> Nat]
  /\ declared \in [Task -> Seq(Region)]
  /\ before \in [Task -> SUBSET Task]

TypeOK == ItemTypeOK /\ ThreadTypeOK

(***************************************************************************)
(* A task being inserted never compares its arguments with a list that the *)
(* other task, finishing in the meantime, has freed.                       *)
(***************************************************************************)
ArgsAlive ==
  \A t \in Task : ins[t] = "examine" => args[scan[t]] = declared[scan[t]]

(***************************************************************************)
(* No task is linked behind a Deallocatable item, which would never        *)
(* release it (the assertions of workitem.cpp, lines 139-144 and 401-406). *)
(***************************************************************************)
NothingLost ==
  \A t \in Task : status[t] = "Deallocatable" => deps[t] = <<>>

(***************************************************************************)
(* A task is handed to the pool at most once, whichever of the inserting   *)
(* thread and the finishing ones sees its last dependency go.              *)
(***************************************************************************)
PostedOnce ==
  \A t \in Task : queue[t] + (IF run[t] = "idle" THEN 0 ELSE 1) <= 1

(***************************************************************************)
(* ndependencies counts exactly the items t is linked behind and that have *)
(* not released it.                                                        *)
(***************************************************************************)
Released(p, i) ==
  \E x \in Task : run[x] = "drain" /\ current[x] = p /\ i < idep[x]

Blockers(t) ==
  { p \in Task : \E i \in DOMAIN deps[p] : deps[p][i] = t /\ ~ Released(p, i) }

CountExact == \A t \in Task : ndependencies[t] = Cardinality(Blockers(t))

(***************************************************************************)
(* The status of a Workitem only advances: in particular the late store of *)
(* Waiting (SetWaiting) never hides that the task was posted already.      *)
(***************************************************************************)
StatusOrder == <<"Unallocated", "Filling", "Waiting", "Ready", "Running", "Done", "Deallocatable">>

Rank(st) == CHOOSE i \in DOMAIN StatusOrder : StatusOrder[i] = st

StatusForward == [][\A t \in Task : Rank(status[t]) <= Rank(status'[t])]_status

-----------------------------------------------------------------------------
(* The promises of the library.                                            *)

Pushed(t) == ins[t] \notin {"unborn", "push"}

Ancestors ==
  [t \in Task |->
     LET up[n \in 0 .. Cardinality(Task)] ==
           IF n = 0 THEN {father[t]} \ {Nil}
           ELSE up[n - 1] \cup ({ father[u] : u \in up[n - 1] } \ {Nil})
     IN  up[Cardinality(Task)]]

(***************************************************************************)
(* A task only starts when the preceding tasks with conflicting arguments, *)
(* its ancestors excepted, have finished (main.dox, "The fine print").     *)
(***************************************************************************)
StartsInOrder ==
  \A t \in Task : run[t] # "idle" =>
     \A q \in before[t] \ Ancestors[t] :
        Conflicting(declared[q], declared[t]) => status[q] \in Finished

(***************************************************************************)
(* wait_for_all, which empties the worklist, only does so when all the     *)
(* tasks in it have finished.                                              *)
(***************************************************************************)
WaitsForAll ==
  [][worklist' = Nil => \A t \in InWorklist : status[t] \in Finished]_worklist

(***************************************************************************)
(* The same promises by the abstract specification TaskGraph.              *)
(***************************************************************************)
PhaseOf(t) ==
  CASE ~ Pushed(t) -> "unborn"
    [] Pushed(t) /\ status[t] \in Finished -> "finished"
    [] Pushed(t) /\ status[t] \in Active /\ run[t] = "idle" -> "pending"
    [] Pushed(t) /\ status[t] \in Active /\ run[t] = "body" -> "running"
    [] OTHER -> "ended"

Graph == INSTANCE TaskGraph WITH
  phase     <- [t \in Task |-> PhaseOf(t)],
  ancestors <- [t \in Task |-> IF Pushed(t) THEN Ancestors[t] ELSE {}],
  args      <- [t \in Task |-> IF Pushed(t) THEN declared[t] ELSE <<>>],
  batch     <- InWorklist

(***************************************************************************)
(* Tasks start, finish and are waited for in the order that the            *)
(* documentation promises: the worklist implements TaskGraph.              *)
(***************************************************************************)
ImplementsTaskGraph == Graph!Spec

(***************************************************************************)
(* Every spawned task eventually runs and finishes, its dependencies and   *)
(* its subtasks with it.                                                   *)
(***************************************************************************)
EveryTaskFinishes ==
  \A t \in Task : (ins[t] = "push") ~> (status[t] = "Deallocatable")
=============================================================================
