------------------------------ MODULE Observer ------------------------------
(***************************************************************************)
(* Waiting inside a program: class Observer, whose destructor waits for    *)
(* the tasks spawned since its construction, wait_for_subtasks, which      *)
(* waits for all those of the current task, and wait_for, which waits for  *)
(* the writers of some variables.                                          *)
(*                                                                         *)
(* An observer walks the worklist again and again, from the newest item to *)
(* a limit, until it meets no item of its own that is unfinished.  It      *)
(* counts itself in ObserversAtWork, so that nobody erases meanwhile.      *)
(* While it waits its thread runs tasks of the pool, and only comes back   *)
(* when the one it runs is through.                                        *)
(*                                                                         *)
(* Each function waits at most once.  There are other threads that run     *)
(* tasks too.                                                              *)
(***************************************************************************)
EXTENDS Reclaim

CONSTANTS Observed,      \* Observed[f]: {} or {<<i, j>>}: f may build an Observer after
                         \* its first i spawns, and then destroys it after the first j
          Joined,        \* Joined[f]: {} or {j}: without an Observer, f calls
                         \* wait_for_subtasks after its first j spawns
          Awaited,       \* the tasks with which wait_for waits
          Priority       \* priority_ of the observer of each function

ASSUME ObservedAssumption == Observed \in [Pointer -> SUBSET (Nat \X Nat)]
ASSUME JoinedAssumption == Joined \in [Pointer -> SUBSET Nat] /\ Joined[Nil] = {}
ASSUME AwaitedAssumption == Awaited \subseteq Task
ASSUME PriorityAssumption == Priority \in [Pointer -> BOOLEAN]

VARIABLES
  obs,            \* where the observer of each function is
  limit,          \* limit_
  fathers,        \* the items whose children it must wait for
  seen,           \* p
  again,          \* must_reiterate
  priority,       \* whether this walk only helps where it meets an item of its own
  helped,         \* whether it has
  helping,        \* the task that its thread runs meanwhile
  earlier         \* history: the tasks its function had spawned when it was built

walkVars == <<again, priority, helped>>
obsVars == <<obs, limit, fathers, seen, walkVars, helping, earlier>>
observerVars == <<reclaimVars, obsVars>>

ObserverPlace == {"none", "open", "spin", "pass", "try", "help", "done"}

ObserverInit ==
  /\ ReclaimInit
  /\ obs = [f \in Pointer |-> "none"]
  /\ limit = [f \in Pointer |-> Nil]
  /\ fathers = [f \in Pointer |-> {}]
  /\ seen = [f \in Pointer |-> Nil]
  /\ again = [f \in Pointer |-> FALSE]
  /\ priority = [f \in Pointer |-> TRUE]
  /\ helped = [f \in Pointer |-> FALSE]
  /\ helping = [f \in Pointer |-> Nil]
  /\ earlier = [f \in Pointer |-> {}]

Waiting(f) == obs[f] \in {"spin", "pass", "try", "help"}

(***************************************************************************)
(* The thread of f is in common_wait_for: was_run is not set yet.  All     *)
(* that the task of wait_for does is to set it, which is part of its Start *)
(* here.                                                                   *)
(***************************************************************************)
Awaiting(f) ==
  \/ helping[f] # Nil
  \/ \E t \in Awaited : father[t] = f /\ ins[t] = "inserted" /\ run[t] = "idle"

Blocked(f) == Waiting(f) \/ Awaiting(f)

ChildrenOf(f) == { t \in Task : ins[t] # "unborn" /\ father[t] = f }

(***************************************************************************)
(* f may build an observer now, has to destroy it, or has to call          *)
(* wait_for_subtasks.                                                      *)
(***************************************************************************)
spawned(f) == Cardinality(ChildrenOf(f))

BuildNext(f) == obs[f] = "none" /\ \E o \in Observed[f] : o[1] = spawned(f)
DestroyNext(f) == obs[f] = "open" /\ \E o \in Observed[f] : o[2] = spawned(f)
JoinNext(f) == obs[f] = "none" /\ spawned(f) \in Joined[f]

Busy(f) == Blocked(f) \/ DestroyNext(f) \/ JoinNext(f)

-----------------------------------------------------------------------------
(* The steps of Reclaim, for a thread that does not wait.                  *)

(***************************************************************************)
(* An observer that points to a block in use again points to the new item. *)
(***************************************************************************)
ObserverSpawn(f, t, a) ==
  LET Now(p) == IF p \in reused' \ reused THEN t ELSE p
  IN  /\ ~ Busy(f)
      /\ ReclaimSpawn(f, t, a)
      /\ limit' = [g \in Pointer |-> Now(limit[g])]
      /\ seen' = [g \in Pointer |-> Now(seen[g])]
      /\ fathers' = [g \in Pointer |-> { Now(p) : p \in fathers[g] }]
      /\ UNCHANGED <<obs, walkVars, helping, earlier>>

(***************************************************************************)
(* A function does not return before its observer is destroyed.            *)
(***************************************************************************)
ObserverExecute(t) ==
  /\ run[t] = "body" => ~ Busy(t) /\ obs[t] # "open"
  /\ ReclaimExecute(t)
  /\ UNCHANGED obsVars

ObserverOthers ==
  /\ \/ Erase
     \/ ~ Blocked(Nil) /\ ReclaimWaitForAll
  /\ UNCHANGED obsVars

-----------------------------------------------------------------------------
(* The observer.                                                           *)

untouched == <<vars, tested, eraserVars, freed, reused>>

(***************************************************************************)
(* Its construction.                                                       *)
(***************************************************************************)
Build(f) ==
  /\ BuildNext(f)
  /\ InUserCode(f) /\ ~ Blocked(f)
  /\ obs' = [obs EXCEPT ![f] = "open"]
  /\ limit' = [limit EXCEPT ![f] = worklist]
  /\ earlier' = [earlier EXCEPT ![f] = ChildrenOf(f)]
  /\ UNCHANGED <<reclaimVars, fathers, seen, walkVars, helping>>

StartWait(f) ==
  /\ InUserCode(f) /\ ~ Blocked(f)
  /\ obs' = [obs EXCEPT ![f] = "spin"]
  /\ fathers' = [fathers EXCEPT ![f] = {f}]
  /\ ObserversAtWork' = ObserversAtWork + 1
  /\ UNCHANGED <<untouched, seen, walkVars, helping, earlier>>

(***************************************************************************)
(* wait_for_subtasks of a task: an observer that ends at once, with the    *)
(* item of the task as its limit.                                          *)
(***************************************************************************)
WaitForSubtasks(f) ==
  /\ JoinNext(f)
  /\ StartWait(f)
  /\ limit' = [limit EXCEPT ![f] = f]

(***************************************************************************)
(* The destructor.                                                         *)
(***************************************************************************)
Destroy(f) ==
  /\ DestroyNext(f)
  /\ StartWait(f)
  /\ UNCHANGED limit

safe_end(f) == IF f # Nil THEN limit[f] ELSE Nil

StartPass(f) ==
  /\ obs' = [obs EXCEPT ![f] = "pass"]
  /\ seen' = [seen EXCEPT ![f] = worklist]
  /\ again' = [again EXCEPT ![f] = FALSE]
  /\ helped' = [helped EXCEPT ![f] = FALSE]
  /\ UNCHANGED <<reclaimVars, limit, fathers, helping, earlier>>

(***************************************************************************)
(* Once there is no eraser, the first walk starts, always with priority.   *)
(***************************************************************************)
FirstPass(f) ==
  /\ obs[f] = "spin" /\ eraser = Nil
  /\ StartPass(f)
  /\ UNCHANGED priority

(***************************************************************************)
(* An item whose father is one of those to wait for may be a father too.   *)
(* While it is unfinished, the thread tries to run a task; in a walk       *)
(* without priority, so it does at the items that are not its own.         *)
(***************************************************************************)
Visit(f) ==
  LET p    == seen[f]
      mine == father[p] \in fathers[f]
      busy == mine /\ status[p] \in Active
      help == busy \/ (~ mine /\ ~ priority[f])
  IN  /\ obs[f] = "pass" /\ p # safe_end(f) /\ p # Nil
      /\ fathers' = IF mine THEN [fathers EXCEPT ![f] = @ \cup {p}] ELSE fathers
      /\ again' = IF busy THEN [again EXCEPT ![f] = TRUE] ELSE again
      /\ obs' = IF help THEN [obs EXCEPT ![f] = "try"] ELSE obs
      /\ seen' = IF help THEN seen ELSE [seen EXCEPT ![f] = next[p]]
      /\ UNCHANGED <<reclaimVars, limit, priority, helped, helping, earlier>>

(***************************************************************************)
(* try_to_run: whatever the item is, the pool gives any task that is       *)
(* enqueued, to be run on top of the function that waits.                  *)
(***************************************************************************)
TakeTask(f, q) ==
  /\ Start(q)
  /\ helping' = [helping EXCEPT ![f] = q]
  /\ UNCHANGED <<tested, ObserversAtWork, eraserVars, freed, reused, limit, fathers, seen,
                 again, priority, earlier>>

(***************************************************************************)
(* It is through, with erasing too.                                        *)
(***************************************************************************)
Through(q) == run[q] = "out" /\ eraser # q

TryToRun(f) ==
  /\ obs[f] = "try"
  /\ \E q \in Task : TakeTask(f, q)
  /\ obs' = [obs EXCEPT ![f] = "help"]
  /\ helped' = [helped EXCEPT ![f] = @ \/ father[seen[f]] \in fathers[f]]

GoOn(f) ==
  /\ \/ obs[f] = "try" /\ \A q \in Task : queue[q] = 0
     \/ obs[f] = "help" /\ Through(helping[f])
  /\ obs' = [obs EXCEPT ![f] = "pass"]
  /\ helping' = [helping EXCEPT ![f] = Nil]
  /\ seen' = [seen EXCEPT ![f] = next[seen[f]]]
  /\ UNCHANGED <<reclaimVars, limit, fathers, walkVars, earlier>>

(***************************************************************************)
(* At the limit: another walk, with priority as long as it could help its  *)
(* own tasks, or the end of the wait.                                      *)
(***************************************************************************)
NextPass(f) ==
  /\ obs[f] = "pass" /\ seen[f] = safe_end(f) /\ again[f]
  /\ StartPass(f)
  /\ priority' = IF helped[f] THEN priority ELSE [priority EXCEPT ![f] = Priority[f]]

(***************************************************************************)
(* Mutation of EndWait: ObserversAtWork is not decremented.                *)
(***************************************************************************)
EndWait_StaysAtWork(f) ==
  /\ obs[f] = "pass" /\ seen[f] = safe_end(f) /\ ~ again[f]
  /\ obs' = [obs EXCEPT ![f] = "done"]
  /\ UNCHANGED <<reclaimVars, limit, fathers, seen, walkVars, helping, earlier>>

EndWait(f) ==
  /\ obs[f] = "pass" /\ seen[f] = safe_end(f) /\ ~ again[f]
  /\ obs' = [obs EXCEPT ![f] = "done"]
  /\ ObserversAtWork' = ObserversAtWork - 1
  /\ UNCHANGED <<untouched, limit, fathers, seen, walkVars, helping, earlier>>

(***************************************************************************)
(* wait_for: the loop that runs tasks until was_run is set.                *)
(***************************************************************************)
AwaitTask(f) ==
  /\ ~ Waiting(f) /\ helping[f] = Nil /\ Awaiting(f)
  /\ \E q \in Task : TakeTask(f, q)
  /\ UNCHANGED <<obs, helped>>

AwaitNext(f) ==
  /\ ~ Waiting(f) /\ helping[f] # Nil /\ Through(helping[f])
  /\ helping' = [helping EXCEPT ![f] = Nil]
  /\ UNCHANGED <<reclaimVars, obs, limit, fathers, seen, walkVars, earlier>>

Observe(f) ==
  \/ Build(f) \/ WaitForSubtasks(f) \/ Destroy(f) \/ FirstPass(f) \/ Visit(f) \/ TryToRun(f) \/ GoOn(f) \/ NextPass(f)
  \/ EndWait(f) \/ AwaitTask(f) \/ AwaitNext(f)

-----------------------------------------------------------------------------
ObserverInsert(t) == ReclaimInsert(t) /\ UNCHANGED obsVars

SpawnOf(f) == \E t \in Task : \E a \in Uses[t] : ObserverSpawn(f, t, a)

ObserverNext ==
  \/ \E f \in Pointer : SpawnOf(f)
  \/ \E t \in Task : ObserverInsert(t) \/ ObserverExecute(t)
  \/ ObserverOthers
  \/ \E f \in Pointer : Observe(f)

ObserverSpec == ObserverInit /\ [][ObserverNext]_observerVars

(***************************************************************************)
(* As in Reclaim; who has an observer gets to the end of its block, and    *)
(* who waits goes on.                                                      *)
(***************************************************************************)
Waiters ==
  { f \in Pointer : Observed[f] # {} \/ Joined[f] # {} \/ (\E k \in DOMAIN Body[f] : Body[f][k] \in Awaited) }

ObserverFairSpec ==
  /\ ObserverSpec
  /\ \A t \in Task : WF_observerVars(ObserverInsert(t)) /\ WF_observerVars(ObserverExecute(t))
  /\ \A f \in Waiters : /\ WF_observerVars(Observe(f))
                         /\ WF_observerVars(obs[f] = "open" /\ SpawnOf(f))
  /\ WF_observerVars(Erase /\ UNCHANGED obsVars)

-----------------------------------------------------------------------------
(***************************************************************************)
(* The types of the variables of the observers, and ObserversAtWork counts *)
(* those who wait: it is what keeps the erasers away.                      *)
(***************************************************************************)
ObserverTypeOK ==
  /\ ReclaimTypeOK
  /\ obs \in [Pointer -> ObserverPlace]
  /\ limit \in [Pointer -> Pointer]
  /\ fathers \in [Pointer -> SUBSET Pointer]
  /\ seen \in [Pointer -> Pointer]
  /\ {again, priority, helped} \subseteq [Pointer -> BOOLEAN]
  /\ helping \in [Pointer -> Pointer]
  /\ earlier \in [Pointer -> SUBSET Task]
  /\ ObserversAtWork = Cardinality({ f \in Pointer : Waiting(f) })

(***************************************************************************)
(* When its destructor returns, the tasks that its thread spawned since    *)
(* the observer was built have finished, their subtasks with them          *)
(* (main.dox, line 264).                                                   *)
(***************************************************************************)
ObserverWaits ==
  [][\A f \in Pointer :
        obs'[f] = "done" /\ obs[f] # "done" =>
          \A c \in ChildrenOf(f) \ earlier[f], t \in Task :
             t = c \/ c \in Ancestors[t] => status[t] \in Finished]_obs

(***************************************************************************)
(* The walk of an observer inside a task ends at its limit, which the      *)
(* comment of depspawn.cpp, line 682, says cannot have been deallocated,   *)
(* and does not go on to the null pointer behind the list.                 *)
(***************************************************************************)
LimitIsSafe ==
  \A f \in Task : obs[f] = "pass" => seen[f] # Nil

(***************************************************************************)
(* No item is erased while an observer walks the list: ObserversAtWork     *)
(* disables "future attempts to erase Workitems" (depspawn.cpp, line 677). *)
(***************************************************************************)
NoEraserMeanwhile ==
  \A f \in Pointer : obs[f] \in {"pass", "try", "help"} => eraser = Nil

(***************************************************************************)
(* A task that a waiting function runs on top of it does not wait for one  *)
(* that must wait for the function beneath: neither would ever go on.      *)
(***************************************************************************)
HelpReturns ==
  \A f, q, c \in Task :
     helping[f] = q /\ Waiting(q) /\ q \in Ancestors[c] /\ status[c] = "Waiting" =>
        ~ Graph!MustWaitFor(c, f)

(***************************************************************************)
(* Who waits, for its subtasks, for all since an observer was built or for *)
(* some variables, goes on in the end.                                     *)
(***************************************************************************)
WaitsEnd == \A f \in Waiters : Blocked(f) ~> ~ Blocked(f)
=============================================================================
