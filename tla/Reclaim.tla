------------------------------ MODULE Reclaim ------------------------------
(***************************************************************************)
(* The worklist with its eraser: a thread that finishes a task may claim   *)
(* the role of eraser, unlink the items that are Deallocatable and give    *)
(* their memory back (Workitem::Clean_worklist), while others insert,      *)
(* walk the list and finish.                                               *)
(*                                                                         *)
(* The actions of Worklist are kept; those of the eraser are added.  There *)
(* is one eraser at a time, so that the locals of Clean_worklist are       *)
(* variables of the module.  The block of a freed item may become a new    *)
(* item: then whoever still points to the freed one points to the new one. *)
(* Where a walk gets to through a freed block that is not in use again is  *)
(* not followed: SafeWalks is about that no thread is ever at one.         *)
(*                                                                         *)
(* A finishing thread never runs another task before it is done: a full    *)
(* queue, which can make it do so, is left to TaskPool.                    *)
(***************************************************************************)
EXTENDS Worklist

CONSTANTS Lucky,          \* the items at an address that makes who finishes them try to erase
          MinDeletable    \* a shorter run of items is not worth being unlinked

ASSUME LuckyAssumption == Lucky \subseteq Task
ASSUME MinDeletableAssumption == MinDeletable \in Nat

VARIABLES
  eraser,             \* the task whose thread has set eraser_assigned, or Nil
  tested,             \* the tasks whose thread may do so: it saw no observer and no eraser
  ObserversAtWork,    \* how many observers are waiting
  erasing,            \* the place of the eraser in Clean_worklist
  hint,               \* its worklist_wait_hint
  lastkeep, visit,    \* the last item it keeps, and p
  deletable,          \* the items to delete since lastkeep
  Dones, Sublists,    \* the items it found Done; those it unlinked
  freed,              \* the items whose memory was given back
  reused              \* those of them whose memory is a newer item now

eraserVars == <<eraser, erasing, hint, lastkeep, visit, deletable, Dones, Sublists>>
reclaimVars == <<vars, tested, ObserversAtWork, eraserVars, freed, reused>>

ErasePlace == {"none", "look", "keep", "cut", "reload", "wait", "dones"}

ReclaimInit ==
  /\ Init
  /\ eraser = Nil /\ tested = {} /\ ObserversAtWork = 0
  /\ erasing = "none" /\ hint = Nil /\ lastkeep = Nil /\ visit = Nil
  /\ deletable = {} /\ Dones = {} /\ Sublists = {}
  /\ freed = {} /\ reused = {}

-----------------------------------------------------------------------------
(* The worklist, and the memory of its items.                              *)

(***************************************************************************)
(* Workitem::Pool.malloc: the item of t is a block never used, or that of  *)
(* an item that was freed and whose own thread is gone.  Its address makes *)
(* it as lucky as that one was.                                            *)
(***************************************************************************)
ReclaimSpawn(f, t, a) ==
  LET nextBlock == { d \in freed \ reused : run[d] = "out" /\ (d \in Lucky <=> t \in Lucky) }
      Into(d, ptr) == [x \in Task |-> IF d # Nil /\ ptr[x] = d THEN t ELSE ptr[x]]
  IN  /\ InUserCode(f) /\ NextSpawn(f, t)
      /\ ins[t] = "unborn"
      /\ ins' = [ins EXCEPT ![t] = "push"]
      /\ status' = [status EXCEPT ![t] = "Filling"]
      /\ father' = [father EXCEPT ![t] = f]
      /\ args' = [args EXCEPT ![t] = a]
      /\ argv' = [argv EXCEPT ![t] = a]
      /\ ancestor' = [ancestor EXCEPT ![t] = f]
      /\ declared' = [declared EXCEPT ![t] = a]
      /\ nchildren' = [u \in Task |-> IF u = t THEN 1
                                      ELSE IF u = f THEN nchildren[u] + 1
                                      ELSE nchildren[u]]
      /\ \E d \in nextBlock \cup {Nil} :
            /\ reused' = reused \cup ({d} \ {Nil})
            /\ scan' = Into(d, scan)
            /\ walk' = Into(d, walk)
            /\ hint' = IF d # Nil /\ hint = d THEN t ELSE hint
      /\ UNCHANGED <<worklist, next, optFlags, ndependencies, deps, queue, run, current, idep,
                     before, tested, ObserversAtWork, eraser, erasing, lastkeep, visit,
                     deletable, Dones, Sublists, freed>>

(***************************************************************************)
(* The scan passes over its own item, though it "shouldn't" meet it.       *)
(***************************************************************************)
ReclaimLook(t) ==
  IF ins[t] = "scan" /\ scan[t] = t
  THEN /\ scan' = [scan EXCEPT ![t] = next[t]]
       /\ UNCHANGED <<worklist, itemVars, queue, ins, ancestor, argv, runVars, history>>
  ELSE Look(t)

ReclaimInsert(t) ==
  /\ Push(t) \/ SkipAncestor(t) \/ ReclaimLook(t) \/ Examine(t) \/ Flag(t)
       \/ Settle(t) \/ SetWaiting(t)
  /\ UNCHANGED <<tested, ObserversAtWork, eraserVars, freed, reused>>

(***************************************************************************)
(* The list is freed with what is left in it.                              *)
(***************************************************************************)
ReclaimWaitForAll ==
  /\ eraser = Nil
  /\ WaitForAll
  /\ freed' = { t \in Task : Pushed(t) }
  /\ UNCHANGED <<tested, ObserversAtWork, eraserVars, reused>>

-----------------------------------------------------------------------------
(* Becoming the eraser.                                                    *)

(***************************************************************************)
(* Of the conditions on the exchange, the address and the two flags ...    *)
(***************************************************************************)
TestErase(t) ==
  /\ run[t] = "load" /\ current[t] \in Lucky
  /\ t \notin tested /\ eraser # t
  /\ ObserversAtWork = 0 /\ eraser = Nil
  /\ tested' = tested \cup {t}
  /\ UNCHANGED <<vars, ObserversAtWork, eraserVars, freed, reused>>

(***************************************************************************)
(* ... and the exchange.                                                   *)
(***************************************************************************)
Claim(t) ==
  /\ t \in tested /\ eraser = Nil
  /\ eraser' = t
  /\ tested' = tested \ {t}
  /\ UNCHANGED <<vars, ObserversAtWork, erasing, hint, lastkeep, visit, deletable,
                 Dones, Sublists, freed, reused>>

(***************************************************************************)
(* Mutation of ReclaimLoadHint: the hint is the item that was finished.    *)
(***************************************************************************)
ReclaimLoadHint_Own(t) ==
  /\ LoadHint(t)
  /\ hint' = IF eraser = t THEN current[t] ELSE hint
  /\ tested' = tested \ {t}
  /\ UNCHANGED <<ObserversAtWork, eraser, erasing, lastkeep, visit, deletable, Dones, Sublists,
                 freed, reused>>

(***************************************************************************)
(* Without any of this, or if the exchange fails, which a weak one may     *)
(* always do, the thread goes on.  The eraser remembers its last hint.     *)
(***************************************************************************)
ReclaimLoadHint(t) ==
  /\ LoadHint(t)
  /\ hint' = IF eraser = t THEN worklist ELSE hint
  /\ tested' = tested \ {t}
  /\ UNCHANGED <<ObserversAtWork, eraser, erasing, lastkeep, visit, deletable, Dones, Sublists,
                 freed, reused>>

ReclaimExecute(t) ==
  \/ TestErase(t) \/ Claim(t) \/ ReclaimLoadHint(t)
  \/ /\ Start(t) \/ EndBody(t) \/ MarkDone(t) \/ Walk(t) \/ Drain(t) \/ FreeDeps(t)
          \/ Release(t) \/ Climb(t)
     /\ UNCHANGED <<tested, ObserversAtWork, eraserVars, freed, reused>>

-----------------------------------------------------------------------------
(* Clean_worklist.                                                         *)

eraserIdle == <<vars, eraser, tested, ObserversAtWork, hint>>

(***************************************************************************)
(* The eraser is through with its own task.  The newest item always stays. *)
(***************************************************************************)
BeginErase ==
  /\ eraser # Nil /\ run[eraser] = "out" /\ erasing = "none"
  /\ erasing' = "look"
  /\ lastkeep' = worklist
  /\ visit' = next[worklist]
  /\ UNCHANGED <<eraserIdle, deletable, Dones, Sublists, freed, reused>>

LookAt ==
  /\ erasing = "look" /\ visit # Nil
  /\ IF status[visit] = "Deallocatable"
     THEN /\ deletable' = deletable \cup {visit}
          /\ visit' = next[visit]
          /\ UNCHANGED erasing
     ELSE /\ erasing' = "keep"
          /\ UNCHANGED <<deletable, visit>>
  /\ UNCHANGED <<eraserIdle, lastkeep, Dones, Sublists, freed, reused>>

(***************************************************************************)
(* An item that stays: if it is Done, who finishes it may be walking.      *)
(***************************************************************************)
Keep ==
  /\ erasing = "keep"
  /\ erasing' = "cut"
  /\ Dones' = IF status[visit] = "Done" THEN Dones \cup {visit} ELSE Dones
  /\ UNCHANGED <<eraserIdle, lastkeep, visit, deletable, Sublists, freed, reused>>

(***************************************************************************)
(* The run of items before it is unlinked if it is long enough.            *)
(***************************************************************************)
Cut ==
  LET enough == Cardinality(deletable) > MinDeletable
  IN  /\ erasing = "cut"
      /\ erasing' = "look"
      /\ next' = IF enough THEN [next EXCEPT ![lastkeep] = visit] ELSE next
      /\ Sublists' = IF enough THEN Sublists \cup deletable ELSE Sublists
      /\ lastkeep' = visit
      /\ visit' = next[visit]
      /\ deletable' = {}
      /\ UNCHANGED <<worklist, status, optFlags, father, args, ndependencies, nchildren, deps,
                     queue, insVars, runVars, history, eraser, tested, ObserversAtWork, hint,
                     Dones, freed, reused>>

(***************************************************************************)
(* Mutation of CutTail: the last item that stays keeps its successor.      *)
(***************************************************************************)
CutTail_StaysLinked ==
  /\ erasing = "look" /\ visit = Nil
  /\ erasing' = "reload"
  /\ Sublists' = IF next[lastkeep] # Nil THEN Sublists \cup deletable ELSE Sublists
  /\ lastkeep' = Nil
  /\ deletable' = {}
  /\ UNCHANGED <<vars, eraser, tested, ObserversAtWork, hint, visit, Dones, freed, reused>>

(***************************************************************************)
(* What comes after the last item that stays is unlinked in any case.      *)
(***************************************************************************)
CutTail ==
  /\ erasing = "look" /\ visit = Nil
  /\ erasing' = "reload"
  /\ next' = [next EXCEPT ![lastkeep] = Nil]
  /\ Sublists' = IF next[lastkeep] # Nil THEN Sublists \cup deletable ELSE Sublists
  /\ lastkeep' = Nil
  /\ deletable' = {}
  /\ UNCHANGED <<worklist, status, optFlags, father, args, ndependencies, nchildren, deps,
                 queue, insVars, runVars, history, eraser, tested, ObserversAtWork, hint,
                 visit, Dones, freed, reused>>

Reload ==
  /\ erasing = "reload"
  /\ erasing' = "wait"
  /\ visit' = worklist
  /\ UNCHANGED <<eraserIdle, lastkeep, deletable, Dones, Sublists, freed, reused>>

(***************************************************************************)
(* Mutation of WaitFill: the eraser does not wait for what is inserted.    *)
(***************************************************************************)
WaitFill_NoWait ==
  /\ erasing = "wait"
  /\ erasing' = "dones"
  /\ visit' = Nil
  /\ UNCHANGED <<eraserIdle, lastkeep, deletable, Dones, Sublists, freed, reused>>

(***************************************************************************)
(* The items newer than the hint may still walk over what was unlinked:    *)
(* the eraser waits until they have their dependencies, up to the first    *)
(* that saw no other item being filled in.                                 *)
(***************************************************************************)
WaitFill ==
  /\ erasing = "wait"
  /\ visit # hint => visit # Nil /\ status[visit] # "Filling"
  /\ IF visit = hint \/ optFlags[visit] = {}
     THEN erasing' = "dones" /\ visit' = Nil
     ELSE visit' = next[visit] /\ UNCHANGED erasing
  /\ UNCHANGED <<eraserIdle, lastkeep, deletable, Dones, Sublists, freed, reused>>

(***************************************************************************)
(* Mutation of FreeSublists: the static lists are not cleared.             *)
(***************************************************************************)
FreeSublists_NotCleared ==
  /\ erasing = "dones"
  /\ \A d \in Dones : status[d] # "Done"
  /\ freed' = freed \cup Sublists
  /\ erasing' = "none" /\ eraser' = Nil /\ hint' = Nil
  /\ UNCHANGED <<vars, tested, ObserversAtWork, lastkeep, visit, deletable, Dones, Sublists,
                 reused>>

(***************************************************************************)
(* Mutation of FreeSublists: eraser_assigned is not reset.                 *)
(***************************************************************************)
FreeSublists_NotReset ==
  /\ erasing = "dones"
  /\ \A d \in Dones : status[d] # "Done"
  /\ freed' = freed \cup Sublists
  /\ erasing' = "none"
  /\ Dones' = {} /\ Sublists' = {}
  /\ UNCHANGED <<vars, eraser, tested, ObserversAtWork, hint, lastkeep, visit, deletable,
                 reused>>

(***************************************************************************)
(* Then for those that were finishing.  Their memory is given back, and    *)
(* eraser_assigned reset.                                                  *)
(***************************************************************************)
FreeSublists ==
  /\ erasing = "dones"
  /\ \A d \in Dones : status[d] # "Done"
  /\ freed' = freed \cup Sublists
  /\ erasing' = "none" /\ eraser' = Nil /\ hint' = Nil
  /\ Dones' = {} /\ Sublists' = {}
  /\ UNCHANGED <<vars, tested, ObserversAtWork, lastkeep, visit, deletable, reused>>

Erase ==
  BeginErase \/ LookAt \/ Keep \/ Cut \/ CutTail \/ Reload \/ WaitFill \/ FreeSublists

-----------------------------------------------------------------------------
ReclaimNext ==
  \/ \E f \in Pointer, t \in Task : \E a \in Uses[t] : ReclaimSpawn(f, t, a)
  \/ \E t \in Task : ReclaimInsert(t) \/ ReclaimExecute(t)
  \/ Erase
  \/ ReclaimWaitForAll

ReclaimSpec == ReclaimInit /\ [][ReclaimNext]_reclaimVars

(***************************************************************************)
(* As in Worklist; the eraser is a running thread like the others.         *)
(***************************************************************************)
ReclaimFairSpec ==
  /\ ReclaimSpec
  /\ \A t \in Task : WF_reclaimVars(ReclaimInsert(t)) /\ WF_reclaimVars(ReclaimExecute(t))
  /\ WF_reclaimVars(Erase)

-----------------------------------------------------------------------------
(***************************************************************************)
(* The types of the worklist and of the variables of the eraser.  Its      *)
(* lists are static, and empty again when it is done.                      *)
(***************************************************************************)
ReclaimTypeOK ==
  /\ TypeOK
  /\ eraser \in Pointer /\ tested \subseteq Task /\ ObserversAtWork \in Nat
  /\ erasing \in ErasePlace
  /\ hint \in Pointer /\ lastkeep \in Pointer /\ visit \in Pointer
  /\ deletable \subseteq Task /\ Dones \subseteq Task /\ Sublists \subseteq Task
  /\ reused \subseteq freed /\ freed \subseteq Task
  /\ eraser = Nil => erasing = "none" /\ Dones = {} /\ Sublists = {}

(***************************************************************************)
(* No thread that scans, waits or erases goes to an item whose memory was  *)
(* given back, nor does one release, or complete, such an item.            *)
(***************************************************************************)
Finishing(t) == run[t] \in {"mark", "load", "walk", "drain", "free"}

SafeWalks ==
  /\ \A t \in Task : Inserting(t) => scan[t] \notin freed
  /\ \A t \in Task : run[t] = "walk" => walk[t] \notin freed
  /\ \A t \in Task : Finishing(t) => current[t] \notin freed
  /\ \A t \in Task : Finishing(t) \/ run[t] = "climb" => father[current[t]] \notin freed
  /\ visit \notin freed

(***************************************************************************)
(* Who begins at the newest item never gets to one whose memory was given  *)
(* back, since no item that still has its own leads to it; and none is     *)
(* given back twice.                                                       *)
(***************************************************************************)
FreedUnlinked ==
  /\ worklist \notin freed
  /\ \A t \in Task \ freed : next[t] \notin freed
  /\ Sublists \cap freed = {}

(***************************************************************************)
(* The scan of a task only meets older items: "sometimes p == this, even   *)
(* if it shouldn't" (workitem.cpp, line 94).                               *)
(***************************************************************************)
NotMyself == \A t \in Task : ins[t] = "scan" => scan[t] # t

(***************************************************************************)
(* The eraser, which looks for its hint from the newest item on, never     *)
(* comes to the end of the list instead (workitem.cpp, line 381).          *)
(***************************************************************************)
EraserFindsHint == erasing = "wait" => visit # Nil

(***************************************************************************)
(* What the flags and the statuses vouch for is still true of a list from  *)
(* which items are taken out: no list of arguments is freed under who      *)
(* compares it, no dependency is linked too late, no task posted twice.    *)
(***************************************************************************)
InsertionSafe == ArgsAlive /\ NothingLost /\ PostedOnce

(***************************************************************************)
(* The eraser ends, so that observers and the next eraser can go on.       *)
(***************************************************************************)
EraserEnds == (eraser # Nil) ~> (eraser = Nil)
=============================================================================
