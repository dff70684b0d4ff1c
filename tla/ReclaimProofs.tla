--------------------------- MODULE ReclaimProofs ---------------------------
(***************************************************************************)
(* The eraser of the worklist and the threads that wait from outside, for  *)
(* every program and every argument list: their types, and that what the   *)
(* eraser gave back to the pool is no longer reached from the worklist.    *)
(* For the programs in which only the main thread spawns tasks, the        *)
(* invariants of the eraser and the insertion, that the worklist with its  *)
(* eraser still implements TaskGraph, and that an observer waits for all.  *)
(***************************************************************************)
EXTENDS Observer, WorklistProofs

(***************************************************************************)
(* The items that were pushed, those of them that the eraser unlinked or   *)
(* gave back, and those that it did not.                                   *)
(***************************************************************************)
Listed == { t \in Task : Pushed(t) }
Gone == Sublists \cup freed
Used == Listed \ Gone

(***************************************************************************)
(* A thread inserts, posts, executes or completes t: the list is not       *)
(* empty.                                                                  *)
(***************************************************************************)
Live(t) ==
  \/ queue[t] > 0
  \/ ins[t] \in {"scan", "examine", "flag", "wait"}
  \/ run[t] \notin {"idle", "out"}

(***************************************************************************)
(* What was executed, linked or completed has been pushed, and so has a    *)
(* father.                                                                 *)
(***************************************************************************)
PushedInv ==
  \A t \in Task :
     /\ queue[t] > 0 \/ run[t] # "idle" => t \in Listed
     /\ \A i \in DOMAIN deps[t] : deps[t][i] \in Listed
     /\ Completing(t) => current[t] \in Listed
     /\ father[t] # Nil => father[t] \in Listed
     /\ run[t] = "drain" => idep[t] >= 1
     /\ Live(t) => worklist # Nil

(***************************************************************************)
(* The next item is an older one; before is the order of the pushes.       *)
(***************************************************************************)
OlderInv ==
  /\ worklist # Nil => worklist \in Listed
  /\ \A t \in Task :
        /\ t \notin Listed => next[t] = Nil /\ before[t] = {}
        /\ next[t] \in before[t] \cup {Nil}
        /\ t \notin before[t]
        /\ before[t] \subseteq Listed
        /\ \A u \in before[t] : before[u] \subseteq before[t]

(***************************************************************************)
(* The items in use are a list: none has two predecessors, and the newest  *)
(* has none.  They lead to no item that was unlinked.                      *)
(***************************************************************************)
ChainInv ==
  /\ worklist \notin Gone
  /\ Sublists \cap freed = {}
  /\ Gone \subseteq Listed
  /\ \A t \in Task \ freed : next[t] \notin freed
  /\ \A t \in Used :
        /\ next[t] \notin Gone
        /\ next[t] # Nil => next[t] # worklist
        /\ \A u \in Used : next[t] # Nil /\ next[u] = next[t] => t = u

(***************************************************************************)
(* The eraser keeps the item before the run of items to delete, and goes   *)
(* on with the one after it: nothing else in use leads there.              *)
(***************************************************************************)
Unlinking == erasing \in {"look", "keep", "cut"}

UnlinkInv ==
  /\ ~ Unlinking => deletable = {}
  /\ Unlinking =>
        /\ lastkeep \in Used \cap InWorklist
        /\ visit # Nil => visit \in Used \cap before[lastkeep]
        /\ deletable \subseteq Used \cap before[lastkeep]
        /\ visit # Nil => \A d \in deletable : visit \in before[d]
        /\ \A t \in Used : next[t] # Nil /\ next[t] \in deletable \cup {visit} =>
              t \in deletable \cup {lastkeep}

(***************************************************************************)
(* There is an eraser while one is at work, and its lists are empty when   *)
(* there is none.                                                          *)
(***************************************************************************)
EraserInv ==
  /\ eraser \in Pointer /\ tested \subseteq Task
  /\ erasing \in ErasePlace
  /\ hint \in Pointer /\ lastkeep \in Pointer /\ visit \in Pointer
  /\ deletable \subseteq Task /\ Dones \subseteq Task /\ Sublists \subseteq Task
  /\ reused \subseteq freed /\ freed \subseteq Task
  /\ eraser = Nil => erasing = "none" /\ Dones = {} /\ Sublists = {}
  /\ eraser # Nil => worklist # Nil
  /\ erasing \in {"keep", "cut"} => visit # Nil
  /\ \A t \in tested : run[t] = "load"

ReclaimInv ==
  TypeInv /\ PushedInv /\ OlderInv /\ ChainInv /\ UnlinkInv /\ EraserInv

-----------------------------------------------------------------------------
LEMMA ReclaimStart == ReclaimInit => ReclaimInv
<1> SUFFICES ASSUME ReclaimInit PROVE ReclaimInv
  OBVIOUS
<1>1. TypeInv
  BY TypeInit DEF ReclaimInit
<1>2. Listed = {}
  BY DEF ReclaimInit, Init, Listed, Pushed
<1>3. PushedInv /\ OlderInv
  BY <1>2 DEF ReclaimInit, Init, PushedInv, OlderInv, Completing, Live
<1>4. ChainInv /\ UnlinkInv
  BY <1>2, NilAssumption DEF ReclaimInit, Init, ChainInv, UnlinkInv, Gone, Used, Unlinking
<1>5. EraserInv
  BY DEF ReclaimInit, EraserInv, ErasePlace, Pointer
<1> QED BY <1>1, <1>3, <1>4, <1>5 DEF ReclaimInv

(***************************************************************************)
(* The steps of Worklist that neither push nor empty the list.             *)
(***************************************************************************)
Elsewhere(t) ==
  \/ ReclaimLook(t) \/ SkipAncestor(t) \/ Examine(t) \/ Flag(t) \/ Settle(t) \/ SetWaiting(t)
  \/ Start(t) \/ EndBody(t) \/ MarkDone(t) \/ LoadHint(t) \/ Walk(t) \/ Drain(t)
  \/ FreeDeps(t) \/ Release(t) \/ Climb(t)

LEMMA ListStays ==
  ASSUME TypeInv, NEW t \in Task, Elsewhere(t)
  PROVE  UNCHANGED <<worklist, next, before, father, Listed>>
<1>0. ins \in [Task -> InsPlace]
  BY DEF TypeInv, TypeOK, ThreadTypeOK
<1>1. UNCHANGED <<worklist, next, before, father>>
  BY DEF Elsewhere, ReclaimLook, Look, SkipAncestor, Examine, Flag, Settle, SetWaiting, Start, EndBody,
     MarkDone, LoadHint, Walk, Drain, FreeDeps, Release, Climb, itemVars, insVars, runVars, history
<1>2. UNCHANGED ins \/ \E p \in {"examine", "flag", "scan", "wait", "inserted"} :
         Pushed(t) /\ ins' = [ins EXCEPT ![t] = p]
  BY DEF Elsewhere, ReclaimLook, Look, SkipAncestor, Examine, Flag, Settle, SetWaiting, Start, EndBody,
     MarkDone, LoadHint, Walk, Drain, FreeDeps, Release, Climb, itemVars, insVars, runVars, history, Pushed
<1>3. Listed' = Listed
  BY <1>0, <1>2 DEF Listed, Pushed
<1> QED BY <1>1, <1>3

(***************************************************************************)
(* They keep what was pushed so: each action on the variables it changes.  *)
(***************************************************************************)
LEMMA PushedStays ==
  ASSUME TypeInv, PushedInv, NEW t \in Task, Elsewhere(t)
  PROVE  PushedInv'
<1>l. UNCHANGED <<worklist, next, before, father, Listed>>
  BY ListStays
<1>p. \A u \in Task :
         /\ queue[u] > 0 \/ run[u] # "idle" => u \in Listed
         /\ \A i \in DOMAIN deps[u] : deps[u][i] \in Listed
         /\ Completing(u) => current[u] \in Listed
         /\ father[u] # Nil => father[u] \in Listed
         /\ run[u] = "drain" => idep[u] >= 1
         /\ Live(u) => worklist # Nil
  BY DEF PushedInv
<1>t. /\ ins \in [Task -> InsPlace] /\ run \in [Task -> RunPlace] /\ queue \in [Task -> Nat]
      /\ status \in [Task -> Status] /\ deps \in [Task -> Seq(Task)] /\ idep \in [Task -> Nat]
      /\ current \in [Task -> Pointer] /\ scan \in [Task -> Pointer]
  BY DEF TypeInv, TypeOK, ItemTypeOK, ThreadTypeOK
<1>i. ins[t] \in {"scan", "examine", "flag", "wait"} => t \in Listed
  BY DEF Listed, Pushed
<1>s. Listed \subseteq Task
  BY DEF Listed
<1>1. CASE ReclaimLook(t) \/ SkipAncestor(t) \/ Flag(t)
  <2>1. UNCHANGED <<queue, run, deps, current, idep>>
    BY <1>1 DEF ReclaimLook, Look, SkipAncestor, Flag, itemVars, runVars
  <2>2. \A u \in Task : Live(u)' => Live(u)
    BY <1>1, <1>t, <2>1 DEF ReclaimLook, Look, SkipAncestor, Flag, insVars, Live
  <2> QED BY <1>l, <1>p, <2>1, <2>2 DEF PushedInv, Completing
<1>2. CASE Examine(t)
  <2>1. UNCHANGED <<queue, run, current, idep>>
    BY <1>2 DEF Examine, runVars
  <2>2. \A u \in Task : Live(u)' => Live(u)
    BY <1>2, <1>t, <2>1 DEF Examine, Live
  <2>3. deps' = deps \/ deps' = [deps EXCEPT ![scan[t]] = Append(@, t)]
    BY <1>2 DEF Examine
  <2>4. t \in Listed
    BY <1>2, <1>i DEF Examine
  <2>5. ASSUME NEW u \in Task, NEW i \in DOMAIN deps'[u] PROVE deps'[u][i] \in Listed
    <3>1. deps'[u] = deps[u] \/ deps'[u] = Append(deps[u], t)
      BY <1>t, <2>3
    <3>2. deps[u] \in Seq(Task)
      BY <1>t
    <3>3. DOMAIN Append(deps[u], t) = 1 .. Len(deps[u]) + 1 /\ DOMAIN deps[u] = 1 .. Len(deps[u])
          /\ Len(deps[u]) \in Nat
      BY <3>2
    <3>4. \A k \in 1 .. Len(deps[u]) + 1 :
            Append(deps[u], t)[k] = IF k = Len(deps[u]) + 1 THEN t ELSE deps[u][k]
      BY <3>2
    <3>5. deps'[u][i] = t \/ (i \in DOMAIN deps[u] /\ deps'[u][i] = deps[u][i])
      BY <3>1, <3>3, <3>4
    <3> QED BY <3>5, <2>4, <1>p
  <2> QED BY <1>l, <1>p, <2>1, <2>2, <2>5 DEF PushedInv, Completing
<1>3. CASE Settle(t) \/ SetWaiting(t)
  <2>1. UNCHANGED <<run, deps, current, idep>>
    BY <1>3 DEF Settle, SetWaiting, runVars
  <2>2. t \in Listed /\ Live(t)
    BY <1>3, <1>i DEF Settle, SetWaiting, Live
  <2>3. \A u \in Task : u # t => queue'[u] = queue[u] /\ ins'[u] = ins[u]
    BY <1>3, <1>t DEF Settle, SetWaiting
  <2>4. \A u \in Task : Live(u)' => u = t \/ Live(u)
    BY <2>1, <2>3 DEF Live
  <2> QED BY <1>l, <1>p, <2>1, <2>2, <2>3, <2>4 DEF PushedInv, Completing
<1>4. CASE Start(t) \/ EndBody(t) \/ LoadHint(t) \/ Walk(t)
  <2>1. UNCHANGED <<deps, ins>>
    BY <1>4 DEF Start, EndBody, LoadHint, Walk, itemVars, insVars
  <2>2. t \in Listed /\ Live(t)
    BY <1>4, <1>p DEF Start, EndBody, LoadHint, Walk, Live
  <2>3. \A u \in Task : u # t => /\ queue'[u] = queue[u] /\ run'[u] = run[u]
                                 /\ current'[u] = current[u] /\ idep'[u] = idep[u]
    BY <1>4, <1>t DEF Start, EndBody, LoadHint, Walk, itemVars
  <2>4. \A u \in Task : Live(u)' => u = t \/ Live(u)
    BY <2>1, <2>3 DEF Live
  <2>5. Completing(t)' => current'[t] \in Listed
    <3>1. CASE Start(t)
      BY <1>t, <3>1 DEF Start, Completing
    <3>2. CASE EndBody(t)
      BY <1>t, <2>2, <3>2 DEF EndBody, Completing
    <3>3. CASE LoadHint(t) \/ Walk(t)
      BY <1>p, <1>t, <3>3 DEF LoadHint, Walk, Completing
    <3> QED BY <1>4, <3>1, <3>2, <3>3
  <2>6. run'[t] = "drain" => idep'[t] >= 1
    BY <1>4, <1>t DEF Start, EndBody, LoadHint, Walk
  <2>7. \A u \in Task : Completing(u)' => current'[u] \in Listed
    BY <1>p, <2>3, <2>5 DEF Completing
  <2> QED BY <1>l, <1>p, <2>1, <2>2, <2>3, <2>4, <2>6, <2>7 DEF PushedInv
<1>5. CASE MarkDone(t) \/ Release(t)
  <2>1. UNCHANGED <<queue, deps, current, idep, ins>>
    BY <1>5 DEF MarkDone, Release, insVars
  <2>2. Completing(t) /\ Live(t) /\ current[t] \in Listed /\ t \in Listed
    BY <1>5, <1>p DEF MarkDone, Release, Completing, Live
  <2>3. \A u \in Task : u # t => run'[u] = run[u]
    BY <1>5, <1>t DEF MarkDone, Release
  <2>4. \A u \in Task : Live(u)' => u = t \/ Live(u)
    BY <2>1, <2>3 DEF Live
  <2>5. run'[t] \in {"load", "climb"}
    BY <1>5, <1>t DEF MarkDone, Release
  <2>6. \A u \in Task : Completing(u)' => Completing(u)
    BY <2>2, <2>3 DEF Completing
  <2>7. \A u \in Task : run'[u] = "drain" => run[u] = "drain"
    BY <2>3, <2>5
  <2> QED BY <1>l, <1>p, <2>1, <2>2, <2>3, <2>4, <2>6, <2>7 DEF PushedInv
<1>6. CASE Drain(t)
  <2> DEFINE w == deps[current[t]][idep[t]]
  <2>1. UNCHANGED <<run, deps, current, ins>> /\ Completing(t) /\ run[t] = "drain"
    BY <1>6 DEF Drain, insVars, Completing
  <2>2. current[t] \in Task /\ idep[t] \in DOMAIN deps[current[t]]
    <3>1. current[t] \in Task /\ idep[t] \in Nat /\ idep[t] >= 1
      BY <1>p, <1>t, <1>s, <2>1
    <3>2. deps[current[t]] \in Seq(Task)
      BY <1>t, <3>1
    <3> QED BY <1>6, <3>1, <3>2 DEF Drain
  <2>3. w \in Listed
    BY <1>p, <2>2
  <2>4. worklist # Nil
    BY <1>p, <2>1 DEF Live
  <2>a. \A u \in Task : u # w => queue'[u] = queue[u]
    BY <1>6, <1>t DEF Drain
  <2> HIDE DEF w
  <2>b. idep' = [idep EXCEPT ![t] = @ + 1]
    BY <1>6 DEF Drain
  <2>5. \A u \in Task : idep'[u] >= idep[u] /\ idep[u] \in Nat /\ idep'[u] \in Nat
    BY <2>b, <1>t
  <2>6. \A u \in Task : Live(u)' => u = w \/ Live(u)
    BY <2>1, <2>a DEF Live
  <2>7. \A u \in Task : Completing(u)' <=> Completing(u)
    BY <2>1 DEF Completing
  <2>8. \A u \in Task : run'[u] = "drain" => idep'[u] >= 1
    BY <1>p, <2>1, <2>5
  <2> QED BY <1>l, <1>p, <2>1, <2>3, <2>4, <2>a, <2>6, <2>7, <2>8 DEF PushedInv
<1>7. CASE FreeDeps(t)
  <2>1. UNCHANGED <<queue, current, idep, ins>> /\ Completing(t) /\ Live(t) /\ run[t] = "drain"
    BY <1>7 DEF FreeDeps, insVars, Completing, Live
  <2>2. \A u \in Task : u # t => run'[u] = run[u]
    BY <1>7, <1>t DEF FreeDeps
  <2>3. run'[t] = "free"
    BY <1>7, <1>t DEF FreeDeps
  <2>4. \A u \in Task : /\ Live(u)' => u = t \/ Live(u)
                        /\ Completing(u)' => Completing(u)
                        /\ run'[u] = "drain" => run[u] = "drain"
    BY <2>1, <2>2, <2>3 DEF Live, Completing
  <2>5. \A u \in Task : \A i \in DOMAIN deps'[u] : i \in DOMAIN deps[u] /\ deps'[u][i] = deps[u][i]
    BY <1>7, <1>t DEF FreeDeps
  <2>6. t \in Listed
    BY <2>1, <1>p
  <2> QED BY <1>l, <1>p, <2>1, <2>2, <2>4, <2>5, <2>6 DEF PushedInv
<1>8. CASE Climb(t)
  <2>1. UNCHANGED <<queue, deps, idep, ins>> /\ Completing(t) /\ Live(t) /\ t \in Listed
    BY <1>8, <1>p DEF Climb, insVars, Completing, Live
  <2>2. \A u \in Task : u # t => run'[u] = run[u] /\ current'[u] = current[u]
    BY <1>8, <1>t DEF Climb
  <2>3. run'[t] = "out" \/ (run'[t] = "mark" /\ current'[t] = father[current[t]] /\ father[current[t]] # Nil)
    BY <1>8, <1>t DEF Climb
  <2>4. \A u \in Task : Live(u)' => u = t \/ Live(u)
    BY <2>1, <2>2 DEF Live
  <2>5. \A u \in Task : Completing(u)' => current'[u] \in Listed
    <3>1. Completing(t)' => current'[t] \in Listed
      BY <1>p, <1>s, <2>1, <2>3 DEF Completing
    <3> QED BY <3>1, <1>p, <2>2 DEF Completing
  <2>6. \A u \in Task : run'[u] = "drain" => run[u] = "drain"
    BY <2>2, <2>3
  <2> QED BY <1>l, <1>p, <2>1, <2>2, <2>4, <2>5, <2>6 DEF PushedInv
<1> QED BY <1>1, <1>2, <1>3, <1>4, <1>5, <1>6, <1>7, <1>8 DEF Elsewhere

(***************************************************************************)
(* What says which items are in the list, and where the eraser is.         *)
(***************************************************************************)
ListInvs == OlderInv /\ ChainInv /\ UnlinkInv

LEMMA SameList ==
  ASSUME ListInvs,
         UNCHANGED <<worklist, next, before, Listed, erasing, lastkeep, visit, deletable, Sublists, freed>>
  PROVE  ListInvs'
<1>1. OlderInv'
  BY DEF ListInvs, OlderInv
<1>2. UNCHANGED <<Gone, Used, InWorklist, Unlinking>>
  BY DEF Gone, Used, InWorklist, Unlinking
<1>3. ChainInv'
  BY <1>2 DEF ListInvs, ChainInv
<1>4. UnlinkInv'
  BY <1>2 DEF ListInvs, UnlinkInv
<1> QED BY <1>1, <1>3, <1>4 DEF ListInvs

LEMMA ElsewhereTypes ==
  ASSUME TypeInv, NEW t \in Task, Elsewhere(t)
  PROVE  TypeInv'
<1>1. CASE ins[t] = "scan" /\ scan[t] = t /\ ReclaimLook(t)
  <2>1. scan' = [scan EXCEPT ![t] = next[t]]
        /\ UNCHANGED <<worklist, itemVars, queue, ins, ancestor, argv, runVars, history>>
    BY <1>1 DEF ReclaimLook
  <2>2. scan \in [Task -> Pointer] /\ next \in [Task -> Pointer]
    BY DEF TypeInv, TypeOK, ItemTypeOK, ThreadTypeOK
  <2>3. TypeOK'
    BY <2>1, <2>2 DEF TypeInv, TypeOK, ItemTypeOK, ThreadTypeOK, itemVars, runVars, history
  <2>4. PointersOK'
    BY <1>1, <2>1, <2>2 DEF TypeInv, PointersOK, Completing, itemVars, runVars
  <2> QED BY <2>3, <2>4 DEF TypeInv
<1>2. CASE ~ (ins[t] = "scan" /\ scan[t] = t /\ ReclaimLook(t))
  <2>1. ReclaimLook(t) => Look(t)
    BY <1>2 DEF ReclaimLook
  <2>2. SkipAncestor(t) \/ Look(t) => Scan(t)
    BY DEF Scan, SkipAncestor, Look
  <2>3. Insert(t) \/ Execute(t)
    BY <2>1, <2>2 DEF Elsewhere, Insert, Execute
  <2>4. Next
    BY <2>3 DEF Next
  <2> QED BY <2>4, TypeStep
<1> QED BY <1>1, <1>2

(***************************************************************************)
(* Who inserts, runs or completes leaves list and eraser as they are,      *)
(* except for the hint and for who has tested.                             *)
(***************************************************************************)
LEMMA ElsewhereStep ==
  ASSUME ReclaimInv, NEW t \in Task, Elsewhere(t),
         UNCHANGED <<eraser, erasing, lastkeep, visit, deletable, Dones, Sublists, freed, reused>>,
         hint' \in Pointer, tested' \subseteq tested, \A u \in tested' : run'[u] = "load"
  PROVE  ReclaimInv'
<1>1. TypeInv'
  BY ElsewhereTypes DEF ReclaimInv
<1>2. PushedInv'
  BY PushedStays DEF ReclaimInv
<1>3. UNCHANGED <<worklist, next, before, Listed>>
  BY ListStays DEF ReclaimInv
<1>4. ListInvs'
  BY <1>3, SameList DEF ReclaimInv, ListInvs
<1>5. EraserInv'
  BY <1>3 DEF ReclaimInv, EraserInv
<1> QED BY <1>1, <1>2, <1>4, <1>5 DEF ReclaimInv, ListInvs

LEMMA SpawnStep ==
  ASSUME ReclaimInv, NEW f \in Pointer, NEW t \in Task, NEW a \in Uses[t], ReclaimSpawn(f, t, a)
  PROVE  ReclaimInv'
<1>0. a \in Seq(Region)
  BY UsesAssumption
<1>1. PICK d \in (freed \ reused) \cup {Nil} :
         /\ reused' = reused \cup ({d} \ {Nil})
         /\ scan' = [x \in Task |-> IF d # Nil /\ scan[x] = d THEN t ELSE scan[x]]
         /\ walk' = [x \in Task |-> IF d # Nil /\ walk[x] = d THEN t ELSE walk[x]]
         /\ hint' = IF d # Nil /\ hint = d THEN t ELSE hint
  BY DEF ReclaimSpawn
<1>2. /\ ins[t] = "unborn" /\ ins' = [ins EXCEPT ![t] = "push"]
      /\ father' = [father EXCEPT ![t] = f]
      /\ UNCHANGED <<worklist, next, optFlags, ndependencies, deps, queue, run, current, idep,
                     before, tested, ObserversAtWork, eraser, erasing, lastkeep, visit,
                     deletable, Dones, Sublists, freed>>
  BY DEF ReclaimSpawn
<1>i. ins \in [Task -> InsPlace] /\ father \in [Task -> Pointer] /\ scan \in [Task -> Pointer]
      /\ ancestor \in [Task -> Pointer] /\ walk \in [Task -> Pointer]
  BY DEF ReclaimInv, TypeInv, TypeOK, ItemTypeOK, ThreadTypeOK
<1>3. TypeInv'
  <2>1. ins' \in [Task -> InsPlace] /\ father' \in [Task -> Pointer]
    BY <1>2, <1>i DEF InsPlace, Pointer
  <2>2. status' \in [Task -> Status]
    BY DEF ReclaimSpawn, ReclaimInv, TypeInv, TypeOK, ItemTypeOK, Status, Active, Finished
  <2>3. args' \in [Task -> Seq(Region)] /\ argv' \in [Task -> Seq(Region)] /\ declared' \in [Task -> Seq(Region)]
    BY <1>0 DEF ReclaimSpawn, ReclaimInv, TypeInv, TypeOK, ItemTypeOK, ThreadTypeOK
  <2>4. nchildren' \in [Task -> Int]
    BY DEF ReclaimSpawn, ReclaimInv, TypeInv, TypeOK, ItemTypeOK
  <2>5. ancestor' = [ancestor EXCEPT ![t] = f]
    BY DEF ReclaimSpawn
  <2>6. ancestor' \in [Task -> Pointer]
    BY <2>5, <1>i
  <2>7. scan' \in [Task -> Pointer] /\ walk' \in [Task -> Pointer]
    BY <1>1, <1>i DEF Pointer
  <2>8. TypeOK'
    BY <1>2, <2>1, <2>2, <2>3, <2>4, <2>6, <2>7 DEF ReclaimInv, TypeInv, TypeOK, ItemTypeOK, ThreadTypeOK
  <2>9. PointersOK'
    <3>1. PointersOK
      BY DEF ReclaimInv, TypeInv
    <3> QED BY <1>1, <1>2, <1>i, <2>5, <3>1, NilAssumption DEF PointersOK, Completing
  <2> QED BY <2>8, <2>9 DEF TypeInv
<1>4. Listed' = Listed
  BY <1>2, <1>i DEF Listed, Pushed
<1>5. PushedInv'
  <2>1. \A u \in Task : Live(u)' => Live(u)
    BY <1>2, <1>i DEF Live
  <2>2. \A u \in Task : Completing(u)' <=> Completing(u)
    BY <1>2 DEF Completing
  <2>3. f # Nil => f \in Listed
    <3>1. f # Nil => f \in Task /\ run[f] = "body"
      BY DEF ReclaimSpawn, InUserCode, Pointer
    <3> QED BY <3>1 DEF ReclaimInv, PushedInv
  <2>4. \A u \in Task : father'[u] # Nil => father'[u] \in Listed
    BY <1>2, <1>i, <2>3 DEF ReclaimInv, PushedInv
  <2> QED BY <1>2, <1>4, <2>1, <2>2, <2>4 DEF ReclaimInv, PushedInv
<1>6. ListInvs'
  BY <1>2, <1>4, SameList DEF ReclaimInv, ListInvs
<1>7. EraserInv'
  BY <1>1, <1>2 DEF ReclaimInv, EraserInv, Pointer
<1> QED BY <1>3, <1>5, <1>6, <1>7 DEF ReclaimInv, ListInvs

LEMMA ReclaimPushStep ==
  ASSUME ReclaimInv, NEW t \in Task, Push(t), UNCHANGED <<tested, eraserVars, freed, reused>>
  PROVE  ReclaimInv'
<1>1. TypeInv'
  <2>1. Next
    BY DEF Next, Insert
  <2> QED BY <2>1, TypeStep DEF ReclaimInv
<1>i. ins \in [Task -> InsPlace] /\ next \in [Task -> Pointer] /\ before \in [Task -> SUBSET Task]
      /\ worklist \in Pointer
  BY DEF ReclaimInv, TypeInv, TypeOK, ItemTypeOK, ThreadTypeOK
<1>2. /\ ins[t] = "push" /\ ins' = [ins EXCEPT ![t] = "scan"]
      /\ next' = [next EXCEPT ![t] = worklist] /\ worklist' = t
      /\ before' = [before EXCEPT ![t] = InWorklist]
      /\ UNCHANGED <<father, deps, queue, runVars>>
  BY DEF Push
<1>3. t \notin Listed /\ Listed' = Listed \cup {t}
  BY <1>2, <1>i DEF Listed, Pushed
<1>4. PushedInv'
  <2>1. worklist' # Nil
    BY <1>2, NilAssumption
  <2>2. \A u \in Task : Completing(u)' <=> Completing(u)
    BY <1>2 DEF Completing, runVars
  <2> QED BY <1>2, <1>3, <2>1, <2>2 DEF ReclaimInv, PushedInv, runVars
<1>5. /\ InWorklist \subseteq Listed
      /\ \A u \in InWorklist : before[u] \subseteq InWorklist
      /\ worklist \in InWorklist \cup {Nil}
  BY <1>i DEF ReclaimInv, OlderInv, InWorklist, Pointer
<1>6. OlderInv'
  <2>1. \A u \in Task : u # t => next'[u] = next[u] /\ before'[u] = before[u]
    BY <1>2, <1>i
  <2>2. next'[t] = worklist /\ before'[t] = InWorklist
    BY <1>2, <1>i
  <2>3. \A u \in Task : t \notin before[u]
    BY <1>3 DEF ReclaimInv, OlderInv
  <2> QED BY <1>2, <1>3, <1>5, <2>1, <2>2, <2>3 DEF ReclaimInv, OlderInv
<1>7. UNCHANGED <<Gone, Unlinking, lastkeep, visit, deletable, Sublists, freed>> /\ Used' = Used \cup {t} /\ t \notin Gone
  <2>1. UNCHANGED <<Gone, Unlinking, lastkeep, visit, deletable, Sublists, freed>>
    BY DEF Gone, Unlinking, eraserVars
  <2>2. t \notin Gone
    BY <1>3 DEF ReclaimInv, ChainInv
  <2> QED BY <1>3, <2>1, <2>2 DEF Used
<1>8. worklist # Nil => worklist \in Used
  BY DEF ReclaimInv, ChainInv, OlderInv, Used
<1>9. ChainInv'
  <2>1. \A u \in Task : next'[u] = IF u = t THEN worklist ELSE next[u]
    BY <1>2, <1>i
  <2>2. \A u \in Task : next[u] # t
    BY <1>3, NilAssumption DEF ReclaimInv, OlderInv
  <2>3. worklist' \notin Gone'
    BY <1>2, <1>7
  <2>4. Gone' \subseteq Listed'
    BY <1>3, <1>7 DEF ReclaimInv, ChainInv
  <2>5. \A u \in (Task \ freed)' : next'[u] \notin freed'
    BY <1>7, <2>1 DEF ReclaimInv, ChainInv, Gone
  <2>6. ASSUME NEW u \in Used'
        PROVE  /\ next'[u] \notin Gone'
               /\ next'[u] # Nil => next'[u] # worklist'
               /\ \A v \in Used' : next'[u] # Nil /\ next'[v] = next'[u] => u = v
    <3>1. u \in Task /\ (u = t \/ u \in Used)
      BY <1>7 DEF Used, Listed
    <3>2. next'[u] \notin Gone'
      BY <1>7, <2>1, <3>1 DEF ReclaimInv, ChainInv
    <3>3. next'[u] # t
      BY <1>3, <1>8, <2>1, <2>2, <3>1, NilAssumption DEF Used
    <3>4. ASSUME NEW v \in Used', next'[u] # Nil, next'[v] = next'[u] PROVE u = v
      <4>1. v \in Task /\ (v = t \/ v \in Used)
        BY <1>7 DEF Used, Listed
      <4> QED BY <2>1, <3>1, <3>4, <4>1 DEF ReclaimInv, ChainInv
    <3> QED BY <1>2, <3>2, <3>3, <3>4
  <2> QED BY <1>7, <2>3, <2>4, <2>5, <2>6 DEF ReclaimInv, ChainInv
<1>10. UnlinkInv'
  <2>0. CASE ~ Unlinking
    BY <1>7, <2>0 DEF ReclaimInv, UnlinkInv
  <2>1. CASE Unlinking
    <3>1. /\ lastkeep \in Used \cap InWorklist
          /\ visit # Nil => visit \in Used \cap before[lastkeep]
          /\ deletable \subseteq Used \cap before[lastkeep]
          /\ visit # Nil => \A d \in deletable : visit \in before[d]
          /\ \A u \in Used : next[u] # Nil /\ next[u] \in deletable \cup {visit} =>
               u \in deletable \cup {lastkeep}
      BY <2>1 DEF ReclaimInv, UnlinkInv
    <3>2. t \notin Used /\ Used \subseteq Task
      BY <1>3 DEF Used, Listed
    <3>3. \A u \in Used : next'[u] = next[u] /\ before'[u] = before[u]
      BY <1>2, <1>i, <3>2
    <3>4. InWorklist' = InWorklist \cup {t}
      BY <1>2, <1>i, NilAssumption DEF InWorklist
    <3>5. worklist \notin before[lastkeep]
      <4>1. worklist # Nil /\ worklist \in Task /\ InWorklist = before[worklist] \cup {worklist}
        BY <3>1, <1>i DEF InWorklist, Pointer
      <4>2. worklist \notin before[worklist]
        BY <4>1 DEF ReclaimInv, OlderInv
      <4>3. before[lastkeep] \subseteq before[worklist]
        BY <3>1, <4>1 DEF ReclaimInv, OlderInv
      <4> QED BY <4>2, <4>3
    <3>6. next'[t] # Nil => next'[t] \notin deletable \cup {visit}
      BY <1>2, <1>i, <3>1, <3>5
    <3>7. \A u \in Used' : next'[u] # Nil /\ next'[u] \in (deletable \cup {visit})' =>
             u \in (deletable \cup {lastkeep})'
      BY <1>7, <3>1, <3>2, <3>3, <3>6
    <3>8. before'[lastkeep] = before[lastkeep] /\ \A d \in deletable : before'[d] = before[d]
      BY <3>1, <3>3
    <3>9. /\ (lastkeep \in Used \cap InWorklist)'
          /\ (visit # Nil => visit \in Used \cap before[lastkeep])'
          /\ (deletable \subseteq Used \cap before[lastkeep])'
      BY <1>7, <3>1, <3>4, <3>8
    <3>10. (visit # Nil => \A d \in deletable : visit \in before[d])'
      BY <1>7, <3>1, <3>8
    <3> QED BY <1>7, <2>1, <3>7, <3>9, <3>10 DEF UnlinkInv
  <2> QED BY <2>0, <2>1
<1>11. EraserInv'
  BY <1>2, NilAssumption DEF ReclaimInv, EraserInv, eraserVars, runVars
<1> QED BY <1>1, <1>4, <1>6, <1>9, <1>10, <1>11 DEF ReclaimInv

LEMMA SameItems ==
  ASSUME ReclaimInv, UNCHANGED vars
  PROVE  /\ TypeInv' /\ PushedInv' /\ OlderInv'
         /\ UNCHANGED <<worklist, next, before, status, run, Listed, InWorklist>>
<1>1. TypeInv'
  BY TypeStep DEF ReclaimInv
<1>2. UNCHANGED <<worklist, next, before, status, run, Listed, InWorklist>>
  BY DEF vars, itemVars, insVars, runVars, history, Listed, Pushed, InWorklist
<1>3. PushedInv'
  <2>1. \A u \in Task : (Live(u)' <=> Live(u)) /\ (Completing(u)' <=> Completing(u))
    BY DEF vars, itemVars, insVars, runVars, Live, Completing
  <2> QED BY <1>2, <2>1 DEF ReclaimInv, PushedInv, vars, itemVars, runVars
<1>4. OlderInv'
  BY <1>2 DEF ReclaimInv, OlderInv
<1> QED BY <1>1, <1>2, <1>3, <1>4

(***************************************************************************)
(* What is known where the eraser walks.                                   *)
(***************************************************************************)
LEMMA ListFacts ==
  ASSUME ReclaimInv
  PROVE  /\ Used \subseteq Listed /\ Listed \subseteq Task
         /\ \A t \in Used : next[t] \in (Used \cap before[t]) \cup {Nil}
         /\ \A t \in Task : t \notin before[t] /\ \A u \in before[t] : before[u] \subseteq before[t]
         /\ \A t \in Task : before[t] \subseteq Task
<1>1. Used \subseteq Listed /\ Listed \subseteq Task
  BY DEF Used, Listed
<1>2. ASSUME NEW t \in Used, next[t] # Nil PROVE next[t] \in Used \cap before[t]
  <2>1. next[t] \in before[t] /\ next[t] \in Listed
    BY <1>1, <1>2 DEF ReclaimInv, OlderInv
  <2>2. next[t] \notin Gone
    BY DEF ReclaimInv, ChainInv
  <2> QED BY <2>1, <2>2 DEF Used
<1> QED BY <1>1, <1>2 DEF ReclaimInv, OlderInv

(***************************************************************************)
(* The steps of the eraser that leave the items as they are.               *)
(***************************************************************************)
LEMMA SameChain ==
  ASSUME ReclaimInv, UNCHANGED <<vars, Sublists, freed>>
  PROVE  ChainInv' /\ UNCHANGED Used
<1>1. UNCHANGED <<worklist, next, Listed>>
  BY SameItems
<1>2. UNCHANGED <<Gone, Used>>
  BY <1>1 DEF Gone, Used
<1> QED BY <1>1, <1>2 DEF ReclaimInv, ChainInv

LEMMA BeginEraseStep == ASSUME ReclaimInv, BeginErase PROVE ReclaimInv'
<1>1. /\ TypeInv' /\ PushedInv' /\ OlderInv'
      /\ UNCHANGED <<worklist, next, before, run, Listed, InWorklist>>
  BY SameItems DEF BeginErase, eraserIdle
<1>2. ChainInv' /\ UNCHANGED Used
  BY SameChain DEF BeginErase, eraserIdle
<1>3. worklist \in Used /\ worklist \in InWorklist /\ worklist # Nil
  BY DEF BeginErase, ReclaimInv, EraserInv, OlderInv, ChainInv, Used, InWorklist
<1>4. deletable = {} /\ deletable' = {} /\ lastkeep' = worklist /\ visit' = next[worklist]
  BY DEF BeginErase, ReclaimInv, UnlinkInv, Unlinking
<1>5. next[worklist] \in (Used \cap before[worklist]) \cup {Nil}
  BY <1>3, ListFacts
<1>6. \A t \in Used : next[t] # Nil /\ next[t] = next[worklist] => t = worklist
  BY <1>3 DEF ReclaimInv, ChainInv
<1>7. UnlinkInv'
  BY <1>1, <1>2, <1>3, <1>4, <1>5, <1>6 DEF UnlinkInv, Unlinking, BeginErase
<1>8. EraserInv'
  <2>1. worklist \in Pointer /\ next[worklist] \in Pointer
    BY <1>3, <1>5, ListFacts DEF Pointer
  <2> QED BY <1>1, <1>4, <2>1 DEF BeginErase, eraserIdle, ReclaimInv, EraserInv, ErasePlace
<1> QED BY <1>1, <1>2, <1>7, <1>8 DEF ReclaimInv

LEMMA LookAtStep == ASSUME ReclaimInv, LookAt PROVE ReclaimInv'
<1>1. /\ TypeInv' /\ PushedInv' /\ OlderInv'
      /\ UNCHANGED <<worklist, next, before, run, Listed, InWorklist>>
  BY SameItems DEF LookAt, eraserIdle
<1>2. ChainInv' /\ UNCHANGED Used
  BY SameChain DEF LookAt, eraserIdle
<1>u. /\ lastkeep \in Used \cap InWorklist
      /\ visit \in Used \cap before[lastkeep]
      /\ deletable \subseteq Used \cap before[lastkeep]
      /\ \A d \in deletable : visit \in before[d]
      /\ \A t \in Used : next[t] # Nil /\ next[t] \in deletable \cup {visit} =>
            t \in deletable \cup {lastkeep}
  BY DEF LookAt, ReclaimInv, UnlinkInv, Unlinking
<1>3. CASE status[visit] = "Deallocatable"
  <2>1. deletable' = deletable \cup {visit} /\ visit' = next[visit] /\ UNCHANGED <<erasing, lastkeep>>
    BY <1>3 DEF LookAt
  <2>2. next[visit] \in (Used \cap before[visit]) \cup {Nil}
    BY <1>u, ListFacts
  <2>3. lastkeep \in Task /\ visit \in Task /\ deletable \subseteq Task
    BY <1>u, ListFacts
  <2>4. before[visit] \subseteq before[lastkeep] /\ \A d \in deletable : before[visit] \subseteq before[d]
    BY <1>u, <2>3, ListFacts
  <2>5. \A t \in Used : next[t] # Nil /\ next[t] = next[visit] => t = visit
    BY <1>u DEF ReclaimInv, ChainInv
  <2>6. UnlinkInv'
    BY <1>1, <1>2, <1>u, <2>1, <2>2, <2>4, <2>5 DEF UnlinkInv, Unlinking, LookAt
  <2>7. next[visit] \in Pointer
    BY <2>2, ListFacts DEF Pointer
  <2>8. EraserInv'
    BY <1>1, <2>1, <2>3, <2>7 DEF LookAt, eraserIdle, ReclaimInv, EraserInv
  <2> QED BY <1>1, <1>2, <2>6, <2>8 DEF ReclaimInv
<1>4. CASE status[visit] # "Deallocatable"
  <2>1. UNCHANGED <<deletable, visit, lastkeep>> /\ erasing' = "keep" /\ visit # Nil
    BY <1>4 DEF LookAt
  <2>2. UnlinkInv'
    BY <1>1, <1>2, <1>u, <2>1 DEF UnlinkInv, Unlinking
  <2>3. EraserInv'
    BY <1>1, <2>1 DEF LookAt, eraserIdle, ReclaimInv, EraserInv, ErasePlace
  <2> QED BY <1>1, <1>2, <2>2, <2>3 DEF ReclaimInv
<1> QED BY <1>3, <1>4

LEMMA KeepStep == ASSUME ReclaimInv, Keep PROVE ReclaimInv'
<1>1. /\ TypeInv' /\ PushedInv' /\ OlderInv'
      /\ UNCHANGED <<worklist, next, before, run, Listed, InWorklist>>
  BY SameItems DEF Keep, eraserIdle
<1>2. ChainInv' /\ UNCHANGED Used
  BY SameChain DEF Keep, eraserIdle
<1>3. UnlinkInv'
  BY <1>1, <1>2 DEF Keep, ReclaimInv, UnlinkInv, Unlinking
<1>4. EraserInv'
  BY <1>1 DEF Keep, eraserIdle, ReclaimInv, EraserInv, ErasePlace, Pointer
<1> QED BY <1>1, <1>2, <1>3, <1>4 DEF ReclaimInv

(***************************************************************************)
(* A step that only changes where lastkeep leads, by what comes after it   *)
(* without the items to delete, and unlinks them or not.                   *)
(***************************************************************************)
LEMMA Unlink ==
  ASSUME ReclaimInv, Unlinking, NEW nxt, NEW gone,
         \/ nxt = next /\ gone = {}
         \/ nxt = [next EXCEPT ![lastkeep] = visit] /\ gone = deletable
  PROVE  /\ lastkeep \in Task /\ nxt \in [Task -> Pointer]
         /\ worklist \notin gone /\ gone \subseteq Used
         /\ \A t \in Task : /\ nxt[t] \in before[t] \cup {Nil}
                            /\ t \notin Listed => nxt[t] = Nil
                            /\ t \notin freed => nxt[t] \notin freed
         /\ \A t \in Used \ gone :
               /\ nxt[t] \notin Gone \cup gone
               /\ nxt[t] # Nil => nxt[t] # worklist
               /\ \A u \in Used \ gone : nxt[t] # Nil /\ nxt[u] = nxt[t] => t = u
<1>n. next \in [Task -> Pointer] /\ worklist \in Pointer /\ visit \in Pointer
  BY DEF ReclaimInv, TypeInv, TypeOK, ItemTypeOK, EraserInv
<1>u. /\ lastkeep \in Used \cap InWorklist
      /\ visit # Nil => visit \in Used \cap before[lastkeep]
      /\ deletable \subseteq Used \cap before[lastkeep]
      /\ visit # Nil => \A d \in deletable : visit \in before[d]
      /\ \A t \in Used : next[t] # Nil /\ next[t] \in deletable \cup {visit} =>
            t \in deletable \cup {lastkeep}
  BY DEF ReclaimInv, UnlinkInv
<1>f. /\ Used \subseteq Listed /\ Listed \subseteq Task
      /\ \A t \in Used : next[t] \in (Used \cap before[t]) \cup {Nil}
      /\ \A t \in Task : t \notin before[t] /\ \A u \in before[t] : before[u] \subseteq before[t]
  BY ListFacts
<1>1. lastkeep \in Task /\ lastkeep \in Listed /\ Nil \notin Task
  BY <1>u, <1>f, NilAssumption
<1>2. worklist \notin before[lastkeep]
  <2>1. worklist \in Task /\ InWorklist = before[worklist] \cup {worklist}
    BY <1>u, <1>n DEF InWorklist, Pointer
  <2> QED BY <1>u, <1>f, <2>1
<1>3. \A t \in Task : nxt[t] = next[t] \/ (t = lastkeep /\ nxt[t] = visit)
  BY <1>n
<1>4. nxt \in [Task -> Pointer]
  BY <1>n
<1>5. worklist \notin gone /\ gone \subseteq Used
  BY <1>u, <1>2
<1>6. visit \notin deletable
  BY <1>u, <1>f, <1>1
<1>7. ASSUME NEW t \in Task
      PROVE  /\ nxt[t] \in before[t] \cup {Nil}
             /\ t \notin Listed => nxt[t] = Nil
             /\ t \notin freed => nxt[t] \notin freed
  <2>1. next[t] \in before[t] \cup {Nil} /\ (t \notin Listed => next[t] = Nil)
    BY DEF ReclaimInv, OlderInv
  <2>2. t \notin freed => next[t] \notin freed
    BY DEF ReclaimInv, ChainInv
  <2>3. visit \notin freed
    <3>1. freed \subseteq Task
      BY DEF ReclaimInv, EraserInv
    <3> QED BY <1>u, <1>1, <3>1 DEF Used, Gone
  <2> QED BY <1>1, <1>3, <1>u, <2>1, <2>2, <2>3
<1>c. \A t \in Used : /\ next[t] \notin Gone
                      /\ next[t] # Nil => next[t] # worklist
                      /\ \A u \in Used : next[t] # Nil /\ next[u] = next[t] => t = u
  BY DEF ReclaimInv, ChainInv
<1>8. ASSUME NEW t \in Used \ gone
      PROVE  nxt[t] \notin Gone \cup gone /\ (nxt[t] # Nil => nxt[t] # worklist)
  <2>1. t \in Task
    BY <1>f
  <2>2. CASE t = lastkeep /\ nxt[t] = visit /\ visit # Nil
    BY <2>2, <1>u, <1>2, <1>6 DEF Used
  <2>3. CASE nxt[t] = Nil
    <3>1. Nil \notin Gone \cup gone
      BY <1>1, <1>5, <1>f DEF ReclaimInv, ChainInv
    <3> QED BY <2>3, <3>1
  <2>4. CASE nxt[t] = next[t] /\ nxt[t] # Nil
    <3>1. nxt[t] \notin Gone /\ nxt[t] # worklist
      BY <2>4, <1>c
    <3>2. nxt[t] \notin gone
      <4>1. SUFFICES ASSUME gone = deletable, nxt = [next EXCEPT ![lastkeep] = visit], nxt[t] \in deletable
                     PROVE  FALSE
        OBVIOUS
      <4>2. t = lastkeep
        BY <1>u, <2>4, <4>1
      <4>3. nxt[t] = visit
        BY <1>1, <1>n, <4>1, <4>2
      <4> QED BY <1>6, <4>1, <4>3
    <3> QED BY <3>1, <3>2
  <2> QED BY <1>3, <2>1, <2>2, <2>3, <2>4
<1>9. ASSUME NEW t \in Used \ gone, NEW u \in Used \ gone, nxt[t] # Nil, nxt[u] = nxt[t]
      PROVE  t = u
  <2>1. t \in Task /\ u \in Task
    BY <1>f
  <2>2. CASE nxt[t] = next[t] /\ nxt[u] = next[u]
    BY <2>2, <1>9, <1>c
  <2>3. CASE nxt = [next EXCEPT ![lastkeep] = visit] /\ gone = deletable
    <3>1. \A v \in Task : nxt[v] = IF v = lastkeep THEN visit ELSE next[v]
      BY <2>3, <1>n
    <3>2. \A v \in Used : v # lastkeep /\ next[v] = visit /\ visit # Nil => v \in deletable
      BY <1>u
    <3>3. CASE t = lastkeep
      BY <1>9, <2>1, <2>3, <3>1, <3>2, <3>3
    <3>4. CASE u = lastkeep
      BY <1>9, <2>1, <2>3, <3>1, <3>2, <3>4
    <3>5. CASE t # lastkeep /\ u # lastkeep
      BY <1>9, <2>1, <3>1, <3>5, <1>c
    <3> QED BY <3>3, <3>4, <3>5
  <2> QED BY <2>2, <2>3
<1> QED BY <1>1, <1>4, <1>5, <1>7, <1>8, <1>9

(***************************************************************************)
(* What Unlink gives of a step of the eraser that writes to next.          *)
(***************************************************************************)
LEMMA Unlinked ==
  ASSUME ReclaimInv, Unlinking, NEW gone,
         \/ next' = next /\ gone = {}
         \/ next' = [next EXCEPT ![lastkeep] = visit] /\ gone = deletable,
         Sublists' = Sublists \cup gone, freed' = freed,
         UNCHANGED <<worklist, status, optFlags, father, args, ndependencies, nchildren, deps,
                     queue, insVars, runVars, history>>
  PROVE  /\ TypeInv' /\ PushedInv' /\ OlderInv' /\ ChainInv'
         /\ UNCHANGED <<Listed, InWorklist>> /\ Used' = Used \ gone
<1>u. /\ lastkeep \in Task /\ next' \in [Task -> Pointer]
      /\ worklist \notin gone /\ gone \subseteq Used
      /\ \A t \in Task : /\ next'[t] \in before[t] \cup {Nil}
                         /\ t \notin Listed => next'[t] = Nil
                         /\ t \notin freed => next'[t] \notin freed
      /\ \A t \in Used \ gone :
            /\ next'[t] \notin Gone \cup gone
            /\ next'[t] # Nil => next'[t] # worklist
            /\ \A u \in Used \ gone : next'[t] # Nil /\ next'[u] = next'[t] => t = u
  <2> DEFINE nxt == next'
  <2>0. \/ nxt = next /\ gone = {}
        \/ nxt = [next EXCEPT ![lastkeep] = visit] /\ gone = deletable
    OBVIOUS
  <2> HIDE DEF nxt
  <2>1. /\ lastkeep \in Task /\ nxt \in [Task -> Pointer]
        /\ worklist \notin gone /\ gone \subseteq Used
        /\ \A t \in Task : /\ nxt[t] \in before[t] \cup {Nil}
                           /\ t \notin Listed => nxt[t] = Nil
                           /\ t \notin freed => nxt[t] \notin freed
        /\ \A t \in Used \ gone :
              /\ nxt[t] \notin Gone \cup gone
              /\ nxt[t] # Nil => nxt[t] # worklist
              /\ \A u \in Used \ gone : nxt[t] # Nil /\ nxt[u] = nxt[t] => t = u
    BY <2>0, Unlink
  <2> QED BY <2>1 DEF nxt
<1>1. UNCHANGED <<Listed, InWorklist>>
  BY DEF Listed, Pushed, InWorklist, insVars, history
<1>2. TypeInv'
  <2>1. TypeOK'
    BY <1>u DEF ReclaimInv, TypeInv, TypeOK, ItemTypeOK, ThreadTypeOK, insVars, runVars, history
  <2>2. PointersOK'
    BY DEF ReclaimInv, TypeInv, PointersOK, Completing, insVars, runVars
  <2> QED BY <2>1, <2>2 DEF TypeInv
<1>3. PushedInv'
  <2>1. \A u \in Task : (Live(u)' <=> Live(u)) /\ (Completing(u)' <=> Completing(u))
    BY DEF insVars, runVars, Live, Completing
  <2> QED BY <1>1, <2>1 DEF ReclaimInv, PushedInv, runVars
<1>4. OlderInv'
  BY <1>1, <1>u DEF ReclaimInv, OlderInv, history
<1>5. Gone' = Gone \cup gone /\ Used' = Used \ gone
  BY <1>1 DEF Gone, Used
<1>6. ChainInv'
  <2>1. worklist \notin Gone /\ Sublists \cap freed = {} /\ Gone \subseteq Listed
    BY DEF ReclaimInv, ChainInv
  <2>2. gone \subseteq Listed /\ gone \cap freed = {}
    BY <1>u DEF Used, Gone
  <2> QED BY <1>1, <1>5, <1>u, <2>1, <2>2 DEF ChainInv
<1> QED BY <1>1, <1>2, <1>3, <1>4, <1>5, <1>6

LEMMA CutStep == ASSUME ReclaimInv, Cut PROVE ReclaimInv'
<1> DEFINE enough == Cardinality(deletable) > MinDeletable
           gone == IF enough THEN deletable ELSE {}
<1>1. /\ \/ next' = next /\ gone = {}
         \/ next' = [next EXCEPT ![lastkeep] = visit] /\ gone = deletable
      /\ Sublists' = Sublists \cup gone
      /\ lastkeep' = visit /\ visit' = next[visit] /\ deletable' = {} /\ erasing' = "look"
      /\ Unlinking /\ erasing = "cut"
      /\ UNCHANGED <<worklist, status, optFlags, father, args, ndependencies, nchildren, deps,
                     queue, insVars, runVars, history>>
      /\ UNCHANGED <<eraser, tested, hint, Dones, freed, reused>>
  BY DEF Cut, Unlinking
<1>0. gone = {} \/ gone = deletable
  OBVIOUS
<1> HIDE DEF gone, enough
<1>2. /\ TypeInv' /\ PushedInv' /\ OlderInv' /\ ChainInv'
      /\ UNCHANGED <<Listed, InWorklist>> /\ Used' = Used \ gone
  BY <1>1, Unlinked
<1>3. UNCHANGED before /\ UNCHANGED run
  BY <1>1 DEF history, runVars
<1>u. /\ lastkeep \in Used \cap InWorklist
      /\ visit \in Used \cap before[lastkeep] /\ visit # Nil
      /\ \A d \in deletable : visit \in before[d]
      /\ deletable \subseteq Used
  BY <1>1 DEF ReclaimInv, UnlinkInv, EraserInv
<1>f. /\ Used \subseteq Listed /\ Listed \subseteq Task
      /\ \A t \in Used : next[t] \in (Used \cap before[t]) \cup {Nil}
      /\ \A t \in Task : t \notin before[t] /\ \A u \in before[t] : before[u] \subseteq before[t]
  BY ListFacts
<1>n. next \in [Task -> Pointer] /\ worklist \in Pointer
  BY DEF ReclaimInv, TypeInv, TypeOK, ItemTypeOK
<1>4. visit \in Used \ gone /\ visit \in InWorklist /\ visit # lastkeep
  <2>1. visit \notin deletable /\ visit # lastkeep
    BY <1>u, <1>f
  <2>2. worklist \in Task /\ InWorklist = before[worklist] \cup {worklist}
    BY <1>u, <1>n DEF InWorklist, Pointer
  <2>3. before[lastkeep] \subseteq before[worklist]
    BY <1>u, <1>f, <2>2
  <2> QED BY <1>u, <1>0, <2>1, <2>2, <2>3
<1>5. next'[visit] = next[visit]
  <2>1. visit \in Task
    BY <1>u, <1>f
  <2>2. next' = next \/ next' = [next EXCEPT ![lastkeep] = visit]
    BY <1>1
  <2> QED BY <1>4, <1>n, <2>1, <2>2
<1>6. next[visit] # Nil => next[visit] \in (Used \ gone) \cap before[visit]
  <2>1. next[visit] \in (Used \cap before[visit]) \cup {Nil}
    BY <1>u, <1>f
  <2>2. next'[visit] \notin Gone'
    BY <1>2, <1>4 DEF ChainInv
  <2>3. gone \subseteq Gone'
    BY <1>1 DEF Gone
  <2> QED BY <1>5, <2>1, <2>2, <2>3
<1>7. \A t \in Used \ gone : next'[t] # Nil /\ next'[t] = next[visit] => t = visit
  BY <1>2, <1>4, <1>5 DEF ChainInv
<1>8. UnlinkInv'
  BY <1>1, <1>2, <1>3, <1>4, <1>6, <1>7 DEF UnlinkInv, Unlinking
<1>9. EraserInv'
  <2>1. visit \in Pointer /\ next[visit] \in Pointer /\ Sublists' \subseteq Task
    BY <1>0, <1>1, <1>u, <1>f, <1>n DEF Pointer, ReclaimInv, EraserInv
  <2> QED BY <1>1, <1>3, <2>1 DEF ReclaimInv, EraserInv, ErasePlace
<1> QED BY <1>2, <1>8, <1>9 DEF ReclaimInv

LEMMA CutTailStep == ASSUME ReclaimInv, CutTail PROVE ReclaimInv'
<1> DEFINE gone == IF next[lastkeep] # Nil THEN deletable ELSE {}
<1>n. next \in [Task -> Pointer]
  BY DEF ReclaimInv, TypeInv, TypeOK, ItemTypeOK
<1>1. /\ \/ next' = next /\ gone = {}
         \/ next' = [next EXCEPT ![lastkeep] = visit] /\ gone = deletable
      /\ Sublists' = Sublists \cup gone
      /\ lastkeep' = Nil /\ visit' = visit /\ deletable' = {} /\ erasing' = "reload"
      /\ Unlinking /\ erasing = "look"
      /\ UNCHANGED <<worklist, status, optFlags, father, args, ndependencies, nchildren, deps,
                     queue, insVars, runVars, history>>
      /\ UNCHANGED <<eraser, tested, hint, Dones, freed, reused>>
  <2>1. next[lastkeep] = Nil => [next EXCEPT ![lastkeep] = Nil] = next
    BY <1>n
  <2> QED BY <2>1 DEF CutTail, Unlinking
<1>0. gone = {} \/ gone = deletable
  OBVIOUS
<1> HIDE DEF gone
<1>2. /\ TypeInv' /\ PushedInv' /\ OlderInv' /\ ChainInv'
  BY <1>1, Unlinked
<1>3. UnlinkInv'
  BY <1>1 DEF UnlinkInv, Unlinking
<1>4. EraserInv'
  BY <1>0, <1>1 DEF ReclaimInv, EraserInv, ErasePlace, Pointer, runVars
<1> QED BY <1>2, <1>3, <1>4 DEF ReclaimInv

LEMMA ReloadStep == ASSUME ReclaimInv, Reload \/ WaitFill PROVE ReclaimInv'
<1>0. UNCHANGED <<vars, eraser, tested, hint, lastkeep, deletable, Dones, Sublists, freed, reused>>
      /\ ~ Unlinking /\ erasing' \in {"wait", "dones"} /\ visit' \in Pointer /\ eraser # Nil
  <2>1. next \in [Task -> Pointer] /\ worklist \in Pointer /\ Nil \in Pointer
    BY DEF ReclaimInv, TypeInv, TypeOK, ItemTypeOK, Pointer
  <2>2. eraser # Nil /\ visit \in Pointer
    BY DEF ReclaimInv, EraserInv, Reload, WaitFill
  <2>3. WaitFill => visit' \in Pointer
    BY <2>1, <2>2 DEF WaitFill, Pointer
  <2> QED BY <2>1, <2>2, <2>3 DEF Reload, WaitFill, Unlinking, eraserIdle
<1>1. TypeInv' /\ PushedInv' /\ OlderInv' /\ UNCHANGED <<worklist, run>>
  BY <1>0, SameItems
<1>2. ChainInv'
  BY <1>0, SameChain
<1>3. UnlinkInv'
  BY <1>0 DEF ReclaimInv, UnlinkInv, Unlinking
<1>4. EraserInv'
  BY <1>0, <1>1 DEF ReclaimInv, EraserInv, ErasePlace
<1> QED BY <1>1, <1>2, <1>3, <1>4 DEF ReclaimInv

LEMMA FreeSublistsStep == ASSUME ReclaimInv, FreeSublists PROVE ReclaimInv'
<1>0. /\ UNCHANGED vars /\ freed' = freed \cup Sublists /\ Sublists' = {} /\ ~ Unlinking
      /\ erasing' = "none" /\ eraser' = Nil /\ hint' = Nil /\ Dones' = {}
      /\ UNCHANGED <<tested, lastkeep, visit, deletable, reused>>
  BY DEF FreeSublists, Unlinking
<1>1. TypeInv' /\ PushedInv' /\ OlderInv' /\ UNCHANGED <<worklist, next, run, Listed>>
  BY <1>0, SameItems
<1>2. UNCHANGED <<Gone, Used>>
  BY <1>0, <1>1 DEF Gone, Used
<1>3. ChainInv'
  <2>1. ASSUME NEW t \in Task, t \notin freed' PROVE next[t] \notin freed'
    <3>1. CASE t \in Used
      BY <1>0, <3>1 DEF ReclaimInv, ChainInv, Gone
    <3>2. CASE t \notin Listed
      <4>1. Nil \notin Gone
        BY NilAssumption DEF ReclaimInv, ChainInv, Listed
      <4> QED BY <1>0, <3>2, <4>1 DEF ReclaimInv, OlderInv, Gone
    <3> QED BY <1>0, <2>1, <3>1, <3>2 DEF Used, Gone
  <2> QED BY <1>0, <1>1, <1>2, <2>1 DEF ReclaimInv, ChainInv
<1>4. UnlinkInv'
  BY <1>0 DEF ReclaimInv, UnlinkInv, Unlinking
<1>5. EraserInv'
  BY <1>0, <1>1 DEF ReclaimInv, EraserInv, ErasePlace, Pointer
<1> QED BY <1>1, <1>3, <1>4, <1>5 DEF ReclaimInv

LEMMA TestStep == ASSUME ReclaimInv, NEW t \in Task, TestErase(t) \/ Claim(t) PROVE ReclaimInv'
<1>0. /\ UNCHANGED <<vars, erasing, hint, lastkeep, visit, deletable, Dones, Sublists, freed, reused>>
      /\ eraser = Nil /\ run[t] = "load" /\ eraser' \in {Nil, t} /\ tested' \subseteq tested \cup {t}
  BY DEF TestErase, Claim, eraserVars, ReclaimInv, EraserInv
<1>1. TypeInv' /\ PushedInv' /\ OlderInv' /\ UNCHANGED <<worklist, run, before, next, InWorklist>>
  BY <1>0, SameItems
<1>2. ChainInv' /\ UNCHANGED Used
  BY <1>0, SameChain
<1>3. UnlinkInv'
  BY <1>0, <1>1, <1>2 DEF ReclaimInv, UnlinkInv, Unlinking
<1>4. worklist # Nil
  BY <1>0 DEF ReclaimInv, PushedInv, Live
<1>5. EraserInv'
  BY <1>0, <1>1, <1>4 DEF ReclaimInv, EraserInv, Pointer
<1> QED BY <1>1, <1>2, <1>3, <1>5 DEF ReclaimInv

LEMMA WaitForAllStep == ASSUME ReclaimInv, ReclaimWaitForAll PROVE ReclaimInv'
<1>0. /\ worklist' = Nil /\ freed' = Listed /\ eraser = Nil
      /\ UNCHANGED <<itemVars, queue, insVars, runVars, history>>
      /\ UNCHANGED <<tested, eraserVars, reused>>
      /\ \A t \in Task : queue[t] = 0 /\ ~ Inserting(t) /\ run[t] \in {"idle", "out"}
  BY DEF ReclaimWaitForAll, WaitForAll, Quiescent, Listed
<1>1. TypeInv'
  <2>1. Next
    BY DEF ReclaimWaitForAll, Next
  <2> QED BY <2>1, TypeStep DEF ReclaimInv
<1>2. Listed' = Listed /\ Listed \subseteq Task /\ Sublists = {} /\ ~ Unlinking
  BY <1>0 DEF Listed, Pushed, insVars, ReclaimInv, EraserInv, Unlinking
<1>3. PushedInv'
  <2>1. \A u \in Task : Completing(u)' <=> Completing(u)
    BY <1>0 DEF Completing, runVars
  <2>2. \A u \in Task : ~ Live(u)'
    BY <1>0 DEF Live, Inserting, insVars, runVars
  <2> QED BY <1>0, <1>2, <2>1, <2>2 DEF ReclaimInv, PushedInv, itemVars, runVars
<1>4. OlderInv'
  BY <1>0, <1>2 DEF ReclaimInv, OlderInv, itemVars, history
<1>5. ChainInv'
  <2>1. Gone' = Listed /\ Used' = {}
    BY <1>0, <1>2 DEF Gone, Used, eraserVars
  <2>2. Nil \notin Listed
    BY <1>2, NilAssumption
  <2>3. \A t \in Task : t \notin Listed => next[t] = Nil
    BY DEF ReclaimInv, OlderInv
  <2> QED BY <1>0, <1>2, <2>1, <2>2, <2>3 DEF ChainInv, itemVars, eraserVars
<1>6. UnlinkInv'
  BY <1>0, <1>2 DEF ReclaimInv, UnlinkInv, Unlinking, eraserVars
<1>7. EraserInv'
  BY <1>0, <1>2 DEF ReclaimInv, EraserInv, ChainInv, Gone, eraserVars, runVars
<1> QED BY <1>1, <1>3, <1>4, <1>5, <1>6, <1>7 DEF ReclaimInv

LEMMA ReclaimStep == ReclaimInv /\ [ReclaimNext]_reclaimVars => ReclaimInv'
<1> SUFFICES ASSUME ReclaimInv, [ReclaimNext]_reclaimVars PROVE ReclaimInv'
  OBVIOUS
<1>1. ASSUME NEW f \in Pointer, NEW t \in Task, NEW a \in Uses[t], ReclaimSpawn(f, t, a) PROVE ReclaimInv'
  BY <1>1, SpawnStep
<1>r. run \in [Task -> RunPlace] /\ \A u \in tested : u \in Task /\ run[u] = "load"
  BY DEF ReclaimInv, EraserInv, TypeInv, TypeOK, ThreadTypeOK
<1>2. ASSUME NEW t \in Task, ReclaimInsert(t) PROVE ReclaimInv'
  <2>0. UNCHANGED <<tested, eraserVars, freed, reused>>
    BY <1>2 DEF ReclaimInsert
  <2>1. CASE Push(t)
    BY <2>0, <2>1, ReclaimPushStep
  <2>2. CASE ~ Push(t)
    <3>1. Elsewhere(t) /\ UNCHANGED run
      BY <1>2, <2>2 DEF ReclaimInsert, Elsewhere, SkipAncestor, ReclaimLook, Look, Examine, Flag, Settle,
         SetWaiting, runVars
    <3>2. hint' \in Pointer
      BY <2>0 DEF eraserVars, ReclaimInv, EraserInv
    <3> QED BY <1>r, <2>0, <3>1, <3>2, ElsewhereStep DEF eraserVars
  <2> QED BY <2>1, <2>2
<1>3. ASSUME NEW t \in Task, ReclaimExecute(t) PROVE ReclaimInv'
  <2>1. CASE TestErase(t) \/ Claim(t)
    BY <2>1, TestStep
  <2>2. CASE ReclaimLoadHint(t)
    <3>1. Elsewhere(t) /\ run' = [run EXCEPT ![t] = "walk"]
      BY <2>2 DEF ReclaimLoadHint, LoadHint, Elsewhere
    <3>2. hint' \in Pointer
      BY <2>2 DEF ReclaimLoadHint, ReclaimInv, EraserInv, TypeInv, TypeOK, ItemTypeOK
    <3>3. tested' = tested \ {t}
          /\ UNCHANGED <<eraser, erasing, lastkeep, visit, deletable, Dones, Sublists, freed, reused>>
      BY <2>2 DEF ReclaimLoadHint
    <3>4. \A u \in tested' : run'[u] = "load"
      BY <1>r, <3>1, <3>3
    <3> QED BY <3>1, <3>2, <3>3, <3>4, ElsewhereStep
  <2>3. CASE /\ Start(t) \/ EndBody(t) \/ MarkDone(t) \/ Walk(t) \/ Drain(t) \/ FreeDeps(t)
                  \/ Release(t) \/ Climb(t)
             /\ UNCHANGED <<tested, ObserversAtWork, eraserVars, freed, reused>>
    <3>1. Elsewhere(t) /\ UNCHANGED <<tested, eraserVars, freed, reused>>
      BY <2>3 DEF Elsewhere
    <3>2. \A u \in Task : run[u] = "load" => run'[u] = "load"
      BY <1>r, <2>3 DEF Start, EndBody, MarkDone, Walk, Drain, FreeDeps, Release, Climb
    <3>3. hint' \in Pointer
      BY <3>1 DEF eraserVars, ReclaimInv, EraserInv
    <3> QED BY <1>r, <3>1, <3>2, <3>3, ElsewhereStep DEF eraserVars
  <2> QED BY <1>3, <2>1, <2>2, <2>3 DEF ReclaimExecute
<1>4. CASE Erase
  BY <1>4, BeginEraseStep, LookAtStep, KeepStep, CutStep, CutTailStep, ReloadStep, FreeSublistsStep DEF Erase
<1>5. CASE ReclaimWaitForAll
  BY <1>5, WaitForAllStep
<1>6. CASE UNCHANGED reclaimVars
  <2>1. UNCHANGED <<vars, tested, eraserVars, freed, reused>>
    BY <1>6 DEF reclaimVars
  <2>2. TypeInv' /\ PushedInv' /\ UNCHANGED <<worklist, next, before, run, Listed>>
    BY <2>1, SameItems
  <2>3. ListInvs'
    BY <2>1, <2>2, SameList DEF eraserVars, ReclaimInv, ListInvs
  <2>4. EraserInv'
    BY <2>1, <2>2 DEF eraserVars, ReclaimInv, EraserInv
  <2> QED BY <2>2, <2>3, <2>4 DEF ReclaimInv, ListInvs
<1> QED BY <1>1, <1>2, <1>3, <1>4, <1>5, <1>6 DEF ReclaimNext

LEMMA AtWorkStays == [ReclaimNext]_reclaimVars => UNCHANGED ObserversAtWork
BY DEF ReclaimNext, reclaimVars, ReclaimSpawn, ReclaimInsert, ReclaimExecute, TestErase, Claim,
   ReclaimLoadHint, Erase, BeginErase, LookAt, Keep, Cut, CutTail, Reload, WaitFill, FreeSublists,
   eraserIdle, ReclaimWaitForAll

(***************************************************************************)
(* The variables of the worklist and of its eraser keep their types, and   *)
(* the static lists of Clean_worklist are empty when there is no eraser,   *)
(* in every program.                                                       *)
(***************************************************************************)
THEOREM ReclaimTypes == ReclaimSpec => []ReclaimTypeOK
<1> DEFINE Inv == ReclaimInv /\ ObserversAtWork = 0
<1>1. ReclaimInit => Inv
  BY ReclaimStart DEF ReclaimInit
<1>2. Inv /\ [ReclaimNext]_reclaimVars => Inv'
  <2> SUFFICES ASSUME Inv, [ReclaimNext]_reclaimVars PROVE Inv'
    OBVIOUS
  <2>1. UNCHANGED ObserversAtWork
    BY AtWorkStays
  <2> QED BY <2>1, ReclaimStep
<1>3. Inv => ReclaimTypeOK
  BY DEF ReclaimInv, TypeInv, EraserInv, ReclaimTypeOK
<1> QED BY <1>1, <1>2, <1>3, PTL DEF ReclaimSpec

(***************************************************************************)
(* No item in use ever leads to one whose memory was given back, and none  *)
(* is given back twice, in every program: whoever begins at the newest     *)
(* item after an erasure does not get to what it freed.                    *)
(***************************************************************************)
THEOREM FreedStaysOut == ReclaimSpec => []FreedUnlinked
<1>1. ReclaimInv => FreedUnlinked
  BY DEF ReclaimInv, ChainInv, Gone, FreedUnlinked
<1> QED BY <1>1, ReclaimStart, ReclaimStep, PTL DEF ReclaimSpec

-----------------------------------------------------------------------------
(* The observers.                                                          *)

AtWork == { f \in Pointer : Waiting(f) }

(***************************************************************************)
(* The types; an observer that tries to run a task is at an item.          *)
(***************************************************************************)
ObserverTypes ==
  /\ obs \in [Pointer -> ObserverPlace]
  /\ limit \in [Pointer -> Pointer]
  /\ fathers \in [Pointer -> SUBSET Pointer]
  /\ seen \in [Pointer -> Pointer]
  /\ again \in [Pointer -> BOOLEAN] /\ priority \in [Pointer -> BOOLEAN] /\ helped \in [Pointer -> BOOLEAN]
  /\ helping \in [Pointer -> Pointer]
  /\ earlier \in [Pointer -> SUBSET Task]
  /\ \A f \in Pointer : obs[f] \in {"try", "help"} => seen[f] # Nil

ObserverInv ==
  ReclaimInv /\ ObserverTypes /\ ObserversAtWork = Cardinality(AtWork)

LEMMA AtWorkFinite == IsFiniteSet(AtWork) /\ Cardinality(AtWork) \in Nat
<1>1. IsFiniteSet(Pointer)
  BY TaskAssumption, FS_AddElement DEF Pointer
<1>2. IsFiniteSet(AtWork)
  BY <1>1, FS_Subset DEF AtWork
<1> QED BY <1>2, FS_CardinalityType

(***************************************************************************)
(* The step of an observer that leaves the worklist alone.                 *)
(***************************************************************************)
LEMMA UntouchedStep == ASSUME ReclaimInv, UNCHANGED untouched PROVE ReclaimInv'
<1>1. UNCHANGED <<vars, tested, eraserVars, freed, reused>>
  BY DEF untouched
<1>2. TypeInv' /\ PushedInv' /\ UNCHANGED <<worklist, next, before, run, Listed>>
  BY <1>1, SameItems
<1>3. ListInvs'
  BY <1>1, <1>2, SameList DEF eraserVars, ReclaimInv, ListInvs
<1>4. EraserInv'
  BY <1>1, <1>2 DEF eraserVars, ReclaimInv, EraserInv
<1> QED BY <1>2, <1>3, <1>4 DEF ReclaimInv, ListInvs

LEMMA WorklistTypes ==
  ASSUME ReclaimInv
  PROVE  /\ worklist \in Pointer /\ next \in [Task -> Pointer] /\ Nil \in Pointer /\ Task \subseteq Pointer
         /\ reused \subseteq Task
BY DEF ReclaimInv, TypeInv, TypeOK, ItemTypeOK, EraserInv, Pointer

(***************************************************************************)
(* One more waits: WaitForSubtasks or Destroy.                             *)
(***************************************************************************)
LEMMA StartWaitCounts ==
  ASSUME ObserverInv, NEW f \in Pointer, StartWait(f)
  PROVE  ObserversAtWork' = Cardinality(AtWork')
<1>1. obs' = [obs EXCEPT ![f] = "spin"] /\ ObserversAtWork' = ObserversAtWork + 1 /\ f \notin AtWork
  BY DEF StartWait, AtWork, Blocked
<1>2. AtWork' = AtWork \cup {f}
  BY <1>1 DEF AtWork, Waiting, ObserverInv, ObserverTypes
<1>3. Cardinality(AtWork \cup {f}) = Cardinality(AtWork) + 1
  BY <1>1, AtWorkFinite, FS_AddElement
<1> QED BY <1>1, <1>2, <1>3 DEF ObserverInv

LEMMA EndWaitCounts ==
  ASSUME ObserverInv, NEW f \in Pointer, EndWait(f)
  PROVE  ObserversAtWork' = Cardinality(AtWork')
<1>1. obs' = [obs EXCEPT ![f] = "done"] /\ ObserversAtWork' = ObserversAtWork - 1 /\ f \in AtWork
  BY DEF EndWait, AtWork, Waiting
<1>2. AtWork' = AtWork \ {f}
  BY <1>1 DEF AtWork, Waiting, ObserverInv, ObserverTypes
<1>3. Cardinality(AtWork \ {f}) = Cardinality(AtWork) - 1
  BY <1>1, AtWorkFinite, FS_RemoveElement
<1> QED BY <1>1, <1>2, <1>3 DEF ObserverInv

LEMMA ObserverSpawnStep ==
  ASSUME ObserverInv, NEW f \in Pointer, NEW t \in Task, NEW a \in Uses[t], ObserverSpawn(f, t, a)
  PROVE  ObserverInv'
<1> DEFINE Now(p) == IF p \in reused' \ reused THEN t ELSE p
<1>1. /\ ReclaimSpawn(f, t, a)
      /\ limit' = [g \in Pointer |-> Now(limit[g])]
      /\ seen' = [g \in Pointer |-> Now(seen[g])]
      /\ fathers' = [g \in Pointer |-> { Now(p) : p \in fathers[g] }]
      /\ UNCHANGED <<obs, walkVars, helping, earlier>>
  BY DEF ObserverSpawn
<1>2. ReclaimInv' /\ UNCHANGED ObserversAtWork
  BY <1>1, SpawnStep DEF ObserverInv, ReclaimSpawn
<1>3. \A p \in Pointer : Now(p) \in Pointer /\ (p # Nil => Now(p) # Nil)
  BY NilAssumption DEF Pointer
<1> HIDE DEF Now
<1>4. /\ limit' \in [Pointer -> Pointer] /\ seen' \in [Pointer -> Pointer]
      /\ fathers' \in [Pointer -> SUBSET Pointer]
  BY <1>1, <1>3 DEF ObserverInv, ObserverTypes
<1>5. ObserverTypes'
  BY <1>1, <1>3, <1>4 DEF ObserverInv, ObserverTypes, walkVars
<1>6. AtWork' = AtWork
  BY <1>1 DEF AtWork, Waiting
<1> QED BY <1>2, <1>5, <1>6 DEF ObserverInv

LEMMA ObserveStep ==
  ASSUME ObserverInv, NEW f \in Pointer, Observe(f)
  PROVE  ObserverInv'
<1>t. /\ obs \in [Pointer -> ObserverPlace] /\ limit \in [Pointer -> Pointer]
      /\ fathers \in [Pointer -> SUBSET Pointer] /\ seen \in [Pointer -> Pointer]
      /\ again \in [Pointer -> BOOLEAN] /\ priority \in [Pointer -> BOOLEAN] /\ helped \in [Pointer -> BOOLEAN]
      /\ helping \in [Pointer -> Pointer] /\ earlier \in [Pointer -> SUBSET Task]
      /\ \A g \in Pointer : obs[g] \in {"try", "help"} => seen[g] # Nil
  BY DEF ObserverInv, ObserverTypes
<1>w. /\ worklist \in Pointer /\ next \in [Task -> Pointer] /\ Nil \in Pointer /\ Task \subseteq Pointer
  BY WorklistTypes DEF ObserverInv
<1>k. ObserversAtWork = Cardinality(AtWork) /\ ReclaimInv
  BY DEF ObserverInv
<1>p. \A g \in Pointer : g # Nil => g \in Task /\ next[g] \in Pointer
  BY <1>w DEF Pointer
<1>u. UNCHANGED reclaimVars => UNCHANGED untouched /\ UNCHANGED ObserversAtWork
  BY DEF reclaimVars, untouched
<1>1. CASE Build(f)
  <2>1. obs' = [obs EXCEPT ![f] = "open"] /\ obs[f] = "none" /\ UNCHANGED reclaimVars
    BY <1>1 DEF Build, BuildNext
  <2>2. AtWork' = AtWork
    BY <2>1, <1>t DEF AtWork, Waiting
  <2>3. ReclaimInv' /\ UNCHANGED ObserversAtWork
    BY <2>1, <1>u, <1>k, UntouchedStep
  <2>4. ObserverTypes'
    BY <1>1, <1>t, <1>w, <2>1 DEF Build, ObserverTypes, ObserverPlace, walkVars, ChildrenOf
  <2> QED BY <1>k, <2>2, <2>3, <2>4 DEF ObserverInv
<1>2. CASE WaitForSubtasks(f) \/ Destroy(f)
  <2>1. StartWait(f) /\ (limit' = limit \/ limit' = [limit EXCEPT ![f] = f])
    BY <1>2 DEF WaitForSubtasks, Destroy
  <2>2. ReclaimInv'
    BY <2>1, <1>k, UntouchedStep DEF StartWait
  <2>3. ObserverTypes'
    BY <2>1, <1>t, <1>w DEF StartWait, ObserverTypes, ObserverPlace, walkVars
  <2> QED BY <2>1, <2>2, <2>3, StartWaitCounts DEF ObserverInv
<1>3. CASE FirstPass(f) \/ NextPass(f)
  <2>1. /\ obs' = [obs EXCEPT ![f] = "pass"] /\ seen' = [seen EXCEPT ![f] = worklist]
        /\ again' = [again EXCEPT ![f] = FALSE] /\ helped' = [helped EXCEPT ![f] = FALSE]
        /\ UNCHANGED <<reclaimVars, limit, fathers, helping, earlier>>
        /\ obs[f] \in {"spin", "pass"}
    BY <1>3 DEF FirstPass, NextPass, StartPass
  <2>2. AtWork' = AtWork
    BY <2>1, <1>t DEF AtWork, Waiting
  <2>3. ReclaimInv' /\ UNCHANGED ObserversAtWork
    BY <2>1, <1>u, <1>k, UntouchedStep
  <2>4. priority' \in [Pointer -> BOOLEAN]
    BY <1>3, <1>t, PriorityAssumption DEF FirstPass, NextPass
  <2>5. ObserverTypes'
    BY <2>1, <2>4, <1>t, <1>w DEF ObserverTypes, ObserverPlace
  <2> QED BY <1>k, <2>2, <2>3, <2>5 DEF ObserverInv
<1>4. CASE Visit(f)
  <2> DEFINE p == seen[f]
  <2>1. /\ obs[f] = "pass" /\ p # Nil /\ p \in Pointer /\ next[p] \in Pointer
        /\ UNCHANGED <<reclaimVars, limit, priority, helped, helping, earlier>>
        /\ fathers' = fathers \/ fathers' = [fathers EXCEPT ![f] = @ \cup {p}]
        /\ again' = again \/ again' = [again EXCEPT ![f] = TRUE]
        /\ \/ obs' = [obs EXCEPT ![f] = "try"] /\ seen' = seen
           \/ obs' = obs /\ seen' = [seen EXCEPT ![f] = next[p]]
    BY <1>4, <1>t, <1>p DEF Visit
  <2>2. AtWork' = AtWork
    BY <2>1, <1>t DEF AtWork, Waiting
  <2>3. ReclaimInv' /\ UNCHANGED ObserversAtWork
    BY <2>1, <1>u, <1>k, UntouchedStep
  <2>4. fathers' \in [Pointer -> SUBSET Pointer] /\ again' \in [Pointer -> BOOLEAN]
    <3>1. again' = again \/ again' = [again EXCEPT ![f] = TRUE]
      BY <2>1
    <3>2. again' \in [Pointer -> BOOLEAN]
      BY <3>1, <1>t, Zenon
    <3>3. fathers' = fathers \/ fathers' = [fathers EXCEPT ![f] = fathers[f] \cup {p}]
      BY <2>1
    <3>4. fathers[f] \cup {p} \in SUBSET Pointer
      BY <2>1, <1>t
    <3> HIDE DEF p
    <3>5. fathers' \in [Pointer -> SUBSET Pointer]
      BY <3>3, <3>4, <1>t
    <3> QED BY <3>2, <3>5
  <2>5. obs' \in [Pointer -> ObserverPlace] /\ seen' \in [Pointer -> Pointer]
    BY <2>1, <1>t DEF ObserverPlace
  <2>6. \A g \in Pointer : obs'[g] \in {"try", "help"} => seen'[g] # Nil
    BY <2>1, <1>t
  <2>7. ObserverTypes'
    BY <2>1, <2>4, <2>5, <2>6, <1>t DEF ObserverTypes
  <2> QED BY <1>k, <2>2, <2>3, <2>7 DEF ObserverInv
<1>5. CASE TryToRun(f) \/ AwaitTask(f)
  <2>1. PICK q \in Task : TakeTask(f, q)
    BY <1>5 DEF TryToRun, AwaitTask
  <2>2. ReclaimExecute(q) /\ UNCHANGED ObserversAtWork
    BY <2>1 DEF TakeTask, ReclaimExecute
  <2>3. ReclaimInv'
    <3>1. ReclaimNext
      BY <2>2 DEF ReclaimNext
    <3> QED BY <1>k, <3>1, ReclaimStep
  <2>4. obs' = obs \/ (obs[f] = "try" /\ obs' = [obs EXCEPT ![f] = "help"])
    BY <1>5 DEF TryToRun, AwaitTask
  <2>5. AtWork' = AtWork
    BY <2>4, <1>t DEF AtWork, Waiting
  <2>6. helped' \in [Pointer -> BOOLEAN]
    BY <1>5, <1>t DEF TryToRun, AwaitTask
  <2>7. /\ helping' = [helping EXCEPT ![f] = q]
        /\ UNCHANGED <<limit, fathers, seen, again, priority, earlier>>
    BY <2>1 DEF TakeTask
  <2>8. ObserverTypes'
    BY <2>4, <2>6, <2>7, <1>t, <1>w DEF ObserverTypes, ObserverPlace
  <2> QED BY <1>k, <2>2, <2>3, <2>5, <2>8 DEF ObserverInv
<1>6. CASE GoOn(f)
  <2>1. /\ obs[f] \in {"try", "help"}
        /\ obs' = [obs EXCEPT ![f] = "pass"] /\ helping' = [helping EXCEPT ![f] = Nil]
        /\ seen' = [seen EXCEPT ![f] = next[seen[f]]]
        /\ UNCHANGED <<reclaimVars, limit, fathers, walkVars, earlier>>
    BY <1>6 DEF GoOn
  <2>2. AtWork' = AtWork
    BY <2>1, <1>t DEF AtWork, Waiting
  <2>3. ReclaimInv' /\ UNCHANGED ObserversAtWork
    BY <2>1, <1>u, <1>k, UntouchedStep
  <2>4. next[seen[f]] \in Pointer
    BY <2>1, <1>t, <1>p
  <2>5. ObserverTypes'
    BY <2>1, <2>4, <1>t, <1>w DEF ObserverTypes, ObserverPlace, walkVars
  <2> QED BY <1>k, <2>2, <2>3, <2>5 DEF ObserverInv
<1>7. CASE EndWait(f)
  <2>1. ReclaimInv'
    BY <1>7, <1>k, UntouchedStep DEF EndWait
  <2>2. ObserverTypes'
    BY <1>7, <1>t DEF EndWait, ObserverTypes, ObserverPlace, walkVars
  <2> QED BY <1>7, <2>1, <2>2, EndWaitCounts DEF ObserverInv
<1>8. CASE AwaitNext(f)
  <2>1. UNCHANGED <<reclaimVars, obs>>
    BY <1>8 DEF AwaitNext
  <2>2. AtWork' = AtWork
    BY <2>1 DEF AtWork, Waiting
  <2>3. ReclaimInv' /\ UNCHANGED ObserversAtWork
    BY <2>1, <1>u, <1>k, UntouchedStep
  <2>4. ObserverTypes'
    BY <1>8, <1>t, <1>w DEF AwaitNext, ObserverTypes, walkVars
  <2> QED BY <1>k, <2>2, <2>3, <2>4 DEF ObserverInv
<1> QED BY <1>1, <1>2, <1>3, <1>4, <1>5, <1>6, <1>7, <1>8 DEF Observe

LEMMA ObserverStep == ObserverInv /\ [ObserverNext]_observerVars => ObserverInv'
<1> SUFFICES ASSUME ObserverInv, [ObserverNext]_observerVars PROVE ObserverInv'
  OBVIOUS
<1>1. ASSUME NEW f \in Pointer, SpawnOf(f) PROVE ObserverInv'
  BY <1>1, ObserverSpawnStep DEF SpawnOf
<1>2. ASSUME NEW f \in Pointer, Observe(f) PROVE ObserverInv'
  BY <1>2, ObserveStep
<1>3. ASSUME [ReclaimNext]_reclaimVars, UNCHANGED obsVars PROVE ObserverInv'
  <2>1. ReclaimInv' /\ UNCHANGED ObserversAtWork
    BY <1>3, ReclaimStep, AtWorkStays DEF ObserverInv
  <2>2. AtWork' = AtWork
    BY <1>3 DEF AtWork, Waiting, obsVars
  <2>3. ObserverTypes'
    BY <1>3 DEF ObserverInv, ObserverTypes, obsVars, walkVars
  <2> QED BY <2>1, <2>2, <2>3 DEF ObserverInv
<1>4. ASSUME NEW t \in Task, ObserverInsert(t) \/ ObserverExecute(t) PROVE ObserverInv'
  BY <1>3, <1>4 DEF ObserverInsert, ObserverExecute, ReclaimNext
<1>5. CASE ObserverOthers
  BY <1>3, <1>5 DEF ObserverOthers, ReclaimNext
<1>6. CASE UNCHANGED observerVars
  BY <1>3, <1>6 DEF observerVars
<1> QED BY <1>1, <1>2, <1>4, <1>5, <1>6 DEF ObserverNext

LEMMA ObserverStart == ObserverInit => ObserverInv
<1> SUFFICES ASSUME ObserverInit PROVE ObserverInv
  OBVIOUS
<1>1. ReclaimInv /\ ObserversAtWork = 0
  BY ReclaimStart DEF ObserverInit, ReclaimInit
<1>2. AtWork = {}
  BY DEF ObserverInit, AtWork, Waiting
<1>3. ObserverTypes
  BY DEF ObserverInit, ObserverTypes, ObserverPlace, Pointer
<1> QED BY <1>1, <1>2, <1>3, FS_EmptySet DEF ObserverInv

(***************************************************************************)
(* In every program, ObserversAtWork counts exactly those who wait, and    *)
(* what an observer holds has its type: its walk never goes on from the    *)
(* null pointer after it helped.                                           *)
(***************************************************************************)
THEOREM ObserverTypesOK == ObserverSpec => []ObserverTypeOK
<1>1. ObserverInv => ObserverTypeOK
  BY AtWorkFinite DEF ObserverInv, ObserverTypes, ObserverTypeOK, ReclaimTypeOK, ReclaimInv, TypeInv, EraserInv, AtWork
<1> QED BY <1>1, ObserverStart, ObserverStep, PTL DEF ObserverSpec

-----------------------------------------------------------------------------
(***************************************************************************)
(* Programs in which only the main thread spawns tasks: one thread inserts *)
(* at a time.                                                              *)
(***************************************************************************)
Flat == \A t \in Task : Body[t] = <<>>

(***************************************************************************)
(* Where the threads of a task are, and the status of its item.            *)
(***************************************************************************)
FlatPlace(t) ==
  /\ father[t] = Nil /\ ancestor[t] = Nil /\ optFlags[t] = {}
  /\ Completing(t) => current[t] = t
  /\ queue[t] <= 1
  /\ queue[t] > 0 => run[t] = "idle" /\ status[t] = "Ready"
  /\ Posted(t) => ins[t] = "inserted"
  /\ ~ Posted(t) => status[t] \in {"Unallocated", "Filling", "Waiting"}
  /\ status[t] = "Filling" <=> Inserting(t)
  /\ status[t] = "Unallocated" <=> ins[t] = "unborn"
  /\ run[t] \in {"body", "mark"} => status[t] = "Running"
  /\ run[t] \in {"load", "walk", "drain", "free"} => status[t] = "Done"
  /\ run[t] \in {"climb", "out"} => status[t] = "Deallocatable"
  /\ ins[t] # "unborn" /\ run[t] \in {"idle", "body"} => nchildren[t] = 1
  /\ ins[t] \in {"wait", "inserted"} /\ ~ Posted(t) => ndependencies[t] # 0

PlacesInv ==
  /\ \A t \in Task : FlatPlace(t)
  /\ \A t, u \in Task : Inserting(t) /\ Inserting(u) => t = u

(***************************************************************************)
(* What the eraser takes out is Deallocatable; no other item is skipped.   *)
(***************************************************************************)
WholeInv ==
  /\ Used \subseteq InWorklist
  /\ \A t \in Gone \cup deletable : status[t] = "Deallocatable"
  /\ \A t \in Listed : before[t] \ Gone \subseteq Reach(next[t])
  /\ Unlinking => before[lastkeep] \ Gone \subseteq deletable \cup Reach(visit)

(***************************************************************************)
(* The task that is being inserted is the newest item.  Its scan may be at *)
(* an item that was unlinked, until the eraser has waited for it.          *)
(***************************************************************************)
ScanInv ==
  \A t \in Task :
     /\ scan[t] \in before[t] \cup {Nil}
     /\ ~ Inserting(t) \/ ins[t] = "wait" => scan[t] = Nil
     /\ Inserting(t) /\ Pushed(t) => worklist = t
     /\ scan[t] \notin freed
     /\ scan[t] \in Sublists =>
           \/ erasing \in {"look", "keep", "cut", "reload"}
           \/ erasing = "wait" /\ visit = t

(***************************************************************************)
(* t is being inserted, and compares its arguments with those of p, or is  *)
(* linked behind p already: p must not release its deps yet.               *)
(***************************************************************************)
Bothers(t, p) ==
  /\ Inserting(t)
  /\ (ins[t] \in {"examine", "flag"} /\ scan[t] = p) \/ LinkedBehind(t, p)

LinksInv ==
  \A p \in Task :
     /\ \A t \in Task : LinkedBehind(t, p) =>
           /\ Pushed(t)
           /\ p \in Visited(t) \/ (p = scan[t] /\ ins[t] = "flag")
     /\ \A i, j \in DOMAIN deps[p] : deps[p][i] = deps[p][j] => i = j
     /\ \A t \in Task : Bothers(t, p) =>
           \/ run[p] \in {"idle", "body", "mark", "load"}
           \/ run[p] = "walk" /\ walk[p] = t
     /\ run[p] \in {"free", "climb", "out"} => deps[p] = <<>>
     /\ args[p] = declared[p] \/ run[p] \in {"climb", "out"}

(***************************************************************************)
(* Who waits in the list waits at an item that was the newest.  If that    *)
(* was unlinked since, the eraser has found the own item of who waits to   *)
(* be Done, or is going to.                                                *)
(***************************************************************************)
StillToPass(t) == Unlinking /\ t \in Reach(visit) /\ (erasing = "cut" => t # visit)

WaitersInv ==
  \A t \in Task : run[t] = "walk" =>
     /\ walk[t] \in Listed \ freed
     /\ t \in Reach(walk[t])
     /\ walk[t] \in Sublists \cup deletable => t \in Dones \/ StillToPass(t)

(***************************************************************************)
(* The hint of the eraser is the item it waited for itself.                *)
(***************************************************************************)
HintInv ==
  /\ hint # Nil => eraser # Nil /\ run[eraser] # "load" /\ hint \in Listed \ freed
  /\ eraser # Nil =>
        /\ run[eraser] \in {"load", "walk", "drain", "free", "climb", "out"}
        /\ run[eraser] = "walk" => hint = walk[eraser]
        /\ run[eraser] \notin {"load", "walk"} /\ hint # Nil => ~ Inserting(hint)
  /\ erasing # "none" => eraser # Nil /\ run[eraser] = "out"
  /\ erasing \in {"none", "reload", "dones"} => visit = Nil
  /\ erasing = "wait" => visit \in Used

FlatInv ==
  PlacesInv /\ WholeInv /\ ScanInv /\ LinksInv /\ CountInv /\ WaitersInv /\ HintInv

-----------------------------------------------------------------------------
(***************************************************************************)
(* The types, as one fact.                                                 *)
(***************************************************************************)
LEMMA Types ==
  ASSUME TypeInv
  PROVE  /\ worklist \in Pointer /\ next \in [Task -> Pointer]
         /\ status \in [Task -> Status] /\ optFlags \in [Task -> SUBSET OptFlags]
         /\ father \in [Task -> Pointer] /\ args \in [Task -> Seq(Region)]
         /\ ndependencies \in [Task -> Int] /\ nchildren \in [Task -> Int]
         /\ deps \in [Task -> Seq(Task)] /\ queue \in [Task -> Nat]
         /\ ins \in [Task -> InsPlace] /\ scan \in [Task -> Pointer]
         /\ ancestor \in [Task -> Pointer] /\ argv \in [Task -> Seq(Region)]
         /\ run \in [Task -> RunPlace] /\ walk \in [Task -> Pointer]
         /\ current \in [Task -> Pointer] /\ idep \in [Task -> Nat]
         /\ declared \in [Task -> Seq(Region)] /\ before \in [Task -> SUBSET Task]
BY DEF TypeInv, TypeOK, ItemTypeOK, ThreadTypeOK

LEMMA FlatStart == ReclaimInit => FlatInv
<1> SUFFICES ASSUME ReclaimInit PROVE FlatInv
  OBVIOUS
<1>1. PlacesInv
  BY DEF ReclaimInit, Init, PlacesInv, FlatPlace, Completing, Posted, Inserting
<1>2. Listed = {} /\ Gone = {} /\ Used = {} /\ deletable = {} /\ ~ Unlinking
  BY DEF ReclaimInit, Init, Listed, Pushed, Gone, Used, Unlinking
<1>3. WholeInv
  BY <1>2 DEF WholeInv
<1>4. ScanInv
  BY NilAssumption DEF ReclaimInit, Init, ScanInv, Inserting
<1>5. \A t, p \in Task : ~ LinkedBehind(t, p)
  BY DEF ReclaimInit, Init, LinkedBehind
<1>6. LinksInv
  BY <1>5 DEF ReclaimInit, Init, LinksInv, Bothers, Inserting
<1>7. CountInv
  <2>1. \A t \in Task : Blockers(t) = {}
    BY DEF ReclaimInit, Init, Blockers
  <2> QED BY <2>1, BlockersFinite DEF ReclaimInit, Init, CountInv, CountExact
<1>8. WaitersInv /\ HintInv
  BY DEF ReclaimInit, Init, WaitersInv, HintInv
<1> QED BY <1>1, <1>3, <1>4, <1>6, <1>7, <1>8 DEF FlatInv

(***************************************************************************)
(* The main thread spawns when it inserts nothing.                         *)
(***************************************************************************)
LEMMA FlatSpawn ==
  ASSUME Flat, TypeInv, PlacesInv,
         NEW f \in Pointer, NEW t \in Task, NEW a \in Uses[t], ReclaimSpawn(f, t, a)
  PROVE  f = Nil /\ ins[t] = "unborn" /\ \A u \in Task : ~ Inserting(u)
<1>1. InUserCode(f) /\ NextSpawn(f, t) /\ ins[t] = "unborn"
  BY DEF ReclaimSpawn
<1>2. f \notin Task
  BY <1>1 DEF NextSpawn, Flat
<1>3. f = Nil
  BY <1>2 DEF Pointer
<1> QED BY <1>1, <1>3 DEF InUserCode, PlacesInv, FlatPlace

(***************************************************************************)
(* What the scan of t is at is older than t, and so is what comes next.    *)
(***************************************************************************)
LEMMA ScanOlder ==
  ASSUME ReclaimInv, ScanInv, NEW t \in Task, scan[t] # Nil
  PROVE  /\ scan[t] \in before[t] \cap Listed /\ scan[t] # t
         /\ Inserting(t) /\ Pushed(t) /\ ins[t] # "wait"
         /\ next[scan[t]] \in before[scan[t]] \cup {Nil}
         /\ before[scan[t]] \subseteq before[t] /\ scan[t] \notin before[scan[t]]
         /\ Reach(next[scan[t]]) \subseteq Reach(scan[t]) \ {scan[t]}
<1>1. scan[t] \in before[t] /\ Inserting(t) /\ ins[t] # "wait"
  BY DEF ScanInv
<1>2. before[t] \subseteq Task
  BY Types DEF ReclaimInv
<1>3. /\ t \in Listed /\ scan[t] \in Listed /\ scan[t] # t
      /\ next[scan[t]] \in before[scan[t]] \cup {Nil}
      /\ before[scan[t]] \subseteq before[t] /\ scan[t] \notin before[scan[t]]
      /\ \A u \in before[scan[t]] : before[u] \subseteq before[scan[t]] /\ scan[t] \notin before[u]
  BY <1>1, <1>2 DEF ReclaimInv, OlderInv, Listed
<1>4. Reach(next[scan[t]]) \subseteq Reach(scan[t]) \ {scan[t]}
  BY <1>3 DEF Reach
<1> QED BY <1>1, <1>3, <1>4 DEF Listed

(***************************************************************************)
(* Nobody who releases or gives back an item is compared with, or linked   *)
(* behind, by a task that is still being inserted.                         *)
(***************************************************************************)
LEMMA FlatLink ==
  ASSUME ReclaimInv, FlatInv, NEW t \in Task, Examine(t)
  PROVE  /\ LinkOK(t) /\ scan[t] \in Task /\ scan[t] # t /\ Bothers(t, scan[t])
         /\ run[scan[t]] \in {"idle", "body", "mark", "load", "walk"}
         /\ args[scan[t]] = declared[scan[t]]
<1>1. ins[t] = "examine"
  BY DEF Examine
<1>2. scan[t] # Nil
  BY <1>1 DEF ReclaimInv, TypeInv, PointersOK
<1>3. scan[t] \in Task /\ scan[t] # t
  BY <1>2, ScanOlder DEF FlatInv, Listed
<1>4. Bothers(t, scan[t])
  BY <1>1 DEF Bothers, Inserting
<1>5. run[scan[t]] \in {"idle", "body", "mark", "load", "walk"}
  BY <1>3, <1>4 DEF FlatInv, LinksInv
<1>6. \A x \in Task : run[x] = "drain" => current[x] = x
  BY DEF FlatInv, PlacesInv, FlatPlace, Completing
<1>7. \A i : ~ Released(scan[t], i)
  BY <1>5, <1>6 DEF Released
<1>8. scan[t] \notin Visited(t)
  BY <1>2 DEF Visited, Reach
<1>9. ~ LinkedBehind(t, scan[t])
  BY <1>1, <1>3, <1>8 DEF FlatInv, LinksInv
<1> QED BY <1>3, <1>4, <1>5, <1>7, <1>9 DEF LinkOK, FlatInv, LinksInv

LEMMA FlatRelease ==
  ASSUME ReclaimInv, FlatInv, NEW t \in Task, Drain(t)
  PROVE  /\ ReleaseOK(t) /\ run[t] = "drain"
         /\ LET w == deps[t][idep[t]]
            IN  ins[w] = "inserted" /\ status[w] = "Waiting" /\ w # t
<1> DEFINE w == deps[t][idep[t]]
<1>t. deps \in [Task -> Seq(Task)] /\ idep \in [Task -> Nat] /\ ins \in [Task -> InsPlace]
  BY Types DEF ReclaimInv
<1>1. run[t] = "drain" /\ idep[t] <= Len(deps[current[t]]) /\ idep[t] >= 1
  BY DEF Drain, ReclaimInv, PushedInv
<1>2. \A x \in Task : run[x] = "drain" => current[x] = x
  BY DEF FlatInv, PlacesInv, FlatPlace, Completing
<1>3. current[t] = t /\ idep[t] \in DOMAIN deps[t] /\ w \in Task
  <2>1. deps[t] \in Seq(Task) /\ idep[t] \in Nat /\ current[t] = t
    BY <1>1, <1>2, <1>t
  <2> QED BY <2>1, <1>1
<1>4. LinkedBehind(w, t)
  BY <1>3 DEF LinkedBehind
<1>5. ~ Released(t, idep[t])
  BY <1>2, <1>t DEF Released
<1>6. t \in Blockers(w)
  BY <1>3, <1>5 DEF Blockers
<1>7. ~ Posted(w)
  BY <1>3, <1>6 DEF FlatInv, CountInv
<1>8. ~ Inserting(w)
  BY <1>1, <1>3, <1>4 DEF FlatInv, LinksInv, Bothers
<1>9. Pushed(w)
  BY <1>3, <1>4 DEF FlatInv, LinksInv
<1>10. ins[w] = "inserted"
  BY <1>8, <1>9 DEF Inserting, Pushed
<1>11. status[w] = "Waiting"
  BY <1>3, <1>7, <1>8, <1>10 DEF FlatInv, PlacesInv, FlatPlace
<1>12. w # t
  BY <1>1, <1>7 DEF Posted
<1>13. \A i \in DOMAIN deps[t] : deps[t][i] = w => i = idep[t]
  BY <1>3 DEF FlatInv, LinksInv
<1> QED BY <1>1, <1>2, <1>3, <1>6, <1>7, <1>10, <1>11, <1>12, <1>13 DEF ReleaseOK

-----------------------------------------------------------------------------
(***************************************************************************)
(* Every step preserves PlacesInv.                                         *)
(***************************************************************************)
placeVars == <<father, ancestor, optFlags, current, queue, run, ins, status, nchildren, ndependencies>>

LEMMA PlacesStep ==
  ASSUME Flat, ReclaimInv, FlatInv, [ReclaimNext]_reclaimVars
  PROVE  PlacesInv'
<1>t. /\ status \in [Task -> Status] /\ optFlags \in [Task -> SUBSET OptFlags]
      /\ father \in [Task -> Pointer]
      /\ ndependencies \in [Task -> Int] /\ nchildren \in [Task -> Int]
      /\ queue \in [Task -> Nat]
      /\ ins \in [Task -> InsPlace] /\ ancestor \in [Task -> Pointer]
      /\ run \in [Task -> RunPlace] /\ current \in [Task -> Pointer]
  BY Types DEF ReclaimInv
<1>p. /\ \A t \in Task : FlatPlace(t)
      /\ \A t, u \in Task : Inserting(t) /\ Inserting(u) => t = u
  BY DEF FlatInv, PlacesInv
<1>same. ASSUME UNCHANGED placeVars PROVE PlacesInv'
  BY <1>same, <1>p DEF PlacesInv, FlatPlace, Posted, Completing, Inserting, placeVars
<1>only. ASSUME NEW t \in Task, FlatPlace(t)', Inserting(t)' => Inserting(t),
                \A u \in Task \ {t} :
                   /\ father'[u] = father[u] /\ ancestor'[u] = ancestor[u]
                   /\ optFlags'[u] = optFlags[u] /\ current'[u] = current[u]
                   /\ queue'[u] = queue[u] /\ run'[u] = run[u] /\ ins'[u] = ins[u]
                   /\ status'[u] = status[u] /\ nchildren'[u] = nchildren[u]
                   /\ ndependencies'[u] = ndependencies[u]
         PROVE  PlacesInv'
  <2>1. \A u \in Task \ {t} : FlatPlace(u)'
    BY <1>p, <1>only DEF FlatPlace, Posted, Completing, Inserting
  <2>2. \A u \in Task : Inserting(u)' => Inserting(u)
    BY <1>only DEF Inserting
  <2> QED BY <2>1, <2>2, <1>only, <1>p DEF PlacesInv
<1>1. ASSUME NEW f \in Pointer, NEW t \in Task, NEW a \in Uses[t], ReclaimSpawn(f, t, a)
      PROVE  PlacesInv'
  <2>1. f = Nil /\ ins[t] = "unborn" /\ \A u \in Task : ~ Inserting(u)
    BY <1>1, FlatSpawn DEF ReclaimInv, FlatInv
  <2>2. /\ ins' = [ins EXCEPT ![t] = "push"] /\ status' = [status EXCEPT ![t] = "Filling"]
        /\ father' = [father EXCEPT ![t] = f] /\ ancestor' = [ancestor EXCEPT ![t] = f]
        /\ nchildren' = [u \in Task |-> IF u = t THEN 1
                                        ELSE IF u = f THEN nchildren[u] + 1
                                        ELSE nchildren[u]]
        /\ UNCHANGED <<optFlags, current, queue, run, ndependencies>>
    BY <1>1 DEF ReclaimSpawn
  <2>3. ~ Posted(t) /\ FlatPlace(t)
    BY <1>p, <2>1 DEF FlatPlace
  <2>4. FlatPlace(t)'
    BY <2>1, <2>2, <2>3, <1>t DEF FlatPlace, Posted, Completing, Inserting
  <2>5. \A u \in Task \ {t} : FlatPlace(u)'
    <3> SUFFICES ASSUME NEW u \in Task \ {t} PROVE FlatPlace(u)'
      OBVIOUS
    <3>1. FlatPlace(u) /\ u # f
      BY <1>p, <2>1, NilAssumption
    <3> QED BY <2>2, <3>1, <1>t DEF FlatPlace, Posted, Completing, Inserting
  <2>6. \A u \in Task : Inserting(u)' => u = t
    BY <2>1, <2>2, <1>t DEF Inserting
  <2> QED BY <2>4, <2>5, <2>6 DEF PlacesInv
<1>2. ASSUME NEW t \in Task, Push(t) \/ ReclaimLook(t) PROVE PlacesInv'
  <2>1. /\ UNCHANGED <<father, ancestor, optFlags, current, queue, run, status, nchildren, ndependencies>>
        /\ ins[t] \in {"push", "scan"} /\ ins'[t] \in {"scan", "examine"}
        /\ \A u \in Task \ {t} : ins'[u] = ins[u]
    BY <1>2, <1>t DEF Push, ReclaimLook, Look, itemVars, runVars, insVars, history
  <2>2. FlatPlace(t)'
    BY <2>1, <1>p DEF FlatPlace, Posted, Completing, Inserting
  <2> QED BY <2>1, <2>2, <1>only DEF Inserting
<1>3. ASSUME NEW t \in Task, SkipAncestor(t) PROVE PlacesInv'
  BY <1>3, <1>p DEF SkipAncestor, FlatPlace
<1>4. ASSUME NEW t \in Task, Examine(t) PROVE PlacesInv'
  <2>1. /\ UNCHANGED <<father, ancestor, optFlags, current, queue, run, status, nchildren>>
        /\ ins[t] = "examine" /\ ins'[t] = "flag"
        /\ \A u \in Task \ {t} : ins'[u] = ins[u] /\ ndependencies'[u] = ndependencies[u]
    BY <1>4, <1>t DEF Examine, runVars
  <2>2. FlatPlace(t)'
    BY <2>1, <1>p DEF FlatPlace, Posted, Completing, Inserting
  <2> QED BY <2>1, <2>2, <1>only DEF Inserting
<1>5. ASSUME NEW t \in Task, Flag(t) PROVE PlacesInv'
  <2>1. ins[t] = "flag"
    BY <1>5 DEF Flag
  <2>2. scan[t] # Nil
    BY <2>1 DEF ReclaimInv, TypeInv, PointersOK
  <2>3. scan[t] \in Task /\ scan[t] # t
    BY <2>2, ScanOlder DEF FlatInv, Listed
  <2>4. status[scan[t]] # "Filling"
    BY <2>1, <2>3, <1>p DEF FlatPlace, Inserting
  <2>5. /\ UNCHANGED <<father, ancestor, optFlags, current, queue, run, status, nchildren, ndependencies>>
        /\ ins'[t] = "scan" /\ \A u \in Task \ {t} : ins'[u] = ins[u]
    BY <1>5, <2>4, <1>t DEF Flag, runVars
  <2>6. FlatPlace(t)'
    BY <2>1, <2>5, <1>p DEF FlatPlace, Posted, Completing, Inserting
  <2> QED BY <2>1, <2>5, <2>6, <1>only DEF Inserting
<1>6. ASSUME NEW t \in Task, Settle(t) PROVE PlacesInv'
  <2>1. /\ UNCHANGED <<father, ancestor, optFlags, current, run, nchildren, ndependencies>>
        /\ ins[t] = "scan"
        /\ \A u \in Task \ {t} : ins'[u] = ins[u] /\ status'[u] = status[u] /\ queue'[u] = queue[u]
    BY <1>6, <1>t DEF Settle, runVars
  <2>2. ~ Posted(t) /\ FlatPlace(t)
    BY <2>1, <1>p DEF FlatPlace
  <2>3. \/ status'[t] = "Ready" /\ queue'[t] = queue[t] + 1 /\ ins'[t] = "inserted"
        \/ /\ ins'[t] = "wait" /\ status'[t] = status[t] /\ queue'[t] = queue[t]
           /\ ndependencies[t] # 0
    BY <1>6, <1>t DEF Settle
  <2>4. FlatPlace(t)'
    BY <2>1, <2>2, <2>3, <1>t DEF FlatPlace, Posted, Completing, Inserting
  <2> QED BY <2>1, <2>4, <1>only DEF Inserting
<1>7. ASSUME NEW t \in Task, SetWaiting(t) PROVE PlacesInv'
  <2>1. /\ UNCHANGED <<father, ancestor, optFlags, current, run, queue, nchildren, ndependencies>>
        /\ ins[t] = "wait" /\ ins'[t] = "inserted" /\ status'[t] = "Waiting"
        /\ \A u \in Task \ {t} : ins'[u] = ins[u] /\ status'[u] = status[u]
    BY <1>7, <1>t DEF SetWaiting, runVars
  <2>2. FlatPlace(t)'
    BY <2>1, <1>p DEF FlatPlace, Posted, Completing, Inserting
  <2> QED BY <2>1, <2>2, <1>only DEF Inserting
<1>8. ASSUME NEW t \in Task, Start(t) PROVE PlacesInv'
  <2>1. /\ UNCHANGED <<father, ancestor, optFlags, current, ins, nchildren, ndependencies>>
        /\ run[t] = "idle" /\ queue[t] > 0 /\ run'[t] = "body" /\ status'[t] = "Running"
        /\ queue'[t] = queue[t] - 1
        /\ \A u \in Task \ {t} : run'[u] = run[u] /\ status'[u] = status[u] /\ queue'[u] = queue[u]
    BY <1>8, <1>t DEF Start, insVars
  <2>2. FlatPlace(t)'
    BY <2>1, <1>p, <1>t DEF FlatPlace, Posted, Completing, Inserting
  <2> QED BY <2>1, <2>2, <1>only DEF Inserting
<1>9. ASSUME NEW t \in Task, EndBody(t) PROVE PlacesInv'
  <2>1. ins[t] # "unborn" /\ run[t] = "body" /\ nchildren[t] = 1
    BY <1>9, <1>p DEF EndBody, FlatPlace, Posted
  <2>2. /\ UNCHANGED <<father, ancestor, optFlags, queue, ins, status, ndependencies>>
        /\ run'[t] = "mark" /\ current'[t] = t
        /\ \A u \in Task \ {t} : run'[u] = run[u] /\ current'[u] = current[u] /\ nchildren'[u] = nchildren[u]
    BY <1>9, <2>1, <1>t DEF EndBody, insVars
  <2>3. FlatPlace(t)'
    BY <2>1, <2>2, <1>p DEF FlatPlace, Posted, Completing, Inserting
  <2> QED BY <2>2, <2>3, <1>only DEF Inserting
<1>10. ASSUME NEW t \in Task, MarkDone(t) \/ LoadHint(t) \/ Walk(t) \/ FreeDeps(t) \/ Release(t) \/ Climb(t)
       PROVE PlacesInv'
  <2>1. Completing(t) /\ current[t] = t /\ father[t] = Nil
    BY <1>10, <1>p DEF MarkDone, LoadHint, Walk, FreeDeps, Release, Climb, Completing, FlatPlace
  <2>2. /\ UNCHANGED <<father, ancestor, optFlags, current, queue, ins, nchildren, ndependencies>>
        /\ \A u \in Task \ {t} : run'[u] = run[u] /\ status'[u] = status[u]
        /\ \/ run[t] = "mark" /\ run'[t] = "load" /\ status'[t] = "Done"
           \/ run[t] = "load" /\ run'[t] = "walk" /\ status'[t] = status[t]
           \/ run[t] = "walk" /\ run'[t] \in {"walk", "drain"} /\ status'[t] = status[t]
           \/ run[t] = "drain" /\ run'[t] = "free" /\ status'[t] = status[t]
           \/ run[t] = "free" /\ run'[t] = "climb" /\ status'[t] = "Deallocatable"
           \/ run[t] = "climb" /\ run'[t] = "out" /\ status'[t] = status[t]
    <3>1. CASE MarkDone(t)
      BY <2>1, <3>1, <1>t DEF MarkDone, insVars
    <3>2. CASE LoadHint(t)
      BY <3>2, <1>t DEF LoadHint, itemVars, insVars
    <3>3. CASE Walk(t)
      BY <3>3, <1>t DEF Walk, itemVars, insVars
    <3>4. CASE FreeDeps(t)
      BY <3>4, <1>t DEF FreeDeps, insVars
    <3>5. CASE Release(t)
      BY <2>1, <3>5, <1>t DEF Release, insVars
    <3>6. CASE Climb(t)
      BY <2>1, <3>6, <1>t DEF Climb, insVars
    <3> QED BY <1>10, <3>1, <3>2, <3>3, <3>4, <3>5, <3>6
  <2>3. FlatPlace(t)'
    BY <2>1, <2>2, <1>p DEF FlatPlace, Posted, Completing, Inserting
  <2> QED BY <2>2, <2>3, <1>only DEF Inserting
<1>11. ASSUME NEW t \in Task, Drain(t) PROVE PlacesInv'
  <2>1. PICK w \in Task : /\ w = deps[t][idep[t]] /\ current[t] = t
                          /\ ins[w] = "inserted" /\ status[w] = "Waiting" /\ ~ Posted(w)
    BY <1>11, FlatRelease DEF ReleaseOK
  <2>2. /\ UNCHANGED <<father, ancestor, optFlags, current, ins, run, nchildren>>
        /\ \A u \in Task \ {w} : /\ status'[u] = status[u] /\ queue'[u] = queue[u]
                                 /\ ndependencies'[u] = ndependencies[u]
        /\ ndependencies'[w] = ndependencies[w] - 1
        /\ \/ ndependencies[w] = 1 /\ status'[w] = "Ready" /\ queue'[w] = queue[w] + 1
           \/ ndependencies[w] # 1 /\ status'[w] = status[w] /\ queue'[w] = queue[w]
    BY <1>11, <2>1, <1>t DEF Drain, insVars
  <2>3. FlatPlace(w) /\ run[w] = "idle" /\ queue[w] = 0 /\ ndependencies[w] # 0
    BY <2>1, <1>p, <1>t DEF FlatPlace, Posted
  <2>4. ndependencies[w] # 1 => ndependencies'[w] # 0
    BY <2>2, <1>t
  <2>5. FlatPlace(w)'
    <3>1. CASE status'[w] = "Ready" /\ queue'[w] = queue[w] + 1
      BY <2>1, <2>2, <2>3, <3>1 DEF FlatPlace, Posted, Completing, Inserting
    <3>2. CASE ndependencies[w] # 1 /\ status'[w] = status[w] /\ queue'[w] = queue[w]
      BY <2>1, <2>2, <2>3, <2>4, <3>2 DEF FlatPlace, Posted, Completing, Inserting
    <3> QED BY <2>2, <3>1, <3>2
  <2> QED BY <2>2, <2>5, <1>only DEF Inserting
<1>12. ASSUME NEW t \in Task, TestErase(t) \/ Claim(t) PROVE PlacesInv'
  BY <1>12, <1>same DEF TestErase, Claim, vars, itemVars, insVars, runVars, placeVars
<1>13. CASE Erase
  BY <1>13, <1>same DEF Erase, BeginErase, LookAt, Keep, Cut, CutTail, Reload, WaitFill, FreeSublists, eraserIdle,
     vars, itemVars, insVars, runVars, placeVars
<1>14. CASE ReclaimWaitForAll \/ UNCHANGED reclaimVars
  BY <1>14, <1>same DEF ReclaimWaitForAll, WaitForAll, reclaimVars, vars, itemVars, insVars, runVars, placeVars
<1> QED
  BY <1>1, <1>2, <1>3, <1>4, <1>5, <1>6, <1>7, <1>8, <1>9, <1>10, <1>11, <1>12, <1>13, <1>14
  DEF ReclaimNext, ReclaimInsert, ReclaimExecute, ReclaimLoadHint

-----------------------------------------------------------------------------
(***************************************************************************)
(* When the pool is idle, all that was inserted has run: the oldest that   *)
(* has not would wait for an older one, which would have released it.      *)
(***************************************************************************)
LEMMA FlatQuiet ==
  ASSUME ReclaimInv, FlatInv, Quiescent
  PROVE  \A t \in Listed : run[t] = "out" /\ status[t] = "Deallocatable"
<1>t. ins \in [Task -> InsPlace] /\ before \in [Task -> SUBSET Task]
  BY Types DEF ReclaimInv
<1>1. \A u \in Task : queue[u] = 0 /\ ~ Inserting(u) /\ run[u] \in {"idle", "out"}
  BY DEF Quiescent
<1>2. \A u \in Listed : u \in Task /\ ins[u] = "inserted"
  BY <1>1 DEF Listed, Pushed, Inserting
<1> DEFINE Idle == { u \in Listed : run[u] = "idle" }
           Age(u) == Cardinality(before[u])
<1>3. Idle = {}
  <2> SUFFICES ASSUME Idle # {} PROVE FALSE
    OBVIOUS
  <2>1. \A u \in Task : IsFiniteSet(before[u]) /\ Age(u) \in Nat
    BY <1>t, TaskAssumption, FS_Subset, FS_CardinalityType
  <2>2. PICK u \in Idle : \A v \in Idle : Age(u) <= Age(v)
    <3>1. { Age(v) : v \in Idle } \in SUBSET Nat /\ { Age(v) : v \in Idle } # {}
      BY <1>2, <2>1
    <3>2. PICK m \in { Age(v) : v \in Idle } : \A n \in { Age(v) : v \in Idle } : m <= n
      BY <3>1, SmallestOf
    <3> QED BY <3>2
  <2>3. u \in Task /\ ins[u] = "inserted" /\ ~ Posted(u) /\ u \in Listed
    BY <1>1, <1>2, <2>2 DEF Posted
  <2>4. Blockers(u) # {}
    <3>1. ndependencies[u] # 0
      BY <2>3 DEF FlatInv, PlacesInv, FlatPlace
    <3> QED BY <2>3, <3>1, FS_EmptySet DEF FlatInv, CountInv, CountExact
  <2>5. PICK p \in Task : LinkedBehind(u, p)
    BY <2>4 DEF Blockers, LinkedBehind
  <2>6. p \in before[u] /\ deps[p] # <<>>
    BY <2>3, <2>5 DEF FlatInv, LinksInv, LinkedBehind, Visited
  <2>7. p \in Listed /\ before[p] \subseteq before[u] /\ p \notin before[p]
    BY <2>3, <2>6 DEF ReclaimInv, OlderInv
  <2>8. Age(p) < Age(u)
    <3>1. before[p] # before[u]
      BY <2>6, <2>7
    <3>2. Age(p) <= Age(u) /\ (Age(p) = Age(u) => before[p] = before[u])
      BY <2>1, <2>3, <2>7, FS_Subset
    <3> QED BY <2>1, <2>3, <3>1, <3>2
  <2>9. p \notin Idle
    BY <2>1, <2>2, <2>3, <2>8
  <2>10. run[p] = "out"
    BY <1>1, <2>7, <2>9
  <2> QED BY <2>6, <2>10 DEF FlatInv, LinksInv
<1>4. \A u \in Listed : run[u] = "out"
  BY <1>1, <1>2, <1>3
<1> QED BY <1>2, <1>4 DEF FlatInv, PlacesInv, FlatPlace

(***************************************************************************)
(* An item that is Done or Deallocatable stays so: the thread that has     *)
(* finished it does not come back to it.                                   *)
(***************************************************************************)
LEMMA StatusStays ==
  ASSUME Flat, ReclaimInv, FlatInv, [ReclaimNext]_reclaimVars, NEW u \in Task
  PROVE  /\ status[u] = "Deallocatable" => status'[u] = "Deallocatable"
         /\ status[u] \in Finished => status'[u] \in Finished
<1> DEFINE Dead(p) == p \in {"climb", "out"}
           Over(p) == p \in {"load", "walk", "drain", "free", "climb", "out"}
           Keeps(p, q) == (Dead(p) => Dead(q)) /\ (Over(p) => Over(q))
<1>t. run \in [Task -> RunPlace] /\ status \in [Task -> Status]
  BY Types DEF ReclaimInv
<1>1. (status[u] = "Deallocatable" => Dead(run[u])) /\ (status[u] \in Finished => Over(run[u]))
  <2>1. FlatPlace(u) /\ run[u] \in RunPlace
    BY <1>t DEF FlatInv, PlacesInv
  <2> QED BY <2>1 DEF FlatPlace, Posted, RunPlace, Finished
<1>2. Keeps(run[u], run'[u])
  <2>1. ASSUME NEW t \in Task,
               Start(t) \/ EndBody(t) \/ MarkDone(t) \/ LoadHint(t) \/ Walk(t) \/ FreeDeps(t) \/ Release(t)
        PROVE  Keeps(run[u], run'[u])
    BY <2>1, <1>t DEF Start, EndBody, MarkDone, LoadHint, Walk, FreeDeps, Release
  <2>2. ASSUME NEW t \in Task, Climb(t) PROVE Keeps(run[u], run'[u])
    <3>1. father[current[t]] = Nil
      BY <2>2 DEF Climb, FlatInv, PlacesInv, FlatPlace, Completing
    <3> QED BY <2>2, <3>1, <1>t DEF Climb
  <2>3. ASSUME NEW t \in Task, ReclaimInsert(t) \/ TestErase(t) \/ Claim(t) \/ Drain(t)
        PROVE  run' = run
    BY <2>3 DEF ReclaimInsert, Push, SkipAncestor, ReclaimLook, Look, Examine, Flag, Settle, SetWaiting,
       TestErase, Claim, Drain, vars, runVars
  <2>4. CASE \E f \in Pointer, t \in Task : \E a \in Uses[t] : ReclaimSpawn(f, t, a)
    BY <2>4 DEF ReclaimSpawn
  <2>5. CASE Erase \/ ReclaimWaitForAll \/ UNCHANGED reclaimVars
    BY <2>5 DEF Erase, BeginErase, LookAt, Keep, Cut, CutTail, Reload, WaitFill, FreeSublists, eraserIdle,
       ReclaimWaitForAll, WaitForAll, reclaimVars, vars, runVars
  <2> QED BY <2>1, <2>2, <2>3, <2>4, <2>5 DEF ReclaimNext, ReclaimExecute, ReclaimLoadHint
<1>3. FlatPlace(u)'
  BY PlacesStep DEF PlacesInv
<1> QED BY <1>1, <1>2, <1>3 DEF FlatPlace, Finished

(***************************************************************************)
(* The steps that leave the list and what was unlinked of it.              *)
(***************************************************************************)
LEMMA ListActions ==
  ASSUME ReclaimInv, [ReclaimNext]_reclaimVars
  PROVE  \/ \E t \in Task : Push(t) /\ UNCHANGED <<eraserVars, freed>>
         \/ Erase \/ ReclaimWaitForAll
         \/ UNCHANGED <<worklist, next, before, Listed, erasing, lastkeep, visit, deletable, Dones, Sublists, freed>>
<1>1. ASSUME NEW t \in Task, Elsewhere(t)
      PROVE  UNCHANGED <<worklist, next, before, Listed>>
  BY <1>1, ListStays DEF ReclaimInv
<1>2. ASSUME NEW t \in Task, ReclaimInsert(t) \/ ReclaimExecute(t)
      PROVE  \/ Push(t) /\ UNCHANGED <<eraserVars, freed>>
             \/ UNCHANGED <<worklist, next, before, Listed, erasing, lastkeep, visit, deletable, Dones, Sublists, freed>>
  <2>1. CASE Push(t) /\ UNCHANGED <<eraserVars, freed>>
    BY <2>1
  <2>2. CASE Elsewhere(t)
    BY <1>1, <1>2, <2>2 DEF ReclaimInsert, ReclaimExecute, ReclaimLoadHint, TestErase, Claim, eraserVars
  <2>3. CASE TestErase(t) \/ Claim(t)
    BY <2>3 DEF TestErase, Claim, vars, itemVars, insVars, history, eraserVars, Listed, Pushed
  <2> QED BY <1>2, <2>1, <2>2, <2>3 DEF ReclaimInsert, ReclaimExecute, ReclaimLoadHint, Elsewhere
<1>3. ASSUME NEW f \in Pointer, NEW t \in Task, NEW a \in Uses[t], ReclaimSpawn(f, t, a)
      PROVE  UNCHANGED <<worklist, next, before, Listed, erasing, lastkeep, visit, deletable, Dones, Sublists, freed>>
  <2>1. ins \in [Task -> InsPlace]
    BY Types DEF ReclaimInv
  <2>2. Listed' = Listed
    BY <1>3, <2>1 DEF ReclaimSpawn, Listed, Pushed
  <2> QED BY <1>3, <2>2 DEF ReclaimSpawn
<1>4. CASE UNCHANGED reclaimVars
  BY <1>4 DEF reclaimVars, vars, itemVars, insVars, history, eraserVars, Listed, Pushed
<1> QED BY <1>2, <1>3, <1>4 DEF ReclaimNext

-----------------------------------------------------------------------------
(***************************************************************************)
(* Every step preserves WholeInv.                                          *)
(***************************************************************************)
LEMMA PushedNow ==
  ASSUME ReclaimInv, NEW t \in Task, Push(t)
  PROVE  /\ t \notin Listed /\ Listed' = Listed \cup {t} /\ worklist' = t
         /\ next'[t] = worklist /\ before'[t] = InWorklist
         /\ scan'[t] = worklist /\ ins'[t] = "scan" /\ ins[t] = "push"
         /\ InWorklist' = InWorklist \cup {t} /\ InWorklist = Reach(worklist)
         /\ InWorklist \subseteq Listed
         /\ \A u \in Task \ {t} : /\ next'[u] = next[u] /\ before'[u] = before[u]
                                  /\ scan'[u] = scan[u] /\ ins'[u] = ins[u]
         /\ \A u \in Listed \cup {Nil} : u # t /\ Reach(u)' = Reach(u)
<1>t. /\ next \in [Task -> Pointer] /\ before \in [Task -> SUBSET Task] /\ worklist \in Pointer
      /\ scan \in [Task -> Pointer] /\ ins \in [Task -> InsPlace]
  BY Types DEF ReclaimInv
<1>1. /\ t \notin Listed /\ worklist' = t /\ next'[t] = worklist /\ before'[t] = InWorklist
      /\ scan'[t] = worklist /\ ins'[t] = "scan" /\ ins[t] = "push"
      /\ \A u \in Task \ {t} : /\ next'[u] = next[u] /\ before'[u] = before[u]
                               /\ scan'[u] = scan[u] /\ ins'[u] = ins[u]
  BY <1>t DEF Push, Listed, Pushed
<1>2. Listed' = Listed \cup {t}
  BY <1>1 DEF Listed, Pushed
<1>3. InWorklist = Reach(worklist)
  BY DEF InWorklist, Reach
<1>4. InWorklist' = InWorklist \cup {t}
  BY <1>1, NilAssumption DEF InWorklist
<1>5. InWorklist \subseteq Listed
  BY <1>t DEF ReclaimInv, OlderInv, InWorklist, Pointer
<1>6. \A u \in Listed \cup {Nil} : u # t /\ Reach(u)' = Reach(u)
  BY <1>1, NilAssumption DEF Reach, Listed
<1> QED BY <1>1, <1>2, <1>3, <1>4, <1>5, <1>6

LEMMA SameWhole ==
  ASSUME WholeInv, \A u \in Task : status[u] = "Deallocatable" => status'[u] = "Deallocatable",
         UNCHANGED <<worklist, next, before, Listed, erasing, lastkeep, visit, deletable, Sublists, freed>>,
         Gone \cup deletable \subseteq Task
  PROVE  WholeInv'
<1>1. UNCHANGED <<Gone, Used, InWorklist, Unlinking>> /\ \A u : Reach(u)' = Reach(u)
  BY DEF Gone, Used, InWorklist, Unlinking, Reach
<1> QED BY <1>1 DEF WholeInv

LEMMA WholeStep ==
  ASSUME Flat, ReclaimInv, FlatInv, [ReclaimNext]_reclaimVars
  PROVE  WholeInv'
<1>t. /\ next \in [Task -> Pointer] /\ before \in [Task -> SUBSET Task] /\ worklist \in Pointer
  BY Types DEF ReclaimInv
<1>g. Gone \cup deletable \subseteq Task /\ Listed \subseteq Task
  BY DEF ReclaimInv, EraserInv, Gone, Listed
<1>d. \A u \in Task : status[u] = "Deallocatable" => status'[u] = "Deallocatable"
  BY StatusStays
<1>w. WholeInv
  BY DEF FlatInv
<1>1. ASSUME NEW t \in Task, Push(t), UNCHANGED <<eraserVars, freed>> PROVE WholeInv'
  <2>1. UNCHANGED <<Gone, Unlinking, deletable, lastkeep, visit>>
    BY <1>1 DEF eraserVars, Gone, Unlinking
  <2>2. Used' = Used \cup ({t} \ Gone)
    BY <1>1, <2>1, PushedNow DEF Used
  <2>3. Used' \subseteq InWorklist'
    BY <1>1, <1>w, <2>2, PushedNow DEF WholeInv
  <2>4. ASSUME NEW u \in Listed PROVE before[u]' \ Gone' \subseteq Reach(next[u])'
    <3>1. next[u] \in Listed \cup {Nil} /\ u \in Task /\ u # t
      BY <1>1, <1>g, PushedNow DEF ReclaimInv, OlderInv
    <3>2. /\ next'[u] = next[u] /\ before'[u] = before[u]
          /\ next[u] # Nil => before'[next[u]] = before[next[u]]
      BY <1>1, <1>g, <3>1, PushedNow
    <3>3. before[u] \ Gone \subseteq Reach(next[u])
      BY <1>w DEF WholeInv
    <3> QED BY <2>1, <3>2, <3>3 DEF Reach
  <2>5. before[t]' \ Gone' \subseteq Reach(next[t])'
    <3>1. worklist \in Listed \cup {Nil}
      BY DEF ReclaimInv, OlderInv
    <3>2. /\ next'[t] = worklist /\ before'[t] = Reach(worklist)
          /\ worklist # Nil => before'[worklist] = before[worklist]
      BY <1>1, <1>g, <3>1, PushedNow
    <3> QED BY <3>2 DEF Reach
  <2>6. Unlinking' => before[lastkeep]' \ Gone' \subseteq deletable' \cup Reach(visit)'
    <3> SUFFICES ASSUME Unlinking PROVE before[lastkeep]' \ Gone' \subseteq deletable' \cup Reach(visit)'
      BY <2>1
    <3>1. lastkeep \in Listed /\ visit \in Listed \cup {Nil}
      BY DEF ReclaimInv, UnlinkInv, Used
    <3>2. /\ before'[lastkeep] = before[lastkeep]
          /\ visit # Nil => before'[visit] = before[visit]
      BY <1>1, <1>g, <3>1, PushedNow
    <3>3. before[lastkeep] \ Gone \subseteq deletable \cup Reach(visit)
      BY <1>w DEF WholeInv
    <3> QED BY <2>1, <3>2, <3>3 DEF Reach
  <2>7. Listed' = Listed \cup {t}
    BY <1>1, PushedNow
  <2>8. \A u \in Listed' : before[u]' \ Gone' \subseteq Reach(next[u])'
    BY <2>4, <2>5, <2>7
  <2>9. \A u \in Gone' \cup deletable' : status'[u] = "Deallocatable"
    BY <2>1, <1>d, <1>g, <1>w DEF WholeInv
  <2> QED BY <2>3, <2>6, <2>8, <2>9 DEF WholeInv
<1>2. ASSUME UNCHANGED <<worklist, next, before, Listed, Sublists, freed, status>>,
             deletable' \ deletable \subseteq { u \in Task : status[u] = "Deallocatable" },
             Unlinking' => before[lastkeep'] \ Gone \subseteq deletable' \cup Reach(visit')
      PROVE  WholeInv'
  <2>1. UNCHANGED <<Gone, Used, InWorklist>> /\ \A u : Reach(u)' = Reach(u)
    BY <1>2 DEF Gone, Used, InWorklist, Reach
  <2> QED BY <2>1, <1>2, <1>w DEF WholeInv
<1>3. ASSUME UNCHANGED vars PROVE UNCHANGED <<worklist, next, before, Listed, status>>
  BY <1>3 DEF vars, itemVars, insVars, history, Listed, Pushed
<1>4. CASE BeginErase
  <2>1. worklist \in Listed /\ deletable = {}
    BY <1>4, NilAssumption DEF BeginErase, ReclaimInv, OlderInv, EraserInv, UnlinkInv, Unlinking
  <2>2. before[worklist] \ Gone \subseteq Reach(next[worklist])
    BY <2>1, <1>w DEF WholeInv
  <2> QED BY <1>2, <1>3, <1>4, <2>1, <2>2 DEF BeginErase, eraserIdle
<1>5. CASE LookAt
  <2>1. Unlinking /\ visit # Nil /\ visit \in Listed
    BY <1>5 DEF LookAt, Unlinking, ReclaimInv, UnlinkInv, Used
  <2>2. Reach(visit) \ Gone \subseteq {visit} \cup Reach(next[visit])
    BY <2>1, <1>w DEF WholeInv, Reach
  <2>3. CASE status[visit] = "Deallocatable"
    <3>1. deletable' = deletable \cup {visit} /\ visit' = next[visit] /\ UNCHANGED <<lastkeep, Sublists, freed, vars>>
      BY <1>5, <2>3 DEF LookAt, eraserIdle
    <3> QED BY <1>2, <1>3, <1>g, <1>w, <2>1, <2>2, <2>3, <3>1 DEF WholeInv
  <2>4. CASE status[visit] # "Deallocatable"
    <3>1. UNCHANGED <<deletable, visit, lastkeep, Sublists, freed, vars>>
      BY <1>5, <2>4 DEF LookAt, eraserIdle
    <3> QED BY <1>2, <1>3, <1>w, <2>1, <3>1 DEF WholeInv
  <2> QED BY <2>3, <2>4
<1>6. CASE Keep
  <2>1. Unlinking /\ UNCHANGED <<deletable, visit, lastkeep, Sublists, freed, vars>>
    BY <1>6 DEF Keep, eraserIdle, Unlinking
  <2> QED BY <1>2, <1>3, <1>w, <2>1 DEF WholeInv
<1>7. CASE Cut
  <2>1. Unlinking /\ visit # Nil /\ erasing = "cut"
    BY <1>7 DEF Cut, Unlinking, ReclaimInv, EraserInv
  <2>2. /\ lastkeep \in Listed /\ visit \in Listed /\ visit \in before[lastkeep]
    BY <2>1 DEF ReclaimInv, UnlinkInv, Used
  <2>3. /\ UNCHANGED <<worklist, before, Listed, status, freed>> /\ lastkeep' = visit /\ visit' = next[visit]
        /\ deletable' = {} /\ Unlinking'
        /\ \/ UNCHANGED <<next, Sublists>>
           \/ next' = [next EXCEPT ![lastkeep] = visit] /\ Sublists' = Sublists \cup deletable
    BY <1>7 DEF Cut, insVars, history, Listed, Pushed, Unlinking
  <2>4. Gone \subseteq Gone' /\ Gone' \subseteq Gone \cup deletable /\ \A u : Reach(u)' = Reach(u)
    BY <2>3 DEF Gone, Reach
  <2>5. Used' \subseteq InWorklist' /\ \A u \in Gone' \cup deletable' : status'[u] = "Deallocatable"
    BY <2>3, <2>4, <1>w DEF WholeInv, Used, InWorklist
  <2>6. before[lastkeep]' \ Gone' \subseteq Reach(visit)'
    BY <2>2, <2>3, <2>4, <1>w DEF WholeInv, Reach
  <2>7. \A u \in Listed : before[u] \ Gone' \subseteq Reach(next'[u])
    <3>1. CASE next' = next
      BY <2>4, <3>1, <1>w DEF WholeInv
    <3>2. CASE next' = [next EXCEPT ![lastkeep] = visit] /\ Sublists' = Sublists \cup deletable
      <4>1. Gone' = Gone \cup deletable
        BY <2>3, <3>2 DEF Gone
      <4>2. before[lastkeep] \ Gone' \subseteq Reach(visit)
        BY <2>1, <4>1, <1>w DEF WholeInv
      <4> QED BY <2>2, <2>4, <3>2, <4>2, <1>t, <1>g, <1>w DEF WholeInv
    <3> QED BY <2>3, <3>1, <3>2
  <2> QED BY <2>3, <2>4, <2>5, <2>6, <2>7 DEF WholeInv
<1>8. CASE CutTail
  <2>1. Unlinking /\ visit = Nil /\ lastkeep \in Listed
    BY <1>8 DEF CutTail, Unlinking, ReclaimInv, UnlinkInv, Used
  <2>2. /\ UNCHANGED <<worklist, before, Listed, status, freed>>
        /\ deletable' = {} /\ ~ Unlinking'
        /\ next' = [next EXCEPT ![lastkeep] = Nil]
        /\ Sublists' = IF next[lastkeep] # Nil THEN Sublists \cup deletable ELSE Sublists
    BY <1>8 DEF CutTail, insVars, history, Listed, Pushed, Unlinking
  <2>4. Gone \subseteq Gone' /\ Gone' \subseteq Gone \cup deletable /\ \A u : Reach(u)' = Reach(u)
    BY <2>2 DEF Gone, Reach
  <2>5. Used' \subseteq InWorklist' /\ \A u \in Gone' \cup deletable' : status'[u] = "Deallocatable"
    BY <2>2, <2>4, <1>w DEF WholeInv, Used, InWorklist
  <2>6. before[lastkeep] \ Gone' = {}
    <3>1. CASE next[lastkeep] # Nil
      BY <2>1, <2>2, <3>1, <1>w DEF WholeInv, Gone, Reach
    <3>2. CASE next[lastkeep] = Nil
      BY <2>1, <2>4, <3>2, <1>w DEF WholeInv, Reach
    <3> QED BY <3>1, <3>2
  <2>7. \A u \in Listed : before[u] \ Gone' \subseteq Reach(next'[u])
    BY <2>2, <2>4, <2>6, <1>t, <1>g, <1>w DEF WholeInv
  <2> QED BY <2>2, <2>4, <2>5, <2>7 DEF WholeInv
<1>9. CASE Reload \/ WaitFill
  <2>1. ~ Unlinking' /\ UNCHANGED <<deletable, Sublists, freed, vars>>
    BY <1>9 DEF Reload, WaitFill, eraserIdle, Unlinking
  <2> QED BY <1>2, <1>3, <2>1
<1>10. CASE FreeSublists
  <2>1. /\ UNCHANGED <<deletable, vars>> /\ freed' = freed \cup Sublists /\ Sublists' = {} /\ ~ Unlinking'
    BY <1>10 DEF FreeSublists, Unlinking
  <2>2. UNCHANGED <<worklist, next, before, Listed, status>>
    BY <1>3, <2>1
  <2>3. Gone' = Gone /\ Used' = Used /\ InWorklist' = InWorklist /\ \A u : Reach(u)' = Reach(u)
    BY <2>1, <2>2 DEF Gone, Used, InWorklist, Reach
  <2> QED BY <2>1, <2>2, <2>3, <1>w DEF WholeInv
<1>11. CASE ReclaimWaitForAll
  <2>1. /\ UNCHANGED <<next, before, Listed, status, Sublists, deletable, erasing>> /\ freed' = Listed
        /\ Quiescent /\ eraser = Nil
    BY <1>11 DEF ReclaimWaitForAll, WaitForAll, Listed, Pushed, itemVars, insVars, history, eraserVars
  <2>2. Sublists = {} /\ ~ Unlinking /\ deletable = {}
    BY <2>1 DEF ReclaimInv, EraserInv, UnlinkInv, Unlinking
  <2>3. Gone' = Listed /\ Used' = {} /\ ~ Unlinking'
    BY <2>1, <2>2 DEF Gone, Used, Unlinking
  <2>4. \A u \in Listed : status[u] = "Deallocatable"
    BY <2>1, FlatQuiet
  <2>5. \A u \in Listed : before[u] \subseteq Listed
    BY <1>g DEF ReclaimInv, OlderInv
  <2> QED BY <2>1, <2>2, <2>3, <2>4, <2>5 DEF WholeInv
<1>12. CASE UNCHANGED <<worklist, next, before, Listed, erasing, lastkeep, visit, deletable, Dones, Sublists, freed>>
  BY <1>12, <1>d, <1>g, <1>w, SameWhole
<1> QED
  BY <1>1, <1>4, <1>5, <1>6, <1>7, <1>8, <1>9, <1>10, <1>11, <1>12, ListActions DEF Erase

-----------------------------------------------------------------------------
(***************************************************************************)
(* Every step preserves ScanInv.                                           *)
(***************************************************************************)
LEMMA SpawnPointers ==
  ASSUME Flat, ReclaimInv, FlatInv,
         NEW f \in Pointer, NEW t \in Task, NEW a \in Uses[t], ReclaimSpawn(f, t, a)
  PROVE  /\ scan' = scan /\ hint' = hint
         /\ \A u \in Task : scan[u] = Nil /\ (run[u] = "walk" => walk'[u] = walk[u])
<1>t. /\ scan \in [Task -> Pointer] /\ walk \in [Task -> Pointer]
      /\ freed \subseteq Task
  BY Types DEF ReclaimInv, EraserInv
<1>1. \A u \in Task : scan[u] = Nil
  BY FlatSpawn DEF ReclaimInv, FlatInv, ScanInv
<1>2. hint \notin freed /\ \A u \in Task : run[u] = "walk" => walk[u] \notin freed
  BY <1>t, NilAssumption DEF FlatInv, HintInv, WaitersInv
<1>3. PICK d \in freed \cup {Nil} :
         /\ scan' = [x \in Task |-> IF d # Nil /\ scan[x] = d THEN t ELSE scan[x]]
         /\ walk' = [x \in Task |-> IF d # Nil /\ walk[x] = d THEN t ELSE walk[x]]
         /\ hint' = IF d # Nil /\ hint = d THEN t ELSE hint
  BY DEF ReclaimSpawn
<1>4. scan' = scan
  BY <1>t, <1>1, <1>3
<1>5. \A u \in Task : run[u] = "walk" => walk'[u] = walk[u]
  BY <1>t, <1>2, <1>3
<1>6. hint' = hint
  BY <1>2, <1>3
<1> QED BY <1>1, <1>4, <1>5, <1>6

LEMMA ScanStep ==
  ASSUME Flat, ReclaimInv, FlatInv, [ReclaimNext]_reclaimVars
  PROVE  ScanInv'
<1>t. /\ scan \in [Task -> Pointer] /\ ins \in [Task -> InsPlace] /\ before \in [Task -> SUBSET Task]
      /\ freed \subseteq Task /\ Sublists \subseteq Task
  BY Types DEF ReclaimInv, EraserInv
<1>s. \A u \in Task :
         /\ scan[u] \in before[u] \cup {Nil}
         /\ ~ Inserting(u) \/ ins[u] = "wait" => scan[u] = Nil
         /\ Inserting(u) /\ Pushed(u) => worklist = u
         /\ scan[u] \notin freed
         /\ scan[u] \in Sublists =>
               \/ erasing \in {"look", "keep", "cut", "reload"}
               \/ erasing = "wait" /\ visit = u
  BY DEF FlatInv, ScanInv
<1>idle. ASSUME UNCHANGED <<before, scan>>, \A u \in Task : scan[u] = Nil,
                freed' \subseteq Task, Sublists' \subseteq Task,
                \A u \in Task : Inserting(u)' /\ Pushed(u)' => worklist' = u
         PROVE  ScanInv'
  BY <1>idle, <1>t, NilAssumption DEF ScanInv
<1>at. ASSUME UNCHANGED <<worklist, before, scan, ins>>,
              \A u \in Task : /\ scan[u] \notin freed'
                              /\ scan[u] \in Sublists' =>
                                    \/ erasing' \in {"look", "keep", "cut", "reload"}
                                    \/ erasing' = "wait" /\ visit' = u
       PROVE  ScanInv'
  BY <1>at, <1>s DEF ScanInv, Inserting, Pushed
<1>1. ASSUME NEW f \in Pointer, NEW t \in Task, NEW a \in Uses[t], ReclaimSpawn(f, t, a)
      PROVE  ScanInv'
  <2>1. UNCHANGED <<before, freed, Sublists>> /\ ins' = [ins EXCEPT ![t] = "push"]
    BY <1>1 DEF ReclaimSpawn
  <2>2. \A u \in Task : ~ Inserting(u)
    BY <1>1, FlatSpawn DEF ReclaimInv, FlatInv
  <2>3. \A u \in Task : ~ (Inserting(u)' /\ Pushed(u)')
    BY <2>1, <2>2, <1>t DEF Inserting, Pushed
  <2> QED BY <1>1, <2>1, <2>3, <1>t, <1>idle, SpawnPointers
<1>2. ASSUME NEW t \in Task, Push(t), UNCHANGED <<eraserVars, freed>> PROVE ScanInv'
  <2>1. \A u \in Task \ {t} : ~ Inserting(u)
    BY <1>2 DEF Push, Inserting, FlatInv, PlacesInv
  <2>2. \A u \in Task \ {t} : ~ Inserting(u)' /\ scan'[u] = Nil /\ before'[u] = before[u]
    BY <1>2, <1>s, <2>1, PushedNow DEF Inserting
  <2>3. /\ scan'[t] \in before'[t] \cup {Nil} /\ scan'[t] \notin Gone
        /\ worklist' = t /\ ins'[t] = "scan" /\ Gone' = Gone
    BY <1>2, PushedNow DEF ReclaimInv, ChainInv, Reach, eraserVars, Gone
  <2>4. UNCHANGED <<freed, Sublists>>
    BY <1>2 DEF eraserVars
  <2> QED BY <2>2, <2>3, <2>4, <1>t, NilAssumption DEF ScanInv, Inserting, Gone
<1>3. ASSUME NEW t \in Task, Elsewhere(t), UNCHANGED <<erasing, visit, Sublists, freed>>
      PROVE  ScanInv'
  <2>l. UNCHANGED <<worklist, before>>
    BY <1>3, ListStays DEF ReclaimInv
  <2>1. ASSUME \/ UNCHANGED scan
               \/ scan[t] # Nil /\ scan' = [scan EXCEPT ![t] = next[scan[t]]],
               \A u \in Task \ {t} : ins'[u] = ins[u],
               Inserting(t)' => Inserting(t), Pushed(t)' => Pushed(t),
               ~ Inserting(t)' \/ ins'[t] = "wait" => scan'[t] = Nil
        PROVE  ScanInv'
    <3>1. \A u \in Task \ {t} : scan'[u] = scan[u]
      BY <1>t, <2>1
    <3>2. ASSUME scan'[t] # scan[t]
          PROVE  /\ scan'[t] \in before[t] \cup {Nil} /\ scan'[t] \notin freed
                 /\ scan'[t] \in Sublists => scan[t] \in Sublists
      <4>1. scan[t] # Nil /\ scan'[t] = next[scan[t]]
        BY <1>t, <2>1, <3>2
      <4>2. /\ scan[t] \in Listed /\ next[scan[t]] \in before[t] \cup {Nil}
        BY <4>1, ScanOlder DEF FlatInv
      <4>3. scan[t] \in Task \ freed
        BY <1>s, <4>2 DEF Listed
      <4>4. next[scan[t]] \notin freed /\ (next[scan[t]] \in Sublists => scan[t] \in Sublists)
        BY <4>2, <4>3 DEF ReclaimInv, ChainInv, Used, Gone
      <4> QED BY <4>1, <4>2, <4>4
    <3>3. /\ scan'[t] \in before[t] \cup {Nil} /\ scan'[t] \notin freed
          /\ scan'[t] \in Sublists => scan[t] \in Sublists
      BY <1>s, <3>2
    <3> QED BY <1>3, <1>s, <2>l, <2>1, <3>1, <3>3 DEF ScanInv, Inserting, Pushed
  <2>2. CASE ReclaimLook(t) \/ Flag(t)
    <3>1. ins[t] \in {"scan", "flag"} /\ scan[t] # Nil
      BY <2>2, NilAssumption DEF ReclaimLook, Look, Flag, ReclaimInv, TypeInv, PointersOK
    <3>2. scan[t] # t
      BY <3>1, ScanOlder DEF FlatInv
    <3>3. CASE Flag(t)
      <4>1. scan' = [scan EXCEPT ![t] = next[scan[t]]] /\ ins' = [ins EXCEPT ![t] = "scan"]
        BY <3>3 DEF Flag
      <4> QED BY <1>t, <2>1, <3>1, <4>1 DEF Inserting, Pushed
    <3>4. CASE Look(t) /\ status[scan[t]] \in Active
      <4>1. scan' = scan /\ ins' = [ins EXCEPT ![t] = "examine"]
        BY <3>4 DEF Look
      <4> QED BY <1>t, <2>1, <3>1, <3>4, <4>1 DEF Inserting, Pushed, Look
    <3>5. CASE Look(t) /\ status[scan[t]] \notin Active
      <4>1. ins[t] = "scan" /\ scan' = [scan EXCEPT ![t] = next[scan[t]]] /\ ins' = ins
        BY <3>5 DEF Look
      <4> QED BY <1>t, <2>1, <3>1, <4>1 DEF Inserting, Pushed
    <3> QED BY <2>2, <3>2, <3>3, <3>4, <3>5 DEF ReclaimLook
  <2>3. CASE SkipAncestor(t)
    BY <2>3 DEF SkipAncestor, FlatInv, PlacesInv, FlatPlace
  <2>4. CASE Examine(t)
    <3>1. ins[t] = "examine" /\ scan' = scan /\ ins' = [ins EXCEPT ![t] = "flag"]
      BY <2>4 DEF Examine
    <3> QED BY <1>t, <2>1, <3>1 DEF Inserting, Pushed
  <2>5. CASE Settle(t) \/ SetWaiting(t)
    <3>1. scan[t] = Nil /\ scan' = scan /\ Inserting(t) /\ Pushed(t) /\ \A u \in Task \ {t} : ins'[u] = ins[u]
      BY <2>5, <1>t, <1>s DEF Settle, SetWaiting, Inserting, Pushed
    <3> QED BY <2>1, <3>1
  <2>6. CASE Start(t) \/ EndBody(t) \/ MarkDone(t) \/ LoadHint(t) \/ Walk(t) \/ Drain(t) \/ FreeDeps(t)
             \/ Release(t) \/ Climb(t)
    <3>1. UNCHANGED <<scan, ins>>
      BY <2>6 DEF Start, EndBody, MarkDone, LoadHint, Walk, Drain, FreeDeps, Release, Climb, insVars
    <3> QED BY <1>3, <1>s, <1>at, <2>l, <3>1
  <2> QED BY <1>3, <2>2, <2>3, <2>4, <2>5, <2>6 DEF Elsewhere
<1>4. ASSUME NEW t \in Task, ReclaimInsert(t) \/ ReclaimExecute(t) PROVE ScanInv'
  <2>1. CASE Push(t) /\ UNCHANGED <<eraserVars, freed>>
    BY <2>1, <1>2
  <2>2. CASE Elsewhere(t)
    <3>1. UNCHANGED <<erasing, visit, Sublists, freed>>
      BY <1>4, <2>2 DEF ReclaimInsert, ReclaimExecute, ReclaimLoadHint, TestErase, Claim, eraserVars
    <3> QED BY <2>2, <3>1, <1>3
  <2>3. CASE TestErase(t) \/ Claim(t)
    <3>1. UNCHANGED <<worklist, before, scan, ins, freed, Sublists, erasing, visit>>
      BY <2>3 DEF TestErase, Claim, vars, itemVars, insVars, history, eraserVars
    <3> QED BY <1>at, <1>s, <3>1
  <2> QED BY <1>4, <2>1, <2>2, <2>3 DEF ReclaimInsert, ReclaimExecute, ReclaimLoadHint, Elsewhere
<1>5. CASE Erase
  <2>0. UNCHANGED <<worklist, before, scan, ins>>
    BY <1>5 DEF Erase, BeginErase, LookAt, Keep, Cut, CutTail, Reload, WaitFill, FreeSublists, eraserIdle,
       vars, itemVars, insVars, history
  <2>1. CASE BeginErase \/ LookAt \/ Keep \/ Cut \/ CutTail
    <3>1. erasing' \in {"look", "keep", "cut", "reload"} /\ freed' = freed
      BY <2>1 DEF BeginErase, LookAt, Keep, Cut, CutTail, eraserIdle
    <3> QED BY <2>0, <3>1, <1>at, <1>s
  <2>2. CASE Reload
    <3>1. UNCHANGED <<freed, Sublists>> /\ erasing' = "wait" /\ visit' = worklist
      BY <2>2 DEF Reload
    <3>2. \A u \in Task : scan[u] \in Sublists => worklist = u
      BY <1>t, <1>s, NilAssumption, ScanOlder DEF FlatInv
    <3> QED BY <2>0, <3>1, <3>2, <1>at, <1>s
  <2>3. CASE WaitFill
    <3>1. UNCHANGED <<freed, Sublists>> /\ erasing = "wait" /\ (visit # hint => status[visit] # "Filling")
      BY <2>3 DEF WaitFill
    <3>2. \A u \in Task : scan[u] \notin Sublists
      <4> SUFFICES ASSUME NEW u \in Task, scan[u] \in Sublists PROVE FALSE
        OBVIOUS
      <4>1. visit = u /\ Inserting(u)
        BY <1>s, <1>t, <3>1, NilAssumption
      <4>2. status[u] = "Filling"
        BY <4>1 DEF FlatInv, PlacesInv, FlatPlace
      <4>3. hint = u /\ hint # Nil
        BY <3>1, <4>1, <4>2, NilAssumption
      <4>4. eraser # Nil /\ run[eraser] = "out"
        BY <3>1 DEF FlatInv, HintInv
      <4> QED BY <4>1, <4>3, <4>4 DEF FlatInv, HintInv
    <3> QED BY <2>0, <3>1, <3>2, <1>at, <1>s
  <2>4. CASE FreeSublists
    <3>1. freed' = freed \cup Sublists /\ Sublists' = {} /\ erasing = "dones"
      BY <2>4 DEF FreeSublists
    <3> QED BY <2>0, <3>1, <1>at, <1>s
  <2> QED BY <1>5, <2>1, <2>2, <2>3, <2>4 DEF Erase
<1>6. CASE ReclaimWaitForAll
  <2>1. UNCHANGED <<before, scan, ins, Sublists>> /\ Quiescent /\ freed' \subseteq Task
    BY <1>6 DEF ReclaimWaitForAll, WaitForAll, insVars, history, eraserVars
  <2>2. \A u \in Task : ~ Inserting(u) /\ ~ Inserting(u)'
    BY <2>1 DEF Quiescent, Inserting
  <2> QED BY <2>1, <2>2, <1>s, <1>t, <1>idle
<1>7. CASE UNCHANGED reclaimVars
  <2>1. UNCHANGED <<worklist, before, scan, ins, freed, Sublists, erasing, visit>>
    BY <1>7 DEF reclaimVars, vars, itemVars, insVars, history, eraserVars
  <2> QED BY <1>at, <1>s, <2>1
<1> QED BY <1>1, <1>4, <1>5, <1>6, <1>7 DEF ReclaimNext

-----------------------------------------------------------------------------
(***************************************************************************)
(* Every step preserves LinksInv.                                          *)
(***************************************************************************)
linkVars == <<before, ins, scan, deps, run, walk, args, declared>>

LEMMA SameLinks == LinksInv /\ UNCHANGED linkVars => LinksInv'
<1> SUFFICES ASSUME LinksInv, UNCHANGED linkVars PROVE LinksInv'
  OBVIOUS
<1>1. \A t \in Task : Visited(t)' = Visited(t) /\ Inserting(t)' = Inserting(t) /\ Pushed(t)' = Pushed(t)
  BY DEF linkVars, Visited, Reach, Inserting, Pushed
<1>2. \A t, p \in Task : LinkedBehind(t, p)' = LinkedBehind(t, p)
  BY DEF linkVars, LinkedBehind
<1>3. \A t, p \in Task : Bothers(t, p)' = Bothers(t, p)
  BY <1>1, <1>2 DEF Bothers, linkVars
<1> QED BY <1>1, <1>2, <1>3 DEF LinksInv, linkVars

(***************************************************************************)
(* The scan of t goes on, or ends.                                         *)
(***************************************************************************)
LEMMA ScanLinks ==
  ASSUME LinksInv, NEW t \in Task, UNCHANGED <<before, deps, run, walk, args, declared>>,
         \A u \in Task \ {t} : scan'[u] = scan[u] /\ ins'[u] = ins[u],
         Pushed(t)', Visited(t) \subseteq Visited(t)',
         ins[t] = "flag" /\ scan[t] # Nil => scan[t] \in Visited(t)',
         \A p \in Task : Bothers(t, p)' => Bothers(t, p) \/ run[p] \in {"idle", "body", "mark", "load"}
  PROVE  LinksInv'
<1>1. \A u \in Task \ {t} : Visited(u)' = Visited(u) /\ Inserting(u)' = Inserting(u) /\ Pushed(u)' = Pushed(u)
  BY DEF Visited, Reach, Inserting, Pushed
<1>2. \A u, p \in Task : LinkedBehind(u, p)' = LinkedBehind(u, p)
  BY DEF LinkedBehind
<1>3. ASSUME NEW u \in Task, NEW p \in Task, LinkedBehind(u, p)'
      PROVE  Pushed(u)' /\ (p \in Visited(u)' \/ (p = scan'[u] /\ ins'[u] = "flag"))
  <2>1. Pushed(u) /\ (p \in Visited(u) \/ (p = scan[u] /\ ins[u] = "flag"))
    BY <1>2, <1>3 DEF LinksInv
  <2>2. CASE u = t
    BY <2>1, <2>2, NilAssumption
  <2>3. CASE u # t
    BY <2>1, <2>3, <1>1
  <2> QED BY <2>2, <2>3
<1>4. ASSUME NEW u \in Task, NEW p \in Task, Bothers(u, p)'
      PROVE  \/ run'[p] \in {"idle", "body", "mark", "load"}
             \/ run'[p] = "walk" /\ walk'[p] = u
  <2>1. Bothers(u, p) \/ run[p] \in {"idle", "body", "mark", "load"}
    BY <1>1, <1>2, <1>4 DEF Bothers
  <2> QED BY <2>1 DEF LinksInv
<1> QED BY <1>3, <1>4 DEF LinksInv

(***************************************************************************)
(* The thread of t goes on.                                                *)
(***************************************************************************)
LEMMA RunLinks ==
  ASSUME LinksInv, NEW t \in Task, UNCHANGED <<before, ins, scan, declared>>,
         \A p \in Task \ {t} : /\ deps'[p] = deps[p] /\ run'[p] = run[p]
                               /\ walk'[p] = walk[p] /\ args'[p] = args[p],
         deps'[t] = deps[t] \/ deps'[t] = <<>>,
         \A u \in Task : Bothers(u, t) => \/ run'[t] \in {"idle", "body", "mark", "load"}
                                          \/ run'[t] = "walk" /\ walk'[t] = u,
         run'[t] \in {"free", "climb", "out"} => deps'[t] = <<>>,
         args'[t] = declared[t] \/ run'[t] \in {"climb", "out"}
  PROVE  LinksInv'
<1>1. \A u \in Task : Visited(u)' = Visited(u) /\ Inserting(u)' = Inserting(u) /\ Pushed(u)' = Pushed(u)
  BY DEF Visited, Reach, Inserting, Pushed
<1>2. \A u, p \in Task : LinkedBehind(u, p)' => LinkedBehind(u, p)
  BY DEF LinkedBehind
<1>3. \A u, p \in Task : Bothers(u, p)' => Bothers(u, p)
  BY <1>1, <1>2 DEF Bothers
<1>4. \A p \in Task : \A i, j \in DOMAIN deps'[p] : deps'[p][i] = deps'[p][j] => i = j
  BY DEF LinksInv
<1>5. \A u, p \in Task : LinkedBehind(u, p)' =>
         Pushed(u)' /\ (p \in Visited(u)' \/ (p = scan'[u] /\ ins'[u] = "flag"))
  BY <1>1, <1>2 DEF LinksInv
<1>6. \A u, p \in Task : Bothers(u, p)' =>
         \/ run'[p] \in {"idle", "body", "mark", "load"}
         \/ run'[p] = "walk" /\ walk'[p] = u
  BY <1>3 DEF LinksInv
<1>7. \A p \in Task : /\ run'[p] \in {"free", "climb", "out"} => deps'[p] = <<>>
                      /\ args'[p] = declared'[p] \/ run'[p] \in {"climb", "out"}
  BY DEF LinksInv
<1> QED BY <1>4, <1>5, <1>6, <1>7 DEF LinksInv

LEMMA ExamineLinks ==
  ASSUME ReclaimInv, FlatInv, NEW t \in Task, Examine(t)
  PROVE  LinksInv'
<1> DEFINE q == scan[t]
<1>t. ins \in [Task -> InsPlace] /\ deps \in [Task -> Seq(Task)]
  BY Types DEF ReclaimInv
<1>f. /\ q \in Task /\ ~ LinkedBehind(t, q) /\ Bothers(t, q)
      /\ run[q] \notin {"free", "climb", "out"}
  BY FlatLink DEF LinkOK
<1>i. LinksInv
  BY DEF FlatInv
<1>1. /\ ins[t] = "examine" /\ ins' = [ins EXCEPT ![t] = "flag"]
      /\ UNCHANGED <<before, scan, run, walk, args, declared>>
      /\ deps' = deps \/ deps' = [deps EXCEPT ![q] = Append(@, t)]
  BY DEF Examine, runVars, history
<1> HIDE DEF q
<1>2. \A u \in Task : /\ Visited(u)' = Visited(u) /\ (Inserting(u)' <=> Inserting(u)) /\ (Pushed(u)' <=> Pushed(u))
                      /\ u # t => ins'[u] = ins[u]
  BY <1>1, <1>t DEF Visited, Reach, Inserting, Pushed
<1>3. /\ \A p \in Task \ {q} : deps'[p] = deps[p]
      /\ deps'[q] = deps[q] \/ deps'[q] = Append(deps[q], t)
  BY <1>1, <1>t, <1>f
<1>4. /\ DOMAIN Append(deps[q], t) = DOMAIN deps[q] \cup {Len(deps[q]) + 1}
      /\ Append(deps[q], t)[Len(deps[q]) + 1] = t
      /\ \A i \in DOMAIN deps[q] : Append(deps[q], t)[i] = deps[q][i]
  <2>1. deps[q] \in Seq(Task)
    BY <1>t, <1>f
  <2> QED BY <2>1
<1>5. \A u, p \in Task : LinkedBehind(u, p)' => LinkedBehind(u, p) \/ (u = t /\ p = q)
  BY <1>3, <1>4 DEF LinkedBehind
<1>6. ASSUME NEW p \in Task, NEW i \in DOMAIN deps'[p], NEW j \in DOMAIN deps'[p], deps'[p][i] = deps'[p][j]
      PROVE  i = j
  <2>1. CASE deps'[p] = deps[p]
    BY <1>i, <1>6, <2>1 DEF LinksInv
  <2>2. CASE p = q /\ deps'[q] = Append(deps[q], t)
    <3>1. \A k \in DOMAIN deps[q] : deps[q][k] # t
      BY <1>f DEF LinkedBehind
    <3> QED BY <1>i, <1>f, <1>4, <1>6, <2>2, <3>1 DEF LinksInv
  <2> QED BY <1>3, <2>1, <2>2
<1>7. ASSUME NEW u \in Task, NEW p \in Task, LinkedBehind(u, p)'
      PROVE  Pushed(u)' /\ (p \in Visited(u)' \/ (p = scan'[u] /\ ins'[u] = "flag"))
  <2>1. CASE u = t /\ p = q
    BY <1>1, <1>2, <1>t, <2>1 DEF Pushed, q
  <2>2. CASE LinkedBehind(u, p)
    BY <1>1, <1>2, <1>i, <2>2 DEF LinksInv
  <2> QED BY <1>5, <1>7, <2>1, <2>2
<1>8. \A u, p \in Task : Bothers(u, p)' => Bothers(u, p)
  <2> SUFFICES ASSUME NEW u \in Task, NEW p \in Task, Bothers(u, p)' PROVE Bothers(u, p)
    OBVIOUS
  <2>1. CASE u = t /\ p = q
    BY <1>f, <2>1
  <2>2. CASE ~ (u = t /\ p = q)
    BY <1>1, <1>2, <1>5, <2>2 DEF Bothers, q
  <2> QED BY <2>1, <2>2
<1>9. \A u, p \in Task : Bothers(u, p)' => \/ run'[p] \in {"idle", "body", "mark", "load"}
                                           \/ run'[p] = "walk" /\ walk'[p] = u
  BY <1>1, <1>8, <1>i DEF LinksInv
<1>10. \A p \in Task : /\ run'[p] \in {"free", "climb", "out"} => deps'[p] = <<>>
                       /\ args'[p] = declared'[p] \/ run'[p] \in {"climb", "out"}
  BY <1>1, <1>3, <1>f, <1>i DEF LinksInv
<1> QED BY <1>6, <1>7, <1>9, <1>10 DEF LinksInv

LEMMA LinksStep ==
  ASSUME Flat, ReclaimInv, FlatInv, [ReclaimNext]_reclaimVars
  PROVE  LinksInv'
<1>t. /\ scan \in [Task -> Pointer] /\ ins \in [Task -> InsPlace] /\ before \in [Task -> SUBSET Task]
      /\ deps \in [Task -> Seq(Task)] /\ run \in [Task -> RunPlace] /\ walk \in [Task -> Pointer]
      /\ args \in [Task -> Seq(Region)] /\ declared \in [Task -> Seq(Region)]
  BY Types DEF ReclaimInv
<1>i. LinksInv
  BY DEF FlatInv
<1>p. /\ \A t \in Task : FlatPlace(t)
      /\ \A t, u \in Task : Inserting(t) /\ Inserting(u) => t = u
  BY DEF FlatInv, PlacesInv
<1>b. \A u, p \in Task : Bothers(u, p) => Inserting(u) /\ Pushed(u) /\ worklist = u
  BY <1>i, ScanOlder DEF Bothers, LinksInv, FlatInv, ScanInv, Pushed
<1>1. ASSUME NEW f \in Pointer, NEW t \in Task, NEW a \in Uses[t], ReclaimSpawn(f, t, a)
      PROVE  LinksInv'
  <2>1. /\ UNCHANGED <<before, deps, run, scan>> /\ ins' = [ins EXCEPT ![t] = "push"]
        /\ args' = [args EXCEPT ![t] = a] /\ declared' = [declared EXCEPT ![t] = a]
    BY <1>1, SpawnPointers DEF ReclaimSpawn
  <2>2. ins[t] = "unborn" /\ \A u \in Task : ~ Inserting(u)
    BY <1>1, FlatSpawn DEF ReclaimInv, FlatInv
  <2>3. \A u, p \in Task : LinkedBehind(u, p)' = LinkedBehind(u, p)
    BY <2>1 DEF LinkedBehind
  <2>4. \A u, p \in Task : LinkedBehind(u, p) => u # t /\ Pushed(u) /\ p \in Visited(u)
    BY <2>2, <1>i DEF LinksInv, Pushed, Inserting
  <2>5. \A u \in Task \ {t} : ins'[u] = ins[u] /\ Visited(u)' = Visited(u) /\ (Pushed(u)' <=> Pushed(u))
    BY <2>1, <1>t DEF Visited, Reach, Pushed
  <2>6. \A u, p \in Task : ~ Bothers(u, p)'
    <3> SUFFICES ASSUME NEW u \in Task, NEW p \in Task, Bothers(u, p)' PROVE FALSE
      OBVIOUS
    <3>1. CASE u = t
      BY <1>t, <2>1, <2>3, <2>4, <3>1 DEF Bothers
    <3>2. CASE u # t
      BY <2>2, <2>5, <3>2 DEF Bothers, Inserting
    <3> QED BY <3>1, <3>2
  <2>7. \A p \in Task : /\ run'[p] \in {"free", "climb", "out"} => deps'[p] = <<>>
                        /\ args'[p] = declared'[p] \/ run'[p] \in {"climb", "out"}
                        /\ \A i, j \in DOMAIN deps'[p] : deps'[p][i] = deps'[p][j] => i = j
    BY <1>t, <1>i, <2>1 DEF LinksInv
  <2> QED BY <2>3, <2>4, <2>5, <2>6, <2>7 DEF LinksInv
<1>2. ASSUME NEW t \in Task, Push(t) PROVE LinksInv'
  <2>1. UNCHANGED <<deps, run, walk, args, declared>>
    BY <1>2 DEF Push, runVars
  <2>2. \A u, p \in Task : LinkedBehind(u, p)' = LinkedBehind(u, p)
    BY <2>1 DEF LinkedBehind
  <2>3. ~ Pushed(t) /\ Inserting(t) /\ ins'[t] = "scan" /\ \A u \in Task \ {t} : ins'[u] = ins[u]
    BY <1>2, PushedNow DEF Pushed, Inserting
  <2>4. ASSUME NEW u \in Task, NEW p \in Task, LinkedBehind(u, p)
        PROVE  Pushed(u)' /\ (p \in Visited(u)' \/ (p = scan'[u] /\ ins'[u] = "flag"))
    <3>1. u # t /\ Pushed(u) /\ (p \in Visited(u) \/ (p = scan[u] /\ ins[u] = "flag"))
      BY <2>3, <2>4, <1>i DEF LinksInv
    <3>2. scan[u] \in Listed \cup {Nil}
      BY ScanOlder DEF FlatInv
    <3>3. scan'[u] = scan[u] /\ before'[u] = before[u] /\ Reach(scan[u])' = Reach(scan[u]) /\ ins'[u] = ins[u]
      <4>1. scan'[u] = scan[u] /\ before'[u] = before[u] /\ ins'[u] = ins[u]
        BY <1>2, <3>1, PushedNow
      <4>2. scan[u] # Nil => before'[scan[u]] = before[scan[u]]
        BY <1>2, <3>2, PushedNow DEF Listed
      <4> QED BY <4>1, <4>2 DEF Reach
    <3> QED BY <3>1, <3>3 DEF Visited, Pushed
  <2>5. \A u, p \in Task : ~ Bothers(u, p)'
    <3> SUFFICES ASSUME NEW u \in Task, NEW p \in Task, Bothers(u, p)' PROVE FALSE
      OBVIOUS
    <3>1. u = t
      BY <1>p, <2>3 DEF Bothers, Inserting
    <3> QED BY <2>2, <2>3, <3>1, <1>i DEF Bothers, LinksInv
  <2> QED BY <1>i, <2>1, <2>2, <2>4, <2>5 DEF LinksInv
<1>3. ASSUME NEW t \in Task, ReclaimLook(t) \/ Flag(t) \/ Settle(t) \/ SetWaiting(t) PROVE LinksInv'
  <2>1. /\ UNCHANGED <<before, deps, run, walk, args, declared>>
        /\ ins[t] \in {"scan", "flag", "wait"} /\ ins'[t] \in {"scan", "examine", "wait", "inserted"}
        /\ \A u \in Task \ {t} : scan'[u] = scan[u] /\ ins'[u] = ins[u]
        /\ ReclaimLook(t) \/ Flag(t) => scan[t] # Nil
        /\ Settle(t) \/ SetWaiting(t) => ins'[t] # "examine"
    BY <1>3, <1>t, NilAssumption DEF ReclaimLook, Look, Flag, Settle, SetWaiting, itemVars, runVars, history,
       ReclaimInv, TypeInv, PointersOK
  <2>2. \/ scan'[t] = scan[t] /\ ins[t] # "flag"
        \/ scan[t] # Nil /\ scan'[t] = next[scan[t]] /\ ins'[t] = "scan"
    BY <1>3, <1>t, <2>1 DEF ReclaimLook, Look, Flag, Settle, SetWaiting
  <2>3. Visited(t) \subseteq Visited(t)' /\ (ins[t] = "flag" /\ scan[t] # Nil => scan[t] \in Visited(t)')
    <3>1. CASE scan'[t] = scan[t] /\ ins[t] # "flag"
      BY <2>1, <3>1 DEF Visited, Reach
    <3>2. CASE scan[t] # Nil /\ scan'[t] = next[scan[t]]
      <4>1. Reach(next[scan[t]]) \subseteq Reach(scan[t]) \ {scan[t]} /\ scan[t] \in before[t]
        BY <3>2, ScanOlder DEF FlatInv
      <4>2. Visited(t)' = before[t] \ Reach(next[scan[t]])
        BY <2>1, <3>2 DEF Visited, Reach
      <4> QED BY <4>1, <4>2 DEF Visited
    <3> QED BY <2>2, <3>1, <3>2
  <2>4. ASSUME NEW p \in Task, Bothers(t, p)'
        PROVE  Bothers(t, p) \/ run[p] \in {"idle", "body", "mark", "load"}
    <3>1. CASE LinkedBehind(t, p)
      BY <2>1, <3>1 DEF Bothers, Inserting
    <3>2. CASE ~ LinkedBehind(t, p)
      <4>1. ins'[t] = "examine" /\ scan'[t] = p
        BY <2>1, <2>4, <3>2 DEF Bothers, LinkedBehind
      <4>2. Look(t) /\ scan[t] # t
        BY <1>3, <1>t, <2>1, <4>1, ScanOlder DEF FlatInv, ReclaimLook, Flag, Settle, SetWaiting
      <4>3. status[p] \in Active
        BY <1>t, <4>1, <4>2 DEF Look
      <4> QED BY <4>3, <1>p, <1>t DEF FlatPlace, Active, Finished, RunPlace
    <3> QED BY <3>1, <3>2
  <2>5. Pushed(t)'
    BY <2>1 DEF Pushed
  <2> QED BY <1>i, <2>1, <2>3, <2>4, <2>5, ScanLinks
<1>4. ASSUME NEW t \in Task, SkipAncestor(t) PROVE LinksInv'
  BY <1>4, <1>p DEF SkipAncestor, FlatPlace
<1>5. ASSUME NEW t \in Task,
             Start(t) \/ EndBody(t) \/ MarkDone(t) \/ LoadHint(t) \/ Walk(t) \/ Drain(t) \/ FreeDeps(t)
               \/ Release(t) \/ Climb(t)
      PROVE  LinksInv'
  <2>1. /\ UNCHANGED <<before, ins, scan, declared>>
        /\ \A p \in Task \ {t} : run'[p] = run[p] /\ walk'[p] = walk[p]
    BY <1>5, <1>t DEF Start, EndBody, MarkDone, LoadHint, Walk, Drain, FreeDeps, Release, Climb, itemVars,
       insVars, history
  <2>2. /\ run[t] \in {"idle", "body", "mark", "load"} => args[t] = declared[t]
        /\ run[t] \in {"walk", "drain", "free"} => args[t] = declared[t]
        /\ run[t] \in {"free", "climb", "out"} => deps[t] = <<>>
        /\ \A u \in Task : Bothers(u, t) => \/ run[t] \in {"idle", "body", "mark", "load"}
                                            \/ run[t] = "walk" /\ walk[t] = u
    BY <1>i DEF LinksInv
  <2>3. CASE Start(t) \/ EndBody(t) \/ MarkDone(t)
    <3>1. Posted(t) /\ FlatPlace(t)
      BY <1>p, <2>3 DEF Start, EndBody, MarkDone, Posted
    <3>2. UNCHANGED <<deps, walk, args>> /\ run[t] \in {"idle", "body", "mark"} /\ run'[t] \in {"body", "mark", "load"}
      BY <1>t, <2>3, <3>1 DEF Start, EndBody, MarkDone, FlatPlace
    <3> QED BY <1>i, <2>1, <2>2, <3>2, RunLinks
  <2>4. CASE LoadHint(t)
    <3>1. UNCHANGED <<deps, args>> /\ run[t] = "load" /\ run'[t] = "walk" /\ walk'[t] = worklist
      BY <1>t, <2>4 DEF LoadHint, itemVars
    <3> QED BY <1>i, <1>b, <2>1, <2>2, <3>1, RunLinks
  <2>5. CASE Walk(t)
    <3>1. UNCHANGED <<deps, args>> /\ run[t] = "walk" /\ run'[t] \in {"walk", "drain"}
      BY <1>t, <2>5 DEF Walk, itemVars
    <3>2. \A u \in Task : ~ Bothers(u, t)
      <4> SUFFICES ASSUME NEW u \in Task, Bothers(u, t) PROVE FALSE
        OBVIOUS
      <4>1. walk[t] = u /\ Inserting(u)
        BY <2>2, <3>1 DEF Bothers
      <4>2. ~ Inserting(t)
        BY <1>p, <3>1 DEF FlatPlace, Posted, Inserting
      <4>3. walk[t] # Nil /\ walk[t] # t
        BY <4>1, <4>2, NilAssumption
      <4>4. status[u] = "Filling"
        BY <4>1, <1>p DEF FlatPlace
      <4> QED BY <2>5, <4>1, <4>3, <4>4 DEF Walk
    <3> QED BY <1>i, <2>1, <2>2, <3>1, <3>2, RunLinks
  <2>6. CASE Drain(t)
    <3>1. UNCHANGED linkVars
      BY <2>6 DEF Drain, insVars, history, linkVars
    <3> QED BY <1>i, <3>1, SameLinks
  <2>7. CASE FreeDeps(t) \/ Release(t) \/ Climb(t)
    <3>1. current[t] = t /\ father[t] = Nil
      BY <1>p, <2>7 DEF FlatPlace, Completing, FreeDeps, Release, Climb
    <3>2. /\ run[t] \in {"drain", "free", "climb"}
          /\ \A p \in Task \ {t} : deps'[p] = deps[p] /\ args'[p] = args[p]
          /\ deps'[t] = deps[t] \/ deps'[t] = <<>>
          /\ run'[t] \in {"free", "climb", "out"}
          /\ run[t] = "drain" => deps'[t] = <<>>
          /\ args'[t] = args[t] \/ run'[t] = "climb"
          /\ run[t] # "drain" => run'[t] \in {"climb", "out"}
      BY <1>t, <2>7, <3>1 DEF FreeDeps, Release, Climb
    <3>3. \A u \in Task : ~ Bothers(u, t)
      BY <2>2, <3>2
    <3> QED BY <1>i, <2>1, <2>2, <3>2, <3>3, RunLinks
  <2> QED BY <1>5, <2>3, <2>4, <2>5, <2>6, <2>7
<1>6. ASSUME NEW t \in Task, TestErase(t) \/ Claim(t) PROVE LinksInv'
  BY <1>6, <1>i, SameLinks DEF TestErase, Claim, vars, itemVars, insVars, runVars, history, linkVars
<1>7. CASE Erase \/ ReclaimWaitForAll \/ UNCHANGED reclaimVars
  <2>1. UNCHANGED linkVars
    BY <1>7 DEF Erase, BeginErase, LookAt, Keep, Cut, CutTail, Reload, WaitFill, FreeSublists, eraserIdle,
       ReclaimWaitForAll, WaitForAll, reclaimVars, vars, itemVars, insVars, runVars, history, linkVars
  <2> QED BY <1>i, <2>1, SameLinks
<1> QED
  BY <1>1, <1>2, <1>3, <1>4, <1>5, <1>6, <1>7, ExamineLinks
  DEF ReclaimNext, ReclaimInsert, ReclaimExecute, ReclaimLoadHint

-----------------------------------------------------------------------------
(***************************************************************************)
(* Every step preserves CountInv, WaitersInv and HintInv.                  *)
(***************************************************************************)
LEMMA FlatCountStep ==
  ASSUME Flat, ReclaimInv, FlatInv, [ReclaimNext]_reclaimVars
  PROVE  CountInv'
<1>c. TypeInv /\ CountInv /\ \A v \in Task : Posted(v) => ins[v] = "inserted"
  BY DEF ReclaimInv, FlatInv, PlacesInv, FlatPlace
<1>1. ASSUME NEW t \in Task, Insert(t) \/ Execute(t) PROVE CountInv'
  BY <1>1, <1>c, FlatLink, FlatRelease, CountMove
<1>2. CASE \E f \in Pointer, t \in Task : \E a \in Uses[t] : ReclaimSpawn(f, t, a)
  BY <1>2, <1>c, CountSame DEF ReclaimSpawn
<1>3. ASSUME NEW t \in Task, ReclaimInsert(t) PROVE CountInv'
  <2>1. CASE ReclaimLook(t) /\ ins[t] = "scan" /\ scan[t] = t
    BY <1>c, <2>1, CountSame DEF ReclaimLook, itemVars, runVars
  <2>2. CASE ~ (ReclaimLook(t) /\ ins[t] = "scan" /\ scan[t] = t)
    <3>1. Insert(t)
      BY <1>3, <2>2 DEF ReclaimInsert, ReclaimLook, Insert, Scan, SkipAncestor, Look
    <3> QED BY <1>1, <3>1
  <2> QED BY <2>1, <2>2
<1>4. ASSUME NEW t \in Task, ReclaimExecute(t) PROVE CountInv'
  <2>1. CASE TestErase(t) \/ Claim(t)
    BY <1>c, <2>1, CountSame DEF TestErase, Claim, vars, itemVars, runVars
  <2>2. CASE Execute(t)
    BY <1>1, <2>2
  <2> QED BY <1>4, <2>1, <2>2 DEF ReclaimExecute, ReclaimLoadHint, Execute
<1>5. CASE Erase \/ ReclaimWaitForAll \/ UNCHANGED reclaimVars
  <2>1. UNCHANGED <<ndependencies, deps, queue, run, current, idep>>
    BY <1>5 DEF Erase, BeginErase, LookAt, Keep, Cut, CutTail, Reload, WaitFill, FreeSublists, eraserIdle,
       ReclaimWaitForAll, WaitForAll, reclaimVars, vars, itemVars, runVars
  <2> QED BY <1>c, <2>1, CountSame
<1> QED BY <1>2, <1>3, <1>4, <1>5 DEF ReclaimNext

(***************************************************************************)
(* The newest item is in use and is not going to be unlinked.              *)
(***************************************************************************)
LEMMA NewestStays ==
  ASSUME ReclaimInv, FlatInv, worklist # Nil
  PROVE  worklist \in Used \ deletable
<1>1. worklist \in Used
  BY DEF ReclaimInv, OlderInv, ChainInv, Used
<1>2. worklist \notin deletable
  <2> SUFFICES ASSUME worklist \in deletable PROVE FALSE
    OBVIOUS
  <2>1. worklist \in before[lastkeep] /\ lastkeep \in Used \cap InWorklist
    BY DEF ReclaimInv, UnlinkInv
  <2>2. worklist \in Task /\ lastkeep \in before[worklist] \cup {worklist}
    BY <1>1, <2>1 DEF InWorklist, Used, Listed
  <2>3. worklist \in before[worklist]
    BY <2>1, <2>2 DEF ReclaimInv, OlderInv
  <2> QED BY <2>2, <2>3 DEF ReclaimInv, OlderInv
<1> QED BY <1>1, <1>2

LEMMA WaitersStep ==
  ASSUME Flat, ReclaimInv, FlatInv, [ReclaimNext]_reclaimVars
  PROVE  WaitersInv'
<1>t. /\ run \in [Task -> RunPlace] /\ walk \in [Task -> Pointer] /\ before \in [Task -> SUBSET Task]
      /\ freed \subseteq Task /\ Sublists \subseteq Task
  BY Types DEF ReclaimInv, EraserInv
<1>w. \A u \in Task : run[u] = "walk" =>
         /\ walk[u] \in Listed \ freed
         /\ u \in Reach(walk[u])
         /\ walk[u] \in Sublists \cup deletable => u \in Dones \/ StillToPass(u)
         /\ status[u] = "Done" /\ u \in Listed /\ u \notin Gone /\ u \notin deletable
  <2> SUFFICES ASSUME NEW u \in Task, run[u] = "walk"
               PROVE  status[u] = "Done" /\ u \in Listed /\ u \notin Gone /\ u \notin deletable
    BY DEF FlatInv, WaitersInv
  <2>1. status[u] = "Done" /\ ins[u] = "inserted"
    BY DEF FlatInv, PlacesInv, FlatPlace, Posted
  <2> QED BY <2>1 DEF FlatInv, WholeInv, Listed, Pushed
<1>old. \A u \in Listed : before[u] \ Gone \subseteq Reach(next[u])
  BY DEF FlatInv, WholeInv
<1>p. ASSUME UNCHANGED <<freed, Sublists, deletable, Dones, erasing, visit>>,
             Listed \subseteq Listed', \A u \in Listed : before'[u] = before[u],
             \A u \in Task : run'[u] = "walk" => run[u] = "walk" /\ walk'[u] = walk[u]
      PROVE  WaitersInv'
  <2> SUFFICES ASSUME NEW u \in Task, run'[u] = "walk"
               PROVE  /\ walk'[u] \in Listed' \ freed' /\ u \in Reach(walk[u])'
                      /\ walk'[u] \in Sublists' \cup deletable' => u \in Dones' \/ StillToPass(u)'
    BY DEF WaitersInv
  <2>1. run[u] = "walk" /\ walk'[u] = walk[u]
    BY <1>p
  <2>2. Reach(walk[u])' = Reach(walk[u])
    BY <1>p, <1>w, <2>1 DEF Reach
  <2>3. StillToPass(u) => StillToPass(u)'
    <3>1. Unlinking' = Unlinking
      BY <1>p DEF Unlinking
    <3>2. Unlinking => visit \in Listed \cup {Nil}
      BY DEF ReclaimInv, UnlinkInv, Used
    <3>3. Unlinking => Reach(visit)' = Reach(visit)
      BY <1>p, <3>2 DEF Reach
    <3> QED BY <1>p, <3>1, <3>3 DEF StillToPass
  <2> QED BY <1>p, <1>w, <2>1, <2>2, <2>3
<1>e. ASSUME UNCHANGED <<before, Listed, run, walk>>,
             \A u \in Task : run[u] = "walk" =>
                /\ walk[u] \notin freed'
                /\ walk[u] \in Sublists' \cup deletable' => u \in Dones' \/ StillToPass(u)'
      PROVE  WaitersInv'
  BY <1>e, <1>w DEF WaitersInv, Reach
<1>1. ASSUME NEW f \in Pointer, NEW t \in Task, NEW a \in Uses[t], ReclaimSpawn(f, t, a)
      PROVE  WaitersInv'
  <2>1. UNCHANGED <<before, run, freed, Sublists, deletable, Dones, erasing, visit>>
        /\ ins' = [ins EXCEPT ![t] = "push"] /\ ins[t] = "unborn"
    BY <1>1 DEF ReclaimSpawn
  <2>2. ins \in [Task -> InsPlace]
    BY Types DEF ReclaimInv
  <2>3. Listed \subseteq Listed'
    BY <2>1, <2>2 DEF Listed, Pushed
  <2> QED BY <1>1, <1>p, <2>1, <2>3, SpawnPointers
<1>2. ASSUME NEW t \in Task, Push(t), UNCHANGED <<eraserVars, freed>> PROVE WaitersInv'
  <2>1. \A u \in Task : run'[u] = "walk" => run[u] = "walk" /\ walk'[u] = walk[u]
    BY <1>2 DEF Push, runVars
  <2>2. \A u \in Listed : before'[u] = before[u]
    BY <1>2, PushedNow DEF Listed
  <2>3. Listed \subseteq Listed'
    BY <1>2, PushedNow
  <2> QED BY <1>2, <1>p, <2>1, <2>2, <2>3 DEF eraserVars
<1>3. ASSUME NEW t \in Task, Elsewhere(t), ~ LoadHint(t),
             UNCHANGED <<freed, Sublists, deletable, Dones, erasing, visit>>
      PROVE  WaitersInv'
  <2>1. UNCHANGED <<before, Listed>>
    BY <1>3, ListStays DEF ReclaimInv
  <2>2. \A u \in Task : run'[u] = "walk" => run[u] = "walk" /\ walk'[u] = walk[u]
    <3>1. CASE Walk(t)
      <4>1. walk[t] # Nil => optFlags[walk[t]] = {}
        BY <1>t DEF FlatInv, PlacesInv, FlatPlace, Pointer
      <4>2. run' = [run EXCEPT ![t] = "drain"] /\ walk' = walk
        BY <3>1, <4>1 DEF Walk
      <4> QED BY <1>t, <4>2
    <3>2. CASE ~ Walk(t)
      BY <1>3, <1>t, <3>2 DEF Elsewhere, ReclaimLook, Look, SkipAncestor, Examine, Flag, Settle, SetWaiting,
         Start, EndBody, MarkDone, Drain, FreeDeps, Release, Climb, runVars
    <3> QED BY <3>1, <3>2
  <2> QED BY <1>3, <1>p, <2>1, <2>2
<1>4. ASSUME NEW t \in Task, ReclaimLoadHint(t) PROVE WaitersInv'
  <2>1. /\ run[t] = "load" /\ run' = [run EXCEPT ![t] = "walk"] /\ walk' = [walk EXCEPT ![t] = worklist]
        /\ UNCHANGED <<freed, Sublists, deletable, Dones, erasing, visit>>
    BY <1>4 DEF ReclaimLoadHint, LoadHint
  <2>2. UNCHANGED <<before, Listed>>
    BY <1>4, ListStays DEF ReclaimInv, ReclaimLoadHint, Elsewhere
  <2>3. worklist \in Used \ deletable
    BY <2>1, NewestStays DEF ReclaimInv, PushedInv, Live
  <2>4. t \in Reach(worklist)
    <3>1. status[t] = "Done" /\ ins[t] = "inserted"
      BY <2>1 DEF FlatInv, PlacesInv, FlatPlace, Posted
    <3>2. t \in Used
      BY <3>1 DEF FlatInv, WholeInv, Used, Listed, Pushed
    <3> QED BY <3>2 DEF FlatInv, WholeInv, InWorklist, Reach
  <2>5. walk'[t] = worklist /\ \A u \in Task \ {t} : run'[u] = run[u] /\ walk'[u] = walk[u]
    BY <1>t, <2>1
  <2>6. UNCHANGED Unlinking /\ \A u : Reach(u)' = Reach(u)
    BY <2>1, <2>2 DEF Unlinking, Reach
  <2>7. \A u \in Task : StillToPass(u)' = StillToPass(u)
    BY <2>1, <2>2 DEF StillToPass, Unlinking, Reach
  <2>8. Reach(walk[t])' = Reach(worklist)
    BY <2>2, <2>5 DEF Reach
  <2>9. \A u \in Task \ {t} : Reach(walk[u])' = Reach(walk[u])
    BY <2>2, <2>5 DEF Reach
  <2> QED BY <1>w, <2>1, <2>2, <2>3, <2>4, <2>5, <2>7, <2>8, <2>9 DEF WaitersInv, Used, Gone
<1>5. ASSUME NEW t \in Task, ReclaimInsert(t) \/ ReclaimExecute(t) PROVE WaitersInv'
  <2>1. CASE Push(t) /\ UNCHANGED <<eraserVars, freed>>
    BY <2>1, <1>2
  <2>2. CASE ReclaimLoadHint(t)
    BY <2>2, <1>4
  <2>3. CASE Elsewhere(t) /\ ~ LoadHint(t)
    <3>1. UNCHANGED <<freed, Sublists, deletable, Dones, erasing, visit>>
      BY <1>5, <2>3 DEF ReclaimInsert, ReclaimExecute, ReclaimLoadHint, TestErase, Claim, eraserVars
    <3> QED BY <2>3, <3>1, <1>3
  <2>4. CASE TestErase(t) \/ Claim(t)
    <3>1. UNCHANGED <<before, Listed, run, walk, freed, Sublists, deletable, Dones, erasing, visit>>
      BY <2>4 DEF TestErase, Claim, vars, itemVars, insVars, runVars, history, eraserVars, Listed, Pushed
    <3> QED BY <3>1, <1>p
  <2>5. CASE Elsewhere(t) /\ LoadHint(t) /\ ~ ReclaimLoadHint(t)
    <3>1. run[t] = "load" /\ run'[t] = "walk"
      BY <1>t, <2>5 DEF LoadHint
    <3> QED
      BY <1>5, <1>t, <2>5, <3>1
      DEF ReclaimInsert, ReclaimExecute, Push, ReclaimLook, Look, SkipAncestor, Examine, Flag, Settle, SetWaiting,
         Start, EndBody, MarkDone, Walk, Drain, FreeDeps, Release, Climb, TestErase, Claim, vars, runVars
  <2> QED BY <1>5, <2>1, <2>2, <2>3, <2>4, <2>5 DEF ReclaimInsert, ReclaimExecute, Elsewhere
<1>6. CASE Erase
  <2>0. UNCHANGED <<before, Listed, run, walk, status>>
    BY <1>6 DEF Erase, BeginErase, LookAt, Keep, Cut, CutTail, Reload, WaitFill, FreeSublists, eraserIdle,
       vars, itemVars, insVars, runVars, history, Listed, Pushed
  <2>1. CASE BeginErase
    <3>1. UNCHANGED <<freed, Sublists, deletable, Dones>> /\ ~ Unlinking
      BY <2>1 DEF BeginErase, Unlinking
    <3> QED BY <2>0, <3>1, <1>e, <1>w DEF StillToPass
  <2>2. CASE LookAt
    <3>1. Unlinking /\ visit # Nil /\ visit \in Listed /\ erasing = "look" /\ UNCHANGED <<freed, Sublists, Dones>>
      BY <2>2 DEF LookAt, Unlinking, ReclaimInv, UnlinkInv, Used
    <3>2. CASE status[visit] = "Deallocatable"
      <4>1. deletable' = deletable \cup {visit} /\ visit' = next[visit] /\ erasing' = "look"
        BY <2>2, <3>1, <3>2 DEF LookAt
      <4>2. Reach(visit)' = Reach(next[visit])
        BY <2>0, <4>1 DEF Reach
      <4>3. ASSUME NEW u \in Task, run[u] = "walk", u \in Reach(visit) PROVE StillToPass(u)'
        <5>1. u \in before[visit] \ Gone
          BY <1>w, <3>1, <3>2, <4>3 DEF Reach
        <5> QED BY <1>old, <3>1, <4>1, <4>2, <5>1 DEF StillToPass, Unlinking
      <4>4. ASSUME NEW u \in Task, run[u] = "walk", walk[u] \in Sublists' \cup deletable'
            PROVE  u \in Dones' \/ StillToPass(u)'
        <5>1. CASE walk[u] = visit
          BY <1>w, <4>3, <4>4, <5>1
        <5>2. CASE walk[u] # visit
          BY <1>w, <3>1, <4>1, <4>3, <4>4, <5>2 DEF StillToPass
        <5> QED BY <5>1, <5>2
      <4> QED BY <1>e, <1>w, <2>0, <3>1, <4>4
    <3>3. CASE status[visit] # "Deallocatable"
      <4>1. UNCHANGED <<deletable, visit>> /\ erasing' = "keep"
        BY <2>2, <3>3 DEF LookAt
      <4>2. \A u \in Task : StillToPass(u) => StillToPass(u)'
        BY <2>0, <4>1 DEF StillToPass, Unlinking, Reach
      <4> QED BY <1>e, <1>w, <2>0, <3>1, <4>1, <4>2
    <3> QED BY <3>2, <3>3
  <2>3. CASE Keep
    <3>1. /\ erasing = "keep" /\ erasing' = "cut" /\ UNCHANGED <<freed, Sublists, deletable, visit>>
          /\ Dones' = IF status[visit] = "Done" THEN Dones \cup {visit} ELSE Dones
      BY <2>3 DEF Keep
    <3>2. \A u \in Task : StillToPass(u) => StillToPass(u)' \/ u = visit
      BY <2>0, <3>1 DEF StillToPass, Unlinking, Reach
    <3> QED BY <1>e, <1>w, <2>0, <3>1, <3>2
  <2>4. CASE Cut
    <3>1. /\ erasing = "cut" /\ erasing' = "look" /\ visit' = next[visit] /\ UNCHANGED <<freed, Dones>>
          /\ deletable' = {} /\ Sublists' \subseteq Sublists \cup deletable
      BY <2>4 DEF Cut
    <3>2. visit \in Listed
      BY <3>1 DEF ReclaimInv, EraserInv, UnlinkInv, Unlinking, Used
    <3>3. Reach(visit)' = Reach(next[visit])
      BY <2>0, <3>1 DEF Reach
    <3>4. ASSUME NEW u \in Task, run[u] = "walk", StillToPass(u) PROVE StillToPass(u)'
      <4>1. u \in before[visit] \ Gone
        BY <1>w, <3>1, <3>4 DEF StillToPass, Reach
      <4> QED BY <1>old, <3>1, <3>2, <3>3, <4>1 DEF StillToPass, Unlinking
    <3> QED BY <1>e, <1>w, <2>0, <3>1, <3>4
  <2>5. CASE CutTail
    <3>1. /\ visit = Nil /\ UNCHANGED <<freed, Dones>>
          /\ deletable' = {} /\ Sublists' \subseteq Sublists \cup deletable
      BY <2>5 DEF CutTail
    <3>2. \A u \in Task : ~ StillToPass(u)
      BY <3>1 DEF StillToPass, Reach
    <3> QED BY <1>e, <1>w, <2>0, <3>1, <3>2
  <2>6. CASE Reload \/ WaitFill
    <3>1. UNCHANGED <<freed, Sublists, deletable, Dones>> /\ ~ Unlinking
      BY <2>6 DEF Reload, WaitFill, Unlinking
    <3> QED BY <2>0, <3>1, <1>e, <1>w DEF StillToPass
  <2>7. CASE FreeSublists
    <3>1. /\ freed' = freed \cup Sublists /\ Sublists' = {} /\ UNCHANGED deletable /\ ~ Unlinking
          /\ \A d \in Dones : status[d] # "Done"
      BY <2>7 DEF FreeSublists, Unlinking
    <3>2. \A u \in Task : run[u] = "walk" => walk[u] \notin Sublists \cup deletable
      BY <1>w, <3>1 DEF StillToPass
    <3> QED BY <1>e, <1>w, <2>0, <3>1, <3>2
  <2> QED BY <1>6, <2>1, <2>2, <2>3, <2>4, <2>5, <2>6, <2>7 DEF Erase
<1>7. CASE ReclaimWaitForAll
  BY <1>7 DEF ReclaimWaitForAll, WaitForAll, Quiescent, runVars, WaitersInv
<1>8. CASE UNCHANGED reclaimVars
  <2>1. UNCHANGED <<before, Listed, run, walk, freed, Sublists, deletable, Dones, erasing, visit>>
    BY <1>8 DEF reclaimVars, vars, itemVars, insVars, runVars, history, eraserVars, Listed, Pushed
  <2> QED BY <2>1, <1>p
<1> QED BY <1>1, <1>5, <1>6, <1>7, <1>8 DEF ReclaimNext

LEMMA HintStep ==
  ASSUME Flat, ReclaimInv, FlatInv, [ReclaimNext]_reclaimVars
  PROVE  HintInv'
<1>t. /\ run \in [Task -> RunPlace] /\ walk \in [Task -> Pointer] /\ ins \in [Task -> InsPlace]
      /\ freed \subseteq Task /\ worklist \in Pointer /\ eraser \in Pointer
  BY Types DEF ReclaimInv, EraserInv
<1>h. /\ hint # Nil => eraser # Nil /\ run[eraser] # "load" /\ hint \in Listed \ freed
      /\ eraser # Nil =>
            /\ run[eraser] \in {"load", "walk", "drain", "free", "climb", "out"}
            /\ run[eraser] = "walk" => hint = walk[eraser]
            /\ run[eraser] \notin {"load", "walk"} /\ hint # Nil => ~ Inserting(hint)
      /\ erasing # "none" => eraser # Nil /\ run[eraser] = "out"
      /\ erasing \in {"none", "reload", "dones"} => visit = Nil
      /\ erasing = "wait" => visit \in Used
  BY DEF FlatInv, HintInv
<1>e. eraser # Nil => eraser \in Task
  BY <1>t DEF Pointer
<1>p. ASSUME UNCHANGED <<eraser, hint, erasing, visit, freed, Sublists, run>>, Listed \subseteq Listed',
             \A u \in Task : run[u] = "walk" => walk'[u] = walk[u],
             \A u \in Listed : Inserting(u)' => Inserting(u)
      PROVE  HintInv'
  <2>1. Used \subseteq Used'
    BY <1>p DEF Used, Gone
  <2> QED BY <1>p, <1>h, <1>e, <2>1 DEF HintInv
<1>1. ASSUME NEW f \in Pointer, NEW t \in Task, NEW a \in Uses[t], ReclaimSpawn(f, t, a)
      PROVE  HintInv'
  <2>1. /\ UNCHANGED <<eraser, erasing, visit, freed, Sublists, run>>
        /\ ins' = [ins EXCEPT ![t] = "push"] /\ ins[t] = "unborn"
    BY <1>1 DEF ReclaimSpawn
  <2>2. Listed \subseteq Listed' /\ \A u \in Listed : Inserting(u)' => Inserting(u)
    BY <1>t, <2>1 DEF Listed, Pushed, Inserting
  <2> QED BY <1>1, <1>p, <2>1, <2>2, SpawnPointers
<1>2. ASSUME NEW t \in Task, ReclaimInsert(t) PROVE HintInv'
  <2>1. UNCHANGED <<eraser, hint, erasing, visit, freed, Sublists, run, walk>>
    BY <1>2 DEF ReclaimInsert, eraserVars, Push, ReclaimLook, Look, SkipAncestor, Examine, Flag, Settle, SetWaiting,
       runVars
  <2>2. Listed \subseteq Listed' /\ \A u \in Listed : Inserting(u)' => Inserting(u)
    BY <1>2, <1>t DEF ReclaimInsert, Push, ReclaimLook, Look, SkipAncestor, Examine, Flag, Settle, SetWaiting,
       Listed, Pushed, Inserting
  <2> QED BY <1>p, <2>1, <2>2
<1>3. ASSUME NEW t \in Task, ReclaimLoadHint(t) PROVE HintInv'
  <2>1. /\ run[t] = "load" /\ run' = [run EXCEPT ![t] = "walk"] /\ walk' = [walk EXCEPT ![t] = worklist]
        /\ hint' = (IF eraser = t THEN worklist ELSE hint)
        /\ UNCHANGED <<eraser, erasing, visit, freed, Sublists, ins>>
    BY <1>3 DEF ReclaimLoadHint, LoadHint, insVars
  <2>2. Listed' = Listed /\ Used' = Used
    BY <2>1 DEF Listed, Pushed, Used, Gone
  <2>3. worklist \in Listed \ freed
    BY <2>1, NewestStays DEF ReclaimInv, PushedInv, Live, Used, Gone
  <2>4. CASE eraser = t
    <3>1. eraser # Nil /\ erasing = "none" /\ run'[eraser] = "walk" /\ walk'[eraser] = worklist
      BY <1>t, <1>h, <2>1, <2>4, NilAssumption
    <3> QED BY <1>h, <2>1, <2>2, <2>3, <2>4, <3>1 DEF HintInv
  <2>5. CASE eraser # t
    <3>1. eraser # Nil => run'[eraser] = run[eraser] /\ walk'[eraser] = walk[eraser]
      BY <1>t, <1>e, <2>1, <2>5
    <3> QED BY <1>h, <2>1, <2>2, <2>5, <3>1 DEF HintInv, Inserting
  <2> QED BY <2>4, <2>5
<1>4. ASSUME NEW t \in Task, Start(t) \/ EndBody(t) \/ MarkDone(t) \/ Walk(t) \/ Drain(t) \/ FreeDeps(t)
               \/ Release(t) \/ Climb(t),
             UNCHANGED eraserVars, UNCHANGED freed
      PROVE  HintInv'
  <2>1. UNCHANGED <<eraser, hint, erasing, visit, freed, Sublists, ins>>
    BY <1>4 DEF eraserVars, insVars, Start, EndBody, MarkDone, Walk, Drain, FreeDeps, Release, Climb
  <2>2. Listed' = Listed /\ Used' = Used
    BY <2>1 DEF Listed, Pushed, Used, Gone
  <2>3. \A u \in Task \ {t} : run'[u] = run[u] /\ walk'[u] = walk[u]
    BY <1>4, <1>t DEF Start, EndBody, MarkDone, Walk, Drain, FreeDeps, Release, Climb
  <2>4. CASE eraser # t
    <3>1. eraser # Nil => run'[eraser] = run[eraser] /\ walk'[eraser] = walk[eraser]
      BY <1>e, <2>3, <2>4
    <3> QED BY <1>h, <2>1, <2>2, <3>1 DEF HintInv, Inserting
  <2>5. CASE eraser = t
    <3>1. eraser # Nil /\ run[t] \notin {"idle", "body", "mark"}
      BY <1>h, <2>5, NilAssumption
    <3>2. CASE Walk(t)
      <4>1. walk[t] # Nil => optFlags[walk[t]] = {}
        BY <1>t DEF FlatInv, PlacesInv, FlatPlace, Pointer
      <4>2. run[t] = "walk" /\ run'[t] = "drain"
        BY <1>t, <3>2, <4>1 DEF Walk
      <4>3. hint = walk[t]
        BY <1>h, <2>5, <3>1, <4>2
      <4>4. hint # Nil => ~ Inserting(hint)
        <5>1. CASE hint = t
          BY <4>2, <5>1 DEF FlatInv, PlacesInv, FlatPlace, Posted, Inserting
        <5>2. CASE hint # t /\ hint # Nil
          <6>1. status[hint] # "Filling" /\ hint \in Task
            BY <1>t, <3>2, <4>3, <5>2 DEF Walk, Pointer
          <6> QED BY <6>1 DEF FlatInv, PlacesInv, FlatPlace
        <5> QED BY <5>1, <5>2
      <4>5. erasing = "none"
        BY <1>h, <2>5, <4>2
      <4> QED BY <1>h, <2>1, <2>2, <2>5, <3>1, <4>2, <4>4, <4>5 DEF HintInv, Inserting
    <3>3. CASE Drain(t)
      <4>1. UNCHANGED <<run, walk>>
        BY <3>3 DEF Drain
      <4> QED BY <1>h, <2>1, <2>2, <4>1 DEF HintInv, Inserting
    <3>4. CASE FreeDeps(t) \/ Release(t) \/ Climb(t)
      <4>1. current[t] = t /\ father[t] = Nil
        BY <3>4 DEF FlatInv, PlacesInv, FlatPlace, Completing, FreeDeps, Release, Climb
      <4>2. run[t] \in {"drain", "free", "climb"} /\ run'[t] \in {"free", "climb", "out"}
        BY <1>t, <3>4, <4>1 DEF FreeDeps, Release, Climb
      <4>3. erasing = "none"
        BY <1>h, <2>5, <4>2
      <4> QED BY <1>h, <2>1, <2>2, <2>5, <3>1, <4>2, <4>3 DEF HintInv, Inserting
    <3> QED BY <1>4, <3>1, <3>2, <3>3, <3>4 DEF Start, EndBody, MarkDone
  <2> QED BY <2>4, <2>5
<1>5. ASSUME NEW t \in Task, TestErase(t) PROVE HintInv'
  <2>1. UNCHANGED <<eraser, hint, erasing, visit, freed, Sublists, run, walk, ins>>
    BY <1>5 DEF TestErase, vars, insVars, runVars, eraserVars
  <2> QED BY <1>p, <2>1 DEF Listed, Pushed, Inserting
<1>6. ASSUME NEW t \in Task, Claim(t) PROVE HintInv'
  <2>1. /\ UNCHANGED <<hint, erasing, visit, freed, Sublists, run, walk, ins>>
        /\ eraser = Nil /\ eraser' = t /\ t \in tested
    BY <1>6 DEF Claim, vars, insVars, runVars
  <2>2. run[t] = "load"
    BY <2>1 DEF ReclaimInv, EraserInv
  <2>3. hint = Nil /\ erasing = "none" /\ visit = Nil
    BY <1>h, <2>1
  <2> QED BY <2>1, <2>2, <2>3 DEF HintInv
<1>7. CASE Erase
  <2>0. /\ UNCHANGED <<worklist, ins, run, walk, optFlags>>
        /\ Listed' = Listed
    BY <1>7 DEF Erase, BeginErase, LookAt, Keep, Cut, CutTail, Reload, WaitFill, FreeSublists, eraserIdle,
       vars, itemVars, insVars, runVars, Listed, Pushed
  <2>1. CASE BeginErase \/ LookAt \/ Keep \/ Cut
    <3>1. /\ UNCHANGED <<eraser, hint, freed>> /\ erasing' \in {"look", "keep", "cut"}
          /\ eraser # Nil /\ run[eraser] = "out"
      BY <1>h, <2>1 DEF BeginErase, LookAt, Keep, Cut, eraserIdle
    <3> QED BY <1>h, <2>0, <3>1 DEF HintInv, Inserting
  <2>2. CASE CutTail
    <3>1. UNCHANGED <<eraser, hint, freed>> /\ erasing' = "reload" /\ visit' = Nil /\ erasing = "look"
      BY <2>2 DEF CutTail
    <3> QED BY <1>h, <2>0, <3>1 DEF HintInv, Inserting
  <2>3. CASE Reload
    <3>1. UNCHANGED <<eraser, hint, freed, Sublists>> /\ erasing = "reload" /\ erasing' = "wait" /\ visit' = worklist
      BY <2>3 DEF Reload, eraserIdle
    <3>2. worklist # Nil
      BY <1>h, <3>1 DEF ReclaimInv, EraserInv
    <3>3. visit' \in Used'
      BY <2>0, <3>1, <3>2, NewestStays DEF Used, Gone
    <3> QED BY <1>h, <2>0, <3>1, <3>3 DEF HintInv, Inserting
  <2>4. CASE WaitFill
    <3>1. UNCHANGED <<eraser, hint, freed>> /\ erasing = "wait"
      BY <2>4 DEF WaitFill, eraserIdle
    <3>2. optFlags[visit] = {}
      BY <1>h, <3>1 DEF Used, Listed, FlatInv, PlacesInv, FlatPlace
    <3>3. erasing' = "dones" /\ visit' = Nil
      BY <2>4, <3>2 DEF WaitFill
    <3> QED BY <1>h, <2>0, <3>1, <3>3 DEF HintInv, Inserting
  <2>5. CASE FreeSublists
    <3>1. eraser' = Nil /\ hint' = Nil /\ erasing' = "none" /\ visit' = visit /\ erasing = "dones"
      BY <2>5 DEF FreeSublists
    <3> QED BY <1>h, <3>1 DEF HintInv
  <2> QED BY <1>7, <2>1, <2>2, <2>3, <2>4, <2>5 DEF Erase
<1>8. CASE ReclaimWaitForAll
  <2>1. eraser = Nil /\ UNCHANGED <<eraser, hint, erasing, visit>>
    BY <1>8 DEF ReclaimWaitForAll, eraserVars
  <2>2. hint = Nil /\ erasing = "none" /\ visit = Nil
    BY <1>h, <2>1
  <2> QED BY <2>1, <2>2 DEF HintInv
<1>9. CASE UNCHANGED reclaimVars
  <2>1. UNCHANGED <<eraser, hint, erasing, visit, freed, Sublists, run, walk, ins>>
    BY <1>9 DEF reclaimVars, vars, insVars, runVars, eraserVars
  <2> QED BY <1>p, <2>1 DEF Listed, Pushed, Inserting
<1> QED
  BY <1>1, <1>2, <1>3, <1>4, <1>5, <1>6, <1>7, <1>8, <1>9 DEF ReclaimNext, ReclaimExecute

LEMMA FlatStep == ASSUME Flat PROVE ReclaimInv /\ FlatInv /\ [ReclaimNext]_reclaimVars => FlatInv'
BY PlacesStep, WholeStep, ScanStep, LinksStep, FlatCountStep, WaitersStep, HintStep DEF FlatInv

(***************************************************************************)
(* In a program whose tasks spawn none, with any argument lists, no thread *)
(* that scans the worklist, waits in it, completes an item or erases is    *)
(* ever at an item whose memory was given back.                            *)
(***************************************************************************)
THEOREM WalksStaySafe == ASSUME Flat PROVE ReclaimSpec => []SafeWalks
<1>1. ReclaimInv /\ FlatInv => SafeWalks
  <2> SUFFICES ASSUME ReclaimInv, FlatInv PROVE SafeWalks
    OBVIOUS
  <2>0. freed \subseteq Task
    BY DEF ReclaimInv, EraserInv
  <2>1. \A t \in Task : Inserting(t) => scan[t] \notin freed
    BY DEF FlatInv, ScanInv
  <2>2. \A t \in Task : run[t] = "walk" => walk[t] \notin freed
    BY DEF FlatInv, WaitersInv
  <2>3. \A t \in Task : Finishing(t) => current[t] \notin freed
    <3> SUFFICES ASSUME NEW t \in Task, Finishing(t) PROVE current[t] \notin freed
      OBVIOUS
    <3>1. current[t] = t /\ status[t] # "Deallocatable"
      BY DEF Finishing, FlatInv, PlacesInv, FlatPlace, Completing
    <3> QED BY <3>1 DEF FlatInv, WholeInv, Gone
  <2>4. \A t \in Task : Finishing(t) \/ run[t] = "climb" => father[current[t]] \notin freed
    BY <2>0, NilAssumption DEF Finishing, FlatInv, PlacesInv, FlatPlace, Completing
  <2>5. visit \notin freed
    <3>1. CASE Unlinking
      BY <2>0, <3>1, NilAssumption DEF ReclaimInv, UnlinkInv, Used, Gone
    <3>2. CASE ~ Unlinking
      BY <2>0, <3>2, NilAssumption DEF Unlinking, ReclaimInv, EraserInv, ErasePlace, FlatInv, HintInv, Used, Gone
    <3> QED BY <3>1, <3>2
  <2> QED BY <2>1, <2>2, <2>3, <2>4, <2>5 DEF SafeWalks
<1>2. ReclaimSpec => [](ReclaimInv /\ FlatInv)
  BY ReclaimStart, ReclaimStep, FlatStart, FlatStep, PTL DEF ReclaimSpec
<1> QED BY <1>1, <1>2, PTL

(***************************************************************************)
(* In such a program the eraser, which looks for its hint from the newest  *)
(* item on, never comes to the end of the list instead.                    *)
(***************************************************************************)
THEOREM HintFound == ASSUME Flat PROVE ReclaimSpec => []EraserFindsHint
<1>1. ReclaimInv /\ FlatInv => EraserFindsHint
  BY NilAssumption DEF FlatInv, HintInv, Used, Listed, EraserFindsHint
<1>2. ReclaimSpec => [](ReclaimInv /\ FlatInv)
  BY ReclaimStart, ReclaimStep, FlatStart, FlatStep, PTL DEF ReclaimSpec
<1> QED BY <1>1, <1>2, PTL

(***************************************************************************)
(* In such a program the promises of the insertion hold of a list from     *)
(* which items are taken out: no list of arguments is freed under who      *)
(* compares it, no dependency is linked too late, no task posted twice.    *)
(***************************************************************************)
THEOREM InsertionStaysSafe == ASSUME Flat PROVE ReclaimSpec => []InsertionSafe
<1>1. ReclaimInv /\ FlatInv => InsertionSafe
  <2> SUFFICES ASSUME ReclaimInv, FlatInv PROVE InsertionSafe
    OBVIOUS
  <2>1. ArgsAlive
    <3> SUFFICES ASSUME NEW t \in Task, ins[t] = "examine" PROVE args[scan[t]] = declared[scan[t]]
      BY DEF ArgsAlive
    <3>1. scan[t] # Nil
      BY DEF ReclaimInv, TypeInv, PointersOK
    <3>2. scan[t] \in Task
      BY <3>1, ScanOlder DEF FlatInv, Listed
    <3>3. Bothers(t, scan[t])
      BY DEF Bothers, Inserting
    <3> QED BY <3>2, <3>3 DEF FlatInv, LinksInv
  <2>2. NothingLost
    <3> SUFFICES ASSUME NEW t \in Task, status[t] = "Deallocatable" PROVE deps[t] = <<>>
      BY DEF NothingLost
    <3>1. run[t] \in RunPlace
      BY Types DEF ReclaimInv
    <3> QED BY <3>1 DEF FlatInv, PlacesInv, FlatPlace, LinksInv, Posted, RunPlace
  <2>3. PostedOnce
    <3>1. \A t \in Task : queue[t] \in Nat
      BY Types DEF ReclaimInv
    <3> QED BY <3>1 DEF FlatInv, PlacesInv, FlatPlace, PostedOnce
  <2> QED BY <2>1, <2>2, <2>3 DEF InsertionSafe
<1>2. ReclaimSpec => [](ReclaimInv /\ FlatInv)
  BY ReclaimStart, ReclaimStep, FlatStart, FlatStep, PTL DEF ReclaimSpec
<1> QED BY <1>1, <1>2, PTL

(***************************************************************************)
(* In such a program the comment "sometimes p == this, even if it          *)
(* shouldn't" never comes true: the scan only meets older items.           *)
(***************************************************************************)
THEOREM NeverItself == ASSUME Flat PROVE ReclaimSpec => []NotMyself
<1>1. ReclaimInv /\ FlatInv => NotMyself
  BY NilAssumption, ScanOlder DEF FlatInv, NotMyself
<1>2. ReclaimSpec => [](ReclaimInv /\ FlatInv)
  BY ReclaimStart, ReclaimStep, FlatStart, FlatStep, PTL DEF ReclaimSpec
<1> QED BY <1>1, <1>2, PTL

-----------------------------------------------------------------------------
(***************************************************************************)
(* In such a program, the order of execution does not depend on what the   *)
(* eraser takes out of the list: all of it has finished.  The invariants   *)
(* of WorklistProofs hold of the steps of this module too.                 *)
(***************************************************************************)
BornInv == \A t \in Task : Born(t) => declared[t] \in Uses[t]

OrderedInv == BornInv /\ ArgvInv /\ OrderInv

LEMMA OrderedStart == ReclaimInit => OrderedInv
BY OrderInit DEF ReclaimInit, Init, Born, BornInv, OrderedInv, OInv

LEMMA FlatScans ==
  ASSUME ReclaimInv, FlatInv, NEW t \in Task, ins[t] \in {"scan", "examine", "flag"}, scan[t] # Nil
  PROVE  ScanOK(t)
<1> DEFINE p == scan[t]
<1>1. /\ p \in Task /\ Pushed(p) /\ p \notin before[p] /\ p \in Listed
      /\ next[p] \in before[p] \cup {Nil}
  BY ScanOlder DEF FlatInv, Listed
<1>2. Reach(next[p]) \subseteq before[p]
  BY <1>1 DEF Reach, ReclaimInv, OlderInv
<1>3. \A q \in before[p] \ Reach(next[p]) : status[q] \in Finished
  <2>1. \A q \in before[p] \ Reach(next[p]) : q \in Gone
    BY <1>1 DEF FlatInv, WholeInv
  <2> QED BY <2>1 DEF FlatInv, WholeInv, Finished
<1>4. ins[t] = "examine" => args[p] = declared[p]
  <2>1. ins[t] = "examine" => Bothers(t, p)
    BY DEF Bothers, Inserting
  <2> QED BY <1>1, <2>1 DEF FlatInv, LinksInv
<1> QED BY <1>1, <1>2, <1>3, <1>4 DEF ScanOK

LEMMA FlatOrderFacts == ASSUME ReclaimInv, FlatInv, BornInv PROVE OrderOK
<1> SUFFICES ASSUME NEW t \in Task
             PROVE  /\ ~ Pushed(t) => /\ before[t] = {} /\ worklist # t
                                      /\ \A u \in Task : t \notin before[u] /\ (Pushed(u) => scan[u] # t)
                    /\ ins[t] = "inserted" => scan[t] = Nil
                    /\ Posted(t) => ins[t] = "inserted"
                    /\ run[t] = "drain" => status[current[t]] \in Finished
                    /\ Born(t) => status[t] # "Unallocated" /\ declared[t] \in Uses[t]
  BY FlatScans DEF OrderOK
<1>1. ~ Pushed(t) => /\ before[t] = {} /\ worklist # t
                     /\ \A u \in Task : t \notin before[u] /\ (Pushed(u) => scan[u] # t)
  <2> SUFFICES ASSUME ~ Pushed(t)
               PROVE  /\ before[t] = {} /\ worklist # t
                      /\ \A u \in Task : t \notin before[u] /\ scan[u] # t
    OBVIOUS
  <2>1. before[t] = {} /\ worklist # t /\ \A u \in Task : t \notin before[u]
    BY NilAssumption DEF ReclaimInv, OlderInv, Listed
  <2>2. \A u \in Task : scan[u] # t
    BY <2>1, NilAssumption DEF FlatInv, ScanInv
  <2> QED BY <2>1, <2>2
<1>2. ins[t] = "inserted" => scan[t] = Nil
  BY DEF FlatInv, ScanInv, Inserting
<1>3. FlatPlace(t)
  BY DEF FlatInv, PlacesInv
<1>4. run[t] = "drain" => status[current[t]] \in Finished
  BY <1>3 DEF FlatPlace, Completing, Finished
<1> QED BY <1>1, <1>2, <1>3, <1>4 DEF FlatPlace, Born, BornInv

(***************************************************************************)
(* What a step is to the worklist: the eraser changes nothing but next.    *)
(***************************************************************************)
LEMMA FlatActions ==
  ASSUME Flat, ReclaimInv, FlatInv, [ReclaimNext]_reclaimVars
  PROVE  \/ \E t \in Task : Insert(t) \/ Execute(t)
         \/ \E t \in Task : \E a \in Uses[t] :
               /\ Adds(t, a) /\ UNCHANGED worklist
               /\ \A u \in Task \ {t} : father'[u] = father[u] /\ status'[u] = status[u]
         \/ WaitForAll
         \/ UNCHANGED <<orderVars, worklist, father, status>>
<1>1. ASSUME NEW f \in Pointer, NEW t \in Task, NEW a \in Uses[t], ReclaimSpawn(f, t, a)
      PROVE  /\ Adds(t, a) /\ UNCHANGED worklist
             /\ \A u \in Task \ {t} : father'[u] = father[u] /\ status'[u] = status[u]
  <2>1. scan' = scan
    BY <1>1, SpawnPointers
  <2>2. father \in [Task -> Pointer] /\ status \in [Task -> Status]
    BY Types DEF ReclaimInv
  <2> QED BY <1>1, <2>1, <2>2 DEF ReclaimSpawn, Adds
<1>2. ASSUME NEW t \in Task, ReclaimInsert(t) PROVE Insert(t)
  <2>1. scan[t] # t
    BY ScanOlder, NilAssumption DEF FlatInv
  <2> QED BY <1>2, <2>1 DEF ReclaimInsert, ReclaimLook, Insert, Scan, SkipAncestor, Look
<1>3. ASSUME NEW t \in Task, ReclaimExecute(t)
      PROVE  Execute(t) \/ UNCHANGED <<orderVars, worklist, father, status>>
  <2>1. TestErase(t) \/ Claim(t) => UNCHANGED <<orderVars, worklist, father, status>>
    BY DEF TestErase, Claim, vars, itemVars, insVars, runVars, history, orderVars
  <2> QED BY <1>3, <2>1 DEF ReclaimExecute, ReclaimLoadHint, Execute
<1>4. Erase \/ UNCHANGED reclaimVars => UNCHANGED <<orderVars, worklist, father, status>>
  BY DEF Erase, BeginErase, LookAt, Keep, Cut, CutTail, Reload, WaitFill, FreeSublists, eraserIdle,
     reclaimVars, vars, itemVars, insVars, runVars, history, orderVars
<1>5. ReclaimWaitForAll => WaitForAll
  BY DEF ReclaimWaitForAll
<1> QED BY <1>1, <1>2, <1>3, <1>4, <1>5 DEF ReclaimNext

LEMMA FlatMoves ==
  ASSUME Flat, ReclaimInv, FlatInv, [ReclaimNext]_reclaimVars
  PROVE  MovesOK
<1>1. Moves
  <2>1. WaitForAll => UNCHANGED orderVars
    BY DEF WaitForAll, itemVars, insVars, runVars, history, orderVars
  <2> QED BY <2>1, FlatActions DEF Moves, orderVars
<1>2. ASSUME NEW t \in Task, SkipAncestor(t) PROVE FALSE
  BY <1>2 DEF SkipAncestor, FlatInv, PlacesInv, FlatPlace
<1> QED BY <1>1, <1>2, StatusStays, FlatLink, FlatRelease DEF MovesOK

LEMMA BornStep == ASSUME BornInv, TypeInv, MovesOK PROVE BornInv'
<1>t. ins \in [Task -> InsPlace] /\ declared \in [Task -> Seq(Region)]
  BY Types
<1>1. ASSUME NEW t \in Task, Insert(t) PROVE declared' = declared /\ \A u \in Task : Born(u)' <=> Born(u)
  BY <1>1, <1>t DEF Insert, Push, Scan, SkipAncestor, Look, Examine, Flag, Settle, SetWaiting, history, Born
<1>2. ASSUME NEW t \in Task, Execute(t) PROVE UNCHANGED <<declared, ins>>
  BY <1>2 DEF Execute, Start, EndBody, MarkDone, LoadHint, Walk, Drain, FreeDeps, Release, Climb, history, insVars
<1>3. ASSUME NEW t \in Task, NEW a \in Uses[t], Adds(t, a) PROVE BornInv'
  BY <1>3, <1>t DEF Adds, BornInv, Born
<1>4. CASE UNCHANGED orderVars
  BY <1>4 DEF orderVars, BornInv, Born
<1> QED BY <1>1, <1>2, <1>3, <1>4 DEF MovesOK, Moves, BornInv, Born

LEMMA OrderedStep ==
  ASSUME Flat, Separate
  PROVE  ReclaimInv /\ FlatInv /\ OrderedInv /\ [ReclaimNext]_reclaimVars => OrderedInv'
<1> SUFFICES ASSUME ReclaimInv, FlatInv, OrderedInv, [ReclaimNext]_reclaimVars PROVE OrderedInv'
  OBVIOUS
<1>1. TypeInv /\ CountInv /\ BornInv /\ ArgvInv /\ OrderInv
  BY DEF ReclaimInv, FlatInv, OrderedInv
<1>2. OrderOK /\ MovesOK
  BY <1>1, FlatOrderFacts, FlatMoves
<1> QED BY <1>1, <1>2, BornStep, ArgvStep, OrderStep DEF OrderedInv

LEMMA OrderedAlways ==
  ASSUME Flat, Separate
  PROVE  ReclaimSpec => [](ReclaimInv /\ FlatInv /\ OrderedInv)
BY ReclaimStart, ReclaimStep, FlatStart, FlatStep, OrderedStart, OrderedStep, PTL DEF ReclaimSpec

(***************************************************************************)
(* In such a program a task only starts when every preceding task with a   *)
(* conflicting argument has finished, though the search for them may go    *)
(* over items that the eraser is taking out of the list.                   *)
(***************************************************************************)
THEOREM OrderedWithEraser == ASSUME Flat, Separate PROVE ReclaimSpec => []StartsInOrder
<1>1. ReclaimInv /\ FlatInv /\ OrderedInv => StartsInOrder
  BY FlatOrderFacts, PostedFollows DEF StartsInOrder, Posted, ReclaimInv, FlatInv, OrderedInv
<1> QED BY <1>1, OrderedAlways, PTL

(***************************************************************************)
(* In such a program wait_for_all, which frees what is left in the list,   *)
(* only does so when all the tasks in it have finished: none waits for an  *)
(* item that the eraser has taken out.                                     *)
(***************************************************************************)
THEOREM WaitsWithEraser == ASSUME Flat PROVE ReclaimSpec => WaitsForAll
<1>1. ReclaimInv /\ FlatInv /\ [ReclaimNext]_reclaimVars =>
        [worklist' = Nil => \A t \in InWorklist : status[t] \in Finished]_worklist
  <2> SUFFICES ASSUME ReclaimInv, FlatInv, [ReclaimNext]_reclaimVars,
                      worklist' # worklist, worklist' = Nil, NEW t \in InWorklist
               PROVE  status[t] \in Finished
    OBVIOUS
  <2>1. \A u \in Task : ~ Push(u)
    BY NilAssumption DEF Push
  <2>2. Quiescent
    <3>1. Erase => UNCHANGED worklist
      BY DEF Erase, BeginErase, LookAt, Keep, Cut, CutTail, Reload, WaitFill, FreeSublists, eraserIdle, vars
    <3> QED BY <2>1, <3>1, ListActions DEF ReclaimWaitForAll, WaitForAll
  <2>3. t \in Listed
    <3>1. worklist \in Pointer
      BY Types DEF ReclaimInv
    <3> QED BY <3>1 DEF InWorklist, ReclaimInv, OlderInv, Pointer
  <2> QED BY <2>2, <2>3, FlatQuiet DEF Finished
<1>2. ReclaimSpec => [](ReclaimInv /\ FlatInv)
  BY ReclaimStart, ReclaimStep, FlatStart, FlatStep, PTL DEF ReclaimSpec
<1> QED BY <1>1, <1>2, PTL DEF ReclaimSpec, WaitsForAll

-----------------------------------------------------------------------------
(***************************************************************************)
(* What TaskGraph sees of a task that is no subtask.                       *)
(***************************************************************************)
LEMMA FlatSeen == ReclaimInv /\ FlatInv => Seen
<1> SUFFICES ASSUME ReclaimInv, FlatInv, NEW t \in Task
             PROVE  /\ father[t] # Nil => father[father[t]] = Nil
                    /\ Pushed(t) => status[t] \in Active \cup Finished
  BY SeenPhase
<1>1. FlatPlace(t) /\ status[t] \in Status
  BY Types DEF ReclaimInv, FlatInv, PlacesInv
<1> QED BY <1>1 DEF FlatPlace, Pushed, Status

LEMMA FlatSeenNext == ReclaimInv' /\ FlatInv' => Seen'
BY FlatSeen, PTL

LEMMA FlatGraphPush ==
  ASSUME ReclaimInv, FlatInv, OrderedInv, Seen, Seen', NEW t \in Task, Push(t)
  PROVE  \E a \in Uses[t] : Graph!Spawn(Nil, t, a)
<1>t. /\ ins \in [Task -> InsPlace] /\ before \in [Task -> SUBSET Task]
  BY Types DEF ReclaimInv
<1>1. /\ UNCHANGED <<status, father, run, declared>> /\ ins[t] = "push" /\ ins'[t] = "scan"
      /\ \A u \in Task \ {t} : ins'[u] = ins[u]
      /\ worklist' = t /\ before' = [before EXCEPT ![t] = InWorklist]
  BY <1>t DEF Push, runVars
<1>2. ~ Pushed(t) /\ Pushed(t)' /\ Inserting(t) /\ Born(t)
  BY <1>1 DEF Pushed, Inserting, Born
<1>3. FlatPlace(t)
  BY DEF FlatInv, PlacesInv
<1>4. status[t] \notin Finished /\ run[t] = "idle" /\ father[t] = Nil
  BY <1>1, <1>2, <1>3 DEF FlatPlace, Posted, Finished
<1>5. PhaseOf(t) = "unborn" /\ PhaseOf(t)' = "pending" /\ Ancestors'[t] = {}
  BY <1>1, <1>2, <1>4 DEF Seen
<1>6. \A u \in Task \ {t} : Same(u)
  BY <1>1 DEF Same, Pushed
<1>7. \A u \in Task \ {t} : /\ PhaseOf(u)' = PhaseOf(u)
                            /\ Pushed(u)' <=> Pushed(u)
                            /\ Pushed(u) => Ancestors'[u] = Ancestors[u] /\ declared'[u] = declared[u]
  BY <1>6, SameSeen
<1>8. [u \in Task |-> PhaseOf(u)]' = [[u \in Task |-> PhaseOf(u)] EXCEPT ![t] = "pending"]
  BY <1>5, <1>7
<1>9. [u \in Task |-> IF Pushed(u) THEN declared[u] ELSE <<>>]'
        = [[u \in Task |-> IF Pushed(u) THEN declared[u] ELSE <<>>] EXCEPT ![t] = declared[t]]
  BY <1>1, <1>2, <1>7
<1>10. [u \in Task |-> IF Pushed(u) THEN Ancestors[u] ELSE {}]'
         = [[u \in Task |-> IF Pushed(u) THEN Ancestors[u] ELSE {}] EXCEPT ![t] = {}]
  BY <1>2, <1>5, <1>7
<1>11. InWorklist' = InWorklist \cup {t}
  <2>1. InWorklist' = before'[t] \cup {t}
    BY <1>1, NilAssumption DEF InWorklist
  <2> QED BY <2>1, <1>1, <1>t
<1>12. PICK a \in Uses[t] : a = declared[t]
  BY <1>2 DEF OrderedInv, BornInv
<1>13. Graph!Spawn(Nil, t, a)
  BY <1>1, <1>5, <1>8, <1>9, <1>10, <1>11, <1>12 DEF Graph!Spawn
<1> QED BY <1>13

LEMMA FlatGraphStart ==
  ASSUME ReclaimInv, FlatInv, OrderedInv, Seen, Seen', NEW t \in Task, Start(t)
  PROVE  Graph!Start(t)
<1>t. status \in [Task -> Status] /\ run \in [Task -> RunPlace]
  BY Types DEF ReclaimInv
<1>1. /\ UNCHANGED <<worklist, before, declared, father, ins>>
      /\ run[t] = "idle" /\ run' = [run EXCEPT ![t] = "body"]
      /\ status' = [status EXCEPT ![t] = "Running"] /\ queue[t] > 0
  BY DEF Start, insVars, history
<1>2. Posted(t) /\ Pushed(t) /\ Pushed(t)' /\ status[t] \notin Finished
  <2>1. FlatPlace(t)
    BY DEF FlatInv, PlacesInv
  <2> QED BY <1>1, <2>1 DEF FlatPlace, Posted, Pushed, Finished
<1>3. \A u \in Task \ {t} : Same(u)
  BY <1>1, <1>t DEF Same, Pushed
<1>4. PhaseOf(t) = "pending" /\ PhaseOf(t)' = "running"
  BY <1>1, <1>2, <1>t DEF Seen, Finished
<1>5. ASSUME NEW q \in Task, Graph!MustWaitFor(t, q) PROVE PhaseOf(q) = "finished"
  <2>1. /\ q \in before[t]
        /\ Graph!Conflicting(IF Pushed(q) THEN declared[q] ELSE <<>>, declared[t])
    BY <1>2, <1>5 DEF Graph!MustWaitFor
  <2>2. Conflicting(IF Pushed(q) THEN declared[q] ELSE <<>>, declared[t])
    BY <2>1, SameConflicts
  <2>3. Pushed(q)
    BY <2>1 DEF ReclaimInv, OlderInv, Listed
  <2>4. TypeInv /\ CountInv /\ OrderInv /\ BornInv
    BY DEF ReclaimInv, FlatInv, OrderedInv
  <2>5. status[q] \in Finished
    BY <1>2, <2>1, <2>2, <2>3, <2>4, FlatOrderFacts, PostedFollows
  <2> QED BY <2>3, <2>5 DEF Seen
<1> QED BY <1>1, <1>2, <1>3, <1>4, <1>5, GraphMove DEF Graph!Start

LEMMA FlatGraphEnd ==
  ASSUME ReclaimInv, FlatInv, Seen, Seen', NEW t \in Task, EndBody(t) \/ MarkDone(t)
  PROVE  Graph!EndBody(t) \/ Graph!Finish(t)
<1>t. status \in [Task -> Status] /\ run \in [Task -> RunPlace]
  BY Types DEF ReclaimInv
<1>1. FlatPlace(t)
  BY DEF FlatInv, PlacesInv
<1>2. /\ UNCHANGED <<worklist, before, declared, father, ins>>
      /\ run[t] \in {"body", "mark"} /\ status[t] = "Running"
      /\ \A u \in Task \ {t} : run'[u] = run[u] /\ status'[u] = status[u]
  BY <1>1, <1>t DEF EndBody, MarkDone, insVars, history, FlatPlace, Completing
<1>3. Pushed(t) /\ Pushed(t)'
  BY <1>1, <1>2 DEF FlatPlace, Posted, Pushed
<1>4. \A u \in Task \ {t} : Same(u)
  BY <1>2 DEF Same, Pushed
<1>5. CASE EndBody(t)
  <2>1. run[t] = "body" /\ run'[t] \in {"mark", "out"} /\ status'[t] = status[t]
    BY <1>5, <1>t DEF EndBody
  <2>2. PhaseOf(t) = "running" /\ PhaseOf(t)' = "ended"
    BY <1>2, <1>3, <2>1 DEF Seen, Finished
  <2> QED BY <1>2, <1>3, <1>4, <2>2, GraphMove DEF Graph!EndBody
<1>6. CASE MarkDone(t)
  <2>1. run[t] = "mark" /\ run'[t] = "load" /\ status'[t] = "Done"
    BY <1>1, <1>6, <1>t DEF MarkDone, FlatPlace, Completing
  <2>2. PhaseOf(t) = "ended" /\ PhaseOf(t)' = "finished"
    BY <1>2, <1>3, <2>1 DEF Seen, Finished
  <2>3. \A c \in Task : t \notin IF Pushed(c) THEN Ancestors[c] ELSE {}
    BY DEF Seen, FlatInv, PlacesInv, FlatPlace
  <2> QED BY <1>2, <1>3, <1>4, <2>2, <2>3, GraphMove DEF Graph!Finish
<1> QED BY <1>5, <1>6

LEMMA FlatGraphStep ==
  ASSUME Flat, ReclaimInv, FlatInv, OrderedInv, Seen, Seen', [ReclaimNext]_reclaimVars
  PROVE  [Graph!Next]_Graph!vars
<1>t. /\ status \in [Task -> Status] /\ ins \in [Task -> InsPlace] /\ run \in [Task -> RunPlace]
  BY Types DEF ReclaimInv
<1>p. \A t \in Task : FlatPlace(t)
  BY DEF FlatInv, PlacesInv
<1>1. ASSUME NEW t \in Task, NEW a \in Uses[t], Adds(t, a), UNCHANGED worklist,
             \A u \in Task \ {t} : father'[u] = father[u] /\ status'[u] = status[u]
      PROVE  UNCHANGED Graph!vars
  <2>1. /\ UNCHANGED <<worklist, before, run>> /\ ins[t] = "unborn" /\ ins'[t] = "push"
        /\ \A u \in Task \ {t} : ins'[u] = ins[u] /\ declared'[u] = declared[u]
    BY <1>1, <1>t DEF Adds
  <2>2. \A u \in Task : Same(u)
    BY <1>1, <2>1 DEF Same, Pushed
  <2> QED BY <2>1, <2>2, GraphStutter
<1>2. ASSUME NEW t \in Task, Push(t) PROVE Graph!Next
  BY <1>2, FlatGraphPush DEF Graph!Next
<1>3. ASSUME NEW t \in Task,
             SkipAncestor(t) \/ Look(t) \/ Examine(t) \/ Flag(t) \/ Settle(t) \/ SetWaiting(t)
      PROVE  UNCHANGED Graph!vars
  <2>1. UNCHANGED <<worklist, before, declared, father, run>>
    BY <1>3 DEF SkipAncestor, Look, Examine, Flag, Settle, SetWaiting, itemVars, runVars, history
  <2>2. \A u \in Task : Pushed(u)' <=> Pushed(u)
    BY <1>3, <1>t DEF SkipAncestor, Look, Examine, Flag, Settle, SetWaiting, Pushed
  <2>3. status[t] \notin Finished
    BY <1>3, <1>p DEF SkipAncestor, Look, Examine, Flag, Settle, SetWaiting, Inserting, FlatPlace, Finished
  <2>4. \A u \in Task : status'[u] = status[u] \/ (u = t /\ status'[u] \notin Finished)
    BY <1>3, <1>t DEF SkipAncestor, Look, Examine, Flag, Settle, SetWaiting, itemVars, Finished
  <2>5. \A u \in Task : Same(u)
    BY <2>1, <2>2, <2>3, <2>4 DEF Same
  <2> QED BY <2>1, <2>5, GraphStutter
<1>4. ASSUME NEW t \in Task, LoadHint(t) \/ Walk(t) \/ FreeDeps(t) \/ Release(t) \/ Climb(t)
      PROVE  UNCHANGED Graph!vars
  <2>0. run[t] \in {"climb", "free"} => current[t] = t /\ father[t] = Nil
    BY <1>p DEF FlatPlace, Completing
  <2>1. UNCHANGED <<worklist, before, declared, father, ins>>
    BY <1>4 DEF LoadHint, Walk, FreeDeps, Release, Climb, itemVars, insVars, history
  <2>2. /\ run[t] \notin {"idle", "body"} /\ run'[t] \notin {"idle", "body"}
        /\ \A u \in Task \ {t} : run'[u] = run[u]
    BY <1>4, <1>t DEF LoadHint, Walk, FreeDeps, Release, Climb
  <2>3. ~ Release(t) => UNCHANGED status
    BY <1>4 DEF LoadHint, Walk, FreeDeps, Climb, itemVars
  <2>4. Release(t) => \A u \in Task : status'[u] \in Finished <=> status[u] \in Finished
    BY <2>0, <1>p, <1>t DEF Release, FlatPlace, Finished
  <2>5. \A u \in Task : Same(u)
    BY <2>1, <2>2, <2>3, <2>4 DEF Same, Pushed
  <2> QED BY <2>1, <2>5, GraphStutter
<1>5. ASSUME NEW t \in Task, Drain(t) PROVE UNCHANGED Graph!vars
  <2>1. UNCHANGED <<worklist, before, declared, father, ins, run>>
    BY <1>5 DEF Drain, insVars, history
  <2>2. current[t] = t
    BY <1>5, <1>p DEF Drain, FlatPlace, Completing
  <2>3. status[deps[t][idep[t]]] = "Waiting"
    BY <1>5, FlatRelease
  <2>4. UNCHANGED status \/ status' = [status EXCEPT ![deps[t][idep[t]]] = "Ready"]
    BY <1>5, <2>2 DEF Drain
  <2>5. \A u \in Task : Same(u)
    BY <2>1, <2>3, <2>4, <1>t DEF Same, Pushed, Finished
  <2> QED BY <2>1, <2>5, GraphStutter
<1>6. ASSUME NEW t \in Task, Start(t) \/ EndBody(t) \/ MarkDone(t) PROVE Graph!Next
  BY <1>6, FlatGraphStart, FlatGraphEnd DEF Graph!Next
<1>7. ASSUME WaitForAll PROVE Graph!WaitForAll
  <2>1. /\ Quiescent /\ worklist' = Nil
        /\ UNCHANGED <<before, declared, father, ins, run, status>>
    BY <1>7 DEF WaitForAll, itemVars, insVars, runVars, history
  <2>2. \A u \in InWorklist : u \in Task /\ u \in Listed /\ Pushed(u)
    BY Types DEF InWorklist, ReclaimInv, OlderInv, Pointer, Listed
  <2>3. \A u \in InWorklist : PhaseOf(u) = "finished"
    BY <2>1, <2>2, FlatQuiet DEF Seen, Finished
  <2>4. \A u \in Task : Same(u)
    BY <2>1 DEF Same, Pushed
  <2>5. \A u \in Task : /\ PhaseOf(u)' = PhaseOf(u)
                        /\ Pushed(u)' <=> Pushed(u)
                        /\ Pushed(u) => Ancestors'[u] = Ancestors[u] /\ declared'[u] = declared[u]
    BY <2>4, SameSeen
  <2>6. InWorklist' = {}
    BY <2>1 DEF InWorklist
  <2> QED BY <2>1, <2>2, <2>3, <2>5, <2>6 DEF Graph!WaitForAll
<1>8. CASE UNCHANGED <<orderVars, worklist, father, status>>
  <2>1. \A u \in Task : Same(u)
    BY <1>8 DEF Same, Pushed, orderVars
  <2> QED BY <1>8, <2>1, GraphStutter DEF orderVars
<1>9. ASSUME NEW t \in Task, Insert(t) \/ Execute(t) PROVE Graph!Next \/ UNCHANGED Graph!vars
  BY <1>2, <1>3, <1>4, <1>5, <1>6, <1>9 DEF Insert, Scan, Execute
<1>10. WaitForAll => Graph!Next
  BY <1>7 DEF Graph!Next
<1> QED BY <1>1, <1>8, <1>9, <1>10, FlatActions

(***************************************************************************)
(* In such a program the worklist with its eraser implements TaskGraph, as *)
(* the worklist without it does: what is taken out of the list, and given  *)
(* to new items, changes nothing of the order that is promised.            *)
(***************************************************************************)
THEOREM GraphWithEraser == ASSUME Flat, Separate PROVE ReclaimSpec => ImplementsTaskGraph
<1>1. ReclaimInit => Graph!Init
  BY GraphInit DEF ReclaimInit
<1>2. ReclaimInv /\ FlatInv /\ OrderedInv /\ ReclaimInv' /\ FlatInv' /\ [ReclaimNext]_reclaimVars
        => [Graph!Next]_Graph!vars
  <2> SUFFICES ASSUME ReclaimInv, FlatInv, OrderedInv, ReclaimInv', FlatInv', [ReclaimNext]_reclaimVars
               PROVE  [Graph!Next]_Graph!vars
    OBVIOUS
  <2>1. Seen /\ Seen'
    BY FlatSeen, FlatSeenNext
  <2> QED BY <2>1, FlatGraphStep
<1> QED BY <1>1, <1>2, OrderedAlways, PTL DEF ReclaimSpec, ImplementsTaskGraph, Graph!Spec

-----------------------------------------------------------------------------
(***************************************************************************)
(* The observers of such a program.  A step is one of Reclaim or leaves    *)
(* all that FlatInv is about.                                              *)
(***************************************************************************)
LEMMA UntouchedFlat == ASSUME ReclaimInv, FlatInv, UNCHANGED untouched PROVE FlatInv'
<1>1. /\ UNCHANGED <<worklist, next, status, optFlags, father, args, ndependencies, nchildren, deps, queue>>
      /\ UNCHANGED <<ins, scan, ancestor, argv, run, walk, current, idep, declared, before>>
      /\ UNCHANGED <<eraser, erasing, hint, lastkeep, visit, deletable, Dones, Sublists, freed>>
  BY DEF untouched, vars, itemVars, insVars, runVars, history, eraserVars
<1>2. /\ UNCHANGED <<Listed, Gone, Used, InWorklist>> /\ (Unlinking' <=> Unlinking)
      /\ \A t \in Task : /\ FlatPlace(t)' <=> FlatPlace(t)
                         /\ Inserting(t)' <=> Inserting(t)
                         /\ Pushed(t)' <=> Pushed(t)
      /\ \A p : Reach(p)' = Reach(p)
  BY <1>1 DEF Listed, Gone, Used, InWorklist, Unlinking, FlatPlace, Inserting, Pushed, Posted, Completing, Reach
<1>3. PlacesInv'
  BY <1>2 DEF FlatInv, PlacesInv
<1>4. WholeInv'
  BY <1>1, <1>2 DEF FlatInv, WholeInv
<1>5. ScanInv'
  BY <1>1, <1>2 DEF FlatInv, ScanInv
<1>6. LinksInv'
  BY <1>1, SameLinks DEF FlatInv, linkVars
<1>7. CountInv'
  BY <1>1, CountSame DEF FlatInv, ReclaimInv
<1>8. WaitersInv'
  BY <1>1, <1>2 DEF FlatInv, WaitersInv, StillToPass
<1>9. HintInv'
  <2>1. HintInv
    BY DEF FlatInv
  <2>2. Inserting(hint)' <=> Inserting(hint)
    BY <1>1 DEF Inserting
  <2> QED BY <1>1, <1>2, <2>1, <2>2 DEF HintInv
<1> QED BY <1>3, <1>4, <1>5, <1>6, <1>7, <1>8, <1>9 DEF FlatInv

(***************************************************************************)
(* What the observers do is a step of Reclaim, or touches none of that.    *)
(***************************************************************************)
LEMMA ObserverActions ==
  ASSUME [ObserverNext]_observerVars
  PROVE  [ReclaimNext]_reclaimVars \/ UNCHANGED untouched
<1>1. ASSUME NEW f \in Pointer, SpawnOf(f) PROVE ReclaimNext
  BY <1>1 DEF SpawnOf, ObserverSpawn, ReclaimNext
<1>2. ASSUME NEW t \in Task, ObserverInsert(t) \/ ObserverExecute(t) PROVE ReclaimNext
  BY <1>2 DEF ObserverInsert, ObserverExecute, ReclaimNext
<1>3. ObserverOthers => ReclaimNext
  BY DEF ObserverOthers, ReclaimNext
<1>4. ASSUME NEW f \in Pointer, TryToRun(f) \/ AwaitTask(f) PROVE ReclaimNext
  <2>1. PICK q \in Task : TakeTask(f, q)
    BY <1>4 DEF TryToRun, AwaitTask
  <2>2. ReclaimExecute(q)
    BY <2>1 DEF TakeTask, ReclaimExecute
  <2> QED BY <2>2 DEF ReclaimNext
<1>5. UNCHANGED reclaimVars => UNCHANGED untouched
  BY DEF reclaimVars, untouched
<1>6. ASSUME NEW f \in Pointer, Observe(f), ~ TryToRun(f), ~ AwaitTask(f) PROVE UNCHANGED untouched
  BY <1>5, <1>6 DEF Observe, Build, WaitForSubtasks, Destroy, StartWait, FirstPass, NextPass, StartPass,
     Visit, GoOn, EndWait, AwaitNext
<1> QED BY <1>1, <1>2, <1>3, <1>4, <1>5, <1>6 DEF ObserverNext, observerVars

(***************************************************************************)
(* The main thread, while it waits: nothing is inserted, and a walk that   *)
(* has met no unfinished item has left none behind.                        *)
(***************************************************************************)
PassInv ==
  /\ Waiting(Nil) => Nil \in fathers[Nil] /\ \A t \in Task : ~ Inserting(t)
  /\ obs[Nil] \in {"try", "help"} => again[Nil]
  /\ obs[Nil] = "pass" /\ ~ again[Nil] =>
        /\ seen[Nil] \in Listed \cup {Nil}
        /\ \A t \in Listed \ Reach(seen[Nil]) : status[t] \in Finished

(***************************************************************************)
(* The steps of others, to which the walk that goes on is at best stale:   *)
(* what has finished stays so, and nothing is pushed.                      *)
(***************************************************************************)
LEMMA QuietStep ==
  ASSUME Flat, ReclaimInv, FlatInv, PassInv,
         UNCHANGED <<obs[Nil], again[Nil], seen[Nil], fathers[Nil]>>, Waiting(Nil),
         \/ \E t \in Task : ReclaimInsert(t) \/ ReclaimExecute(t)
         \/ Erase \/ ReclaimWaitForAll \/ UNCHANGED untouched
  PROVE  PassInv'
<1>t. ins \in [Task -> InsPlace]
  BY Types DEF ReclaimInv
<1>n. \A t \in Task : ~ Inserting(t)
  BY DEF PassInv
<1>1. UNCHANGED <<ins, before>>
  <2>1. ASSUME NEW t \in Task, ReclaimInsert(t) PROVE FALSE
    BY <1>n, <2>1 DEF ReclaimInsert, Push, SkipAncestor, ReclaimLook, Look, Examine, Flag, Settle, SetWaiting, Inserting
  <2>2. ASSUME NEW t \in Task, ReclaimExecute(t) PROVE UNCHANGED <<ins, before>>
    BY <2>2 DEF ReclaimExecute, TestErase, Claim, ReclaimLoadHint, Start, EndBody, MarkDone, LoadHint, Walk, Drain, FreeDeps,
       Release, Climb, vars, insVars, history
  <2>3. CASE Erase \/ ReclaimWaitForAll \/ UNCHANGED untouched
    BY <2>3 DEF Erase, BeginErase, LookAt, Keep, Cut, CutTail, Reload, WaitFill, FreeSublists, eraserIdle,
       ReclaimWaitForAll, WaitForAll, untouched, vars, insVars, history
  <2> QED BY <2>1, <2>2, <2>3
<1>2. /\ Listed' = Listed /\ \A t \in Task : Inserting(t)' <=> Inserting(t)
      /\ \A p : Reach(p)' = Reach(p)
  BY <1>1 DEF Listed, Pushed, Inserting, Reach
<1>3. \A t \in Task : status[t] \in Finished => status'[t] \in Finished
  <2>1. UNCHANGED untouched => UNCHANGED status
    BY DEF untouched, vars, itemVars
  <2> QED BY <2>1, StatusStays DEF ReclaimNext
<1>4. Waiting(Nil)'
  BY DEF Waiting
<1> QED BY <1>2, <1>3 DEF PassInv, Listed, Waiting

(***************************************************************************)
(* All steps.  At the newest item only finished ones are out of reach      *)
(* (WholeInv), and so is what lies between an item and its next.           *)
(***************************************************************************)
LEMMA PassStep ==
  ASSUME Flat, ReclaimInv, FlatInv, ObserverTypes, PassInv, [ObserverNext]_observerVars
  PROVE  PassInv'
<1>t. /\ obs \in [Pointer -> ObserverPlace] /\ fathers \in [Pointer -> SUBSET Pointer]
      /\ seen \in [Pointer -> Pointer] /\ again \in [Pointer -> BOOLEAN]
      /\ Nil \in Pointer /\ worklist \in Pointer /\ status \in [Task -> Status]
  BY Types DEF ObserverTypes, Pointer, ReclaimInv
<1>l. \A t \in Listed : t \in Task /\ status[t] \in Active \cup Finished
  BY <1>t DEF Listed, Pushed, FlatInv, PlacesInv, FlatPlace, Status
<1>same. ASSUME UNCHANGED <<obs[Nil], again[Nil], seen[Nil], fathers[Nil]>>,
                \/ \E t \in Task : ReclaimInsert(t) \/ ReclaimExecute(t)
                \/ Erase \/ ReclaimWaitForAll \/ UNCHANGED untouched
         PROVE  PassInv'
  BY <1>same, QuietStep DEF PassInv, Waiting
<1>none. ASSUME obs'[Nil] \notin {"spin", "pass", "try", "help"} PROVE PassInv'
  BY <1>none DEF PassInv, Waiting
<1>1. ASSUME NEW f \in Pointer, SpawnOf(f) PROVE PassInv'
  <2>0. PICK t \in Task : \E a \in Uses[t] : ObserverSpawn(f, t, a)
    BY <1>1 DEF SpawnOf
  <2>1. PICK a \in Uses[t] : ObserverSpawn(f, t, a)
    BY <2>0
  <2>2. f = Nil
    BY <2>1, FlatSpawn DEF ObserverSpawn, ReclaimInv, FlatInv
  <2>3. ~ Waiting(Nil) /\ obs' = obs
    BY <2>1, <2>2 DEF ObserverSpawn, Busy, Blocked
  <2> QED BY <2>3, <1>none DEF Waiting
<1>2. ASSUME NEW t \in Task, ObserverInsert(t) \/ ObserverExecute(t) PROVE PassInv'
  BY <1>2, <1>same DEF ObserverInsert, ObserverExecute, obsVars, walkVars
<1>3. ASSUME ObserverOthers \/ UNCHANGED observerVars PROVE PassInv'
  <2>1. UNCHANGED observerVars => UNCHANGED untouched
    BY DEF observerVars, reclaimVars, untouched
  <2> QED BY <1>3, <2>1, <1>same DEF ObserverOthers, obsVars, walkVars, observerVars
<1>u. UNCHANGED reclaimVars => UNCHANGED untouched
  BY DEF reclaimVars, untouched
<1>r. ASSUME NEW f \in Pointer, TryToRun(f) \/ AwaitTask(f)
      PROVE  \E q \in Task : ReclaimExecute(q) /\ UNCHANGED <<ins, seen, again, fathers>>
  <2>1. PICK q \in Task : TakeTask(f, q)
    BY <1>r DEF TryToRun, AwaitTask
  <2>2. ReclaimExecute(q) /\ UNCHANGED <<ins, seen, again, fathers>>
    BY <2>1 DEF TakeTask, ReclaimExecute, Start, insVars
  <2> QED BY <2>2
<1>4. ASSUME NEW f \in Task, Observe(f) PROVE PassInv'
  <2>1. f \in Pointer /\ f # Nil
    BY NilAssumption DEF Pointer
  <2>2. UNCHANGED <<obs[Nil], again[Nil], seen[Nil], fathers[Nil]>>
    <3>1. CASE TryToRun(f) \/ AwaitTask(f)
      <4>1. UNCHANGED <<seen, again, fathers>>
        BY <3>1, <2>1, <1>r
      <4>2. obs'[Nil] = obs[Nil]
        BY <3>1, <2>1, <1>t DEF TryToRun, AwaitTask
      <4> QED BY <4>1, <4>2
    <3>2. CASE Build(f) \/ WaitForSubtasks(f) \/ Destroy(f)
      BY <3>2, <2>1, <1>t DEF Build, WaitForSubtasks, Destroy, StartWait, walkVars
    <3>3. CASE FirstPass(f) \/ NextPass(f)
      BY <3>3, <2>1, <1>t DEF FirstPass, NextPass, StartPass
    <3>4. CASE Visit(f)
      BY <3>4, <2>1, <1>t DEF Visit
    <3>5. CASE GoOn(f) \/ EndWait(f) \/ AwaitNext(f)
      BY <3>5, <2>1, <1>t DEF GoOn, EndWait, AwaitNext, walkVars
    <3> QED BY <1>4, <3>1, <3>2, <3>3, <3>4, <3>5 DEF Observe
  <2>3. (\E q \in Task : ReclaimExecute(q)) \/ UNCHANGED untouched
    BY <1>4, <2>1, <1>r, <1>u DEF Observe, Build, WaitForSubtasks, Destroy, StartWait, FirstPass, NextPass,
       StartPass, Visit, GoOn, EndWait, AwaitNext
  <2> QED BY <2>2, <2>3, <1>same
<1>5. CASE Build(Nil) \/ EndWait(Nil)
  BY <1>5, <1>t, <1>none DEF Build, EndWait
<1>6. CASE WaitForSubtasks(Nil) \/ Destroy(Nil)
  <2>1. StartWait(Nil)
    BY <1>6 DEF WaitForSubtasks, Destroy
  <2>2. obs'[Nil] = "spin" /\ fathers'[Nil] = {Nil} /\ InUserCode(Nil) /\ ins' = ins
    BY <2>1, <1>t DEF StartWait, untouched, vars, insVars
  <2>3. \A t \in Task : ~ Inserting(t)
    BY <2>2 DEF InUserCode, FlatInv, PlacesInv, FlatPlace
  <2> QED BY <2>2, <2>3 DEF PassInv, Inserting
<1>7. CASE FirstPass(Nil) \/ NextPass(Nil)
  <2>1. /\ obs'[Nil] = "pass" /\ seen'[Nil] = worklist /\ fathers' = fathers /\ Waiting(Nil)
        /\ UNCHANGED <<ins, before, worklist, status>>
    BY <1>7, <1>t DEF FirstPass, NextPass, StartPass, Waiting, reclaimVars, vars, itemVars, insVars, history
  <2>2. worklist \in Listed \cup {Nil}
    BY DEF ReclaimInv, OlderInv
  <2>3. \A t \in Listed \ Reach(worklist) : status[t] \in Finished
    <3>1. Reach(worklist) = InWorklist
      BY DEF Reach, InWorklist
    <3> QED BY <3>1 DEF FlatInv, WholeInv, Used, Finished
  <2>4. Listed' = Listed /\ Reach(worklist)' = Reach(worklist) /\ \A t \in Task : Inserting(t)' <=> Inserting(t)
    BY <2>1 DEF Listed, Pushed, Reach, Inserting
  <2> QED BY <2>1, <2>2, <2>3, <2>4 DEF PassInv, Reach
<1>8. CASE Visit(Nil)
  <2> DEFINE p == seen[Nil]
  <2>1. /\ obs[Nil] = "pass" /\ p # Nil /\ p \in Task /\ Waiting(Nil)
        /\ UNCHANGED <<ins, before, next, status>>
    BY <1>8, <1>t DEF Visit, Waiting, reclaimVars, vars, itemVars, insVars, history, Pointer
  <2>2. father[p] \in fathers[Nil] /\ Nil \in fathers[Nil]
    BY <2>1 DEF PassInv, FlatInv, PlacesInv, FlatPlace
  <2>3. /\ Nil \in fathers'[Nil]
        /\ \/ status[p] \in Active /\ again'[Nil] /\ obs'[Nil] = "try"
           \/ /\ status[p] \notin Active /\ again'[Nil] = again[Nil]
              /\ obs'[Nil] = "pass" /\ seen'[Nil] = next[p]
    BY <1>8, <1>t, <2>1, <2>2 DEF Visit
  <2>4. Listed' = Listed /\ \A t \in Task : Inserting(t)' <=> Inserting(t)
    BY <2>1 DEF Listed, Pushed, Inserting
  <2>5. CASE again'[Nil]
    BY <2>1, <2>3, <2>4, <2>5 DEF PassInv
  <2>6. CASE ~ again'[Nil]
    <3>1. /\ ~ again[Nil] /\ status[p] \notin Active /\ seen'[Nil] = next[p] /\ obs'[Nil] = "pass"
      BY <2>3, <2>6
    <3>2. p \in Listed /\ \A t \in Listed \ Reach(p) : status[t] \in Finished
      BY <2>1, <3>1 DEF PassInv
    <3>3. next[p] \in before[p] \cup {Nil} /\ before[p] \subseteq Listed
      BY <3>2, <2>1 DEF ReclaimInv, OlderInv
    <3>4. \A t \in before[p] \ Reach(next[p]) : status[t] \in Finished
      BY <3>2 DEF FlatInv, WholeInv, Finished
    <3>5. status[p] \in Finished
      BY <3>1, <3>2, <1>l
    <3>6. Reach(p) = before[p] \cup {p}
      BY <2>1 DEF Reach
    <3>7. \A t \in Listed \ Reach(next[p]) : status[t] \in Finished
      BY <3>2, <3>4, <3>5, <3>6
    <3>8. Reach(seen[Nil])' = Reach(next[p])
      BY <3>1, <2>1 DEF Reach
    <3> QED BY <2>1, <2>3, <2>4, <3>1, <3>3, <3>7, <3>8 DEF PassInv
  <2> QED BY <2>5, <2>6
<1>9. CASE TryToRun(Nil)
  <2>1. /\ obs'[Nil] = "help" /\ Waiting(Nil) /\ again[Nil]
        /\ UNCHANGED <<ins, again, fathers>>
    BY <1>9, <1>t, <1>r DEF TryToRun, Waiting, PassInv
  <2> QED BY <2>1 DEF PassInv, Inserting
<1>10. CASE GoOn(Nil)
  <2>1. /\ obs'[Nil] = "pass" /\ Waiting(Nil) /\ again[Nil]
        /\ UNCHANGED <<ins, again, fathers>>
    BY <1>10, <1>t DEF GoOn, Waiting, PassInv, walkVars, reclaimVars, vars, insVars
  <2> QED BY <2>1 DEF PassInv, Inserting
<1>11. CASE AwaitTask(Nil) \/ AwaitNext(Nil)
  BY <1>11, <1>none DEF AwaitTask, AwaitNext, Waiting
<1>12. ASSUME NEW f \in Pointer, Observe(f) PROVE PassInv'
  BY <1>4, <1>5, <1>6, <1>7, <1>8, <1>9, <1>10, <1>11, <1>12 DEF Observe, Pointer
<1> QED BY <1>1, <1>2, <1>3, <1>12 DEF ObserverNext

-----------------------------------------------------------------------------
ObserverFlatInv == ObserverInv /\ FlatInv /\ PassInv

LEMMA ObserverFlatStart == ObserverInit => ObserverFlatInv
<1> SUFFICES ASSUME ObserverInit PROVE ObserverFlatInv
  OBVIOUS
<1>1. PassInv
  BY DEF ObserverInit, PassInv, Waiting, Pointer
<1>2. FlatInv
  BY FlatStart DEF ObserverInit
<1> QED BY <1>1, <1>2, ObserverStart DEF ObserverFlatInv

LEMMA ObserverFlatStep ==
  ASSUME Flat PROVE ObserverFlatInv /\ [ObserverNext]_observerVars => ObserverFlatInv'
<1> SUFFICES ASSUME ObserverFlatInv, [ObserverNext]_observerVars PROVE ObserverFlatInv'
  OBVIOUS
<1>1. ObserverInv'
  BY ObserverStep DEF ObserverFlatInv
<1>2. FlatInv'
  BY ObserverActions, UntouchedFlat, FlatStep DEF ObserverFlatInv, ObserverInv
<1>3. PassInv'
  BY PassStep DEF ObserverFlatInv, ObserverInv
<1> QED BY <1>1, <1>2, <1>3 DEF ObserverFlatInv

(***************************************************************************)
(* Where no task has subtasks: when the wait of an observer is over, the   *)
(* tasks that were spawned since it was built have finished, although an   *)
(* eraser may unlink items while it walks.                                 *)
(***************************************************************************)
THEOREM ObserverSeesAll == ASSUME Flat PROVE ObserverSpec => ObserverWaits
<1>1. ASSUME ObserverFlatInv, [ObserverNext]_observerVars, NEW f \in Pointer,
             obs'[f] = "done", obs[f] # "done",
             NEW c \in ChildrenOf(f) \ earlier[f], NEW t \in Task, t = c \/ c \in Ancestors[t]
      PROVE  status[t] \in Finished
  <2>t. obs \in [Pointer -> ObserverPlace] /\ Nil \in Pointer /\ ins \in [Task -> InsPlace]
    BY <1>1, Types DEF ObserverFlatInv, ObserverInv, ObserverTypes, Pointer, ReclaimInv
  <2>1. f = Nil /\ t = c /\ c \in Task /\ ins[c] # "unborn"
    BY <1>1, OnlyFather DEF ChildrenOf, ObserverFlatInv, ObserverInv, FlatInv, PlacesInv, FlatPlace
  <2>2. EndWait(Nil)
    <3>1. PICK g \in Pointer : Observe(g)
      BY <1>1, <2>1 DEF ObserverNext, observerVars, obsVars, SpawnOf, ObserverSpawn, ObserverInsert, ObserverExecute,
         ObserverOthers
    <3> QED BY <1>1, <2>1, <2>t, <3>1 DEF Observe, Build, WaitForSubtasks, Destroy, StartWait, FirstPass, NextPass, StartPass,
           Visit, TryToRun, GoOn, EndWait, AwaitTask, AwaitNext
  <2>3. \A u \in Listed : status[u] \in Finished
    BY <1>1, <2>2 DEF EndWait, safe_end, ObserverFlatInv, PassInv, Reach
  <2>4. ~ Inserting(c)
    BY <1>1, <2>1, <2>2 DEF EndWait, ObserverFlatInv, PassInv, Waiting
  <2>5. c \in Listed
    BY <2>1, <2>4, <2>t DEF Inserting, Listed, Pushed, InsPlace
  <2> QED BY <2>1, <2>3, <2>5
<1>2. ObserverFlatInv /\ [ObserverNext]_observerVars =>
        [\A f \in Pointer : obs'[f] = "done" /\ obs[f] # "done" =>
           \A c \in ChildrenOf(f) \ earlier[f], t \in Task : t = c \/ c \in Ancestors[t] => status[t] \in Finished]_obs
  BY <1>1
<1> QED BY <1>2, ObserverFlatStart, ObserverFlatStep, PTL DEF ObserverSpec, ObserverWaits
=============================================================================
