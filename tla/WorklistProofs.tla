--------------------------- MODULE WorklistProofs ---------------------------
(***************************************************************************)
(* The types of Worklist, for every finite set of tasks, every program and *)
(* every argument list; its safety, and the order of execution, for        *)
(* programs of two levels: the tasks that the main thread spawns may spawn *)
(* tasks themselves, but then they have no arguments, and their subtasks   *)
(* spawn none.  Several threads insert and finish tasks at the same time;  *)
(* what is left out are the programs in which a task and its subtasks have *)
(* arguments (see the runs that find the promises broken).                 *)
(***************************************************************************)
EXTENDS Worklist, ArgInfoProofs

(***************************************************************************)
(* What the places of the threads say about their pointers; TypeOK is      *)
(* inductive together with it.                                             *)
(***************************************************************************)
Completing(t) == run[t] \in {"mark", "load", "walk", "drain", "free", "climb"}

PointersOK ==
  \A t \in Task :
     /\ ins[t] \in {"examine", "flag"} => scan[t] # Nil
     /\ Completing(t) => current[t] # Nil
     /\ ancestor[t] # Nil => father[t] # Nil
     /\ ins[t] = "unborn" => optFlags[t] = {}
     /\ "FatherScape" \in optFlags[t] => father[t] # Nil

TypeInv == TypeOK /\ PointersOK

LEMMA TypeInit == Init => TypeInv
BY NilAssumption DEF Init, TypeInv, TypeOK, ItemTypeOK, ThreadTypeOK, PointersOK, Pointer,
   Status, InsPlace, RunPlace, Completing, Active, Finished

(***************************************************************************)
(* Every step preserves the types: each action is checked on the variables *)
(* it changes.                                                             *)
(***************************************************************************)
LEMMA TypeStep == TypeInv /\ [Next]_vars => TypeInv'
<1> SUFFICES ASSUME TypeInv, [Next]_vars PROVE TypeInv'
  OBVIOUS
<1>worklist. worklist \in Pointer
  BY DEF TypeInv, TypeOK, ItemTypeOK, ThreadTypeOK
<1>next. next \in [Task -> Pointer]
  BY DEF TypeInv, TypeOK, ItemTypeOK, ThreadTypeOK
<1>status. status \in [Task -> Status]
  BY DEF TypeInv, TypeOK, ItemTypeOK, ThreadTypeOK
<1>optFlags. optFlags \in [Task -> SUBSET OptFlags]
  BY DEF TypeInv, TypeOK, ItemTypeOK, ThreadTypeOK
<1>father. father \in [Task -> Pointer]
  BY DEF TypeInv, TypeOK, ItemTypeOK, ThreadTypeOK
<1>args. args \in [Task -> Seq(Region)]
  BY DEF TypeInv, TypeOK, ItemTypeOK, ThreadTypeOK
<1>ndependencies. ndependencies \in [Task -> Int]
  BY DEF TypeInv, TypeOK, ItemTypeOK, ThreadTypeOK
<1>nchildren. nchildren \in [Task -> Int]
  BY DEF TypeInv, TypeOK, ItemTypeOK, ThreadTypeOK
<1>deps. deps \in [Task -> Seq(Task)]
  BY DEF TypeInv, TypeOK, ItemTypeOK, ThreadTypeOK
<1>queue. queue \in [Task -> Nat]
  BY DEF TypeInv, TypeOK, ItemTypeOK, ThreadTypeOK
<1>ins. ins \in [Task -> InsPlace]
  BY DEF TypeInv, TypeOK, ItemTypeOK, ThreadTypeOK
<1>scan. scan \in [Task -> Pointer]
  BY DEF TypeInv, TypeOK, ItemTypeOK, ThreadTypeOK
<1>ancestor. ancestor \in [Task -> Pointer]
  BY DEF TypeInv, TypeOK, ItemTypeOK, ThreadTypeOK
<1>argv. argv \in [Task -> Seq(Region)]
  BY DEF TypeInv, TypeOK, ItemTypeOK, ThreadTypeOK
<1>run. run \in [Task -> RunPlace]
  BY DEF TypeInv, TypeOK, ItemTypeOK, ThreadTypeOK
<1>walk. walk \in [Task -> Pointer]
  BY DEF TypeInv, TypeOK, ItemTypeOK, ThreadTypeOK
<1>current. current \in [Task -> Pointer]
  BY DEF TypeInv, TypeOK, ItemTypeOK, ThreadTypeOK
<1>idep. idep \in [Task -> Nat]
  BY DEF TypeInv, TypeOK, ItemTypeOK, ThreadTypeOK
<1>declared. declared \in [Task -> Seq(Region)]
  BY DEF TypeInv, TypeOK, ItemTypeOK, ThreadTypeOK
<1>before. before \in [Task -> SUBSET Task]
  BY DEF TypeInv, TypeOK, ItemTypeOK, ThreadTypeOK
<1>ptr. PointersOK
  BY DEF TypeInv
<1>1. ASSUME NEW f \in Pointer, NEW t \in Task, NEW a \in Uses[t], Spawn(f, t, a)
      PROVE  TypeInv'
  <2>0. a \in Seq(Region)
    BY UsesAssumption
  <2>1. ins' \in [Task -> InsPlace]
    BY <1>1, <2>0, <1>ins DEF Spawn, InsPlace
  <2>2. status' \in [Task -> Status]
    BY <1>1, <2>0, <1>status DEF Spawn, Status, Active, Finished
  <2>3. father' \in [Task -> Pointer]
    BY <1>1, <2>0, <1>father DEF Spawn, Pointer
  <2>4. args' \in [Task -> Seq(Region)]
    BY <1>1, <2>0, <1>args DEF Spawn
  <2>5. nchildren' \in [Task -> Int]
    BY <1>1, <2>0, <1>nchildren DEF Spawn
  <2>6. argv' \in [Task -> Seq(Region)]
    BY <1>1, <2>0, <1>argv DEF Spawn
  <2>7. ancestor' \in [Task -> Pointer]
    BY <1>1, <2>0, <1>ancestor DEF Spawn, Pointer
  <2>8. declared' \in [Task -> Seq(Region)]
    BY <1>1, <2>0, <1>declared DEF Spawn
  <2>9. PointersOK'
    BY <1>1, <2>0, <1>ptr, NilAssumption, <1>ins, <1>ancestor, <1>father DEF Spawn, PointersOK, Completing, runVars, itemVars, insVars
  <2>10. UNCHANGED <<worklist, next, optFlags, ndependencies, deps, queue, scan, run, walk, current, idep, before>>
    BY <1>1 DEF Spawn, itemVars, insVars, runVars, history
  <2> QED
    BY <2>1, <2>2, <2>3, <2>4, <2>5, <2>6, <2>7, <2>8, <2>9, <2>10, <1>worklist, <1>next, <1>optFlags, <1>ndependencies, <1>deps, <1>queue, <1>scan, <1>run, <1>walk, <1>current, <1>idep, <1>before DEF TypeInv, TypeOK, ItemTypeOK, ThreadTypeOK
<1>2. ASSUME NEW t \in Task, Push(t) PROVE TypeInv'
  <2>1. next' \in [Task -> Pointer]
    BY <1>2, <1>next, <1>worklist DEF Push, Pointer
  <2>2. worklist' \in Pointer
    BY <1>2, <1>worklist DEF Push, Pointer
  <2>3. scan' \in [Task -> Pointer]
    BY <1>2, <1>scan, <1>worklist DEF Push, Pointer
  <2>4. ins' \in [Task -> InsPlace]
    BY <1>2, <1>ins DEF Push, InsPlace
  <2>5. before' \in [Task -> SUBSET Task]
    BY <1>2, <1>before, <1>worklist DEF Push, InWorklist, Pointer
  <2>6. PointersOK'
    BY <1>2, <1>ptr, NilAssumption, <1>ins, <1>scan DEF Push, PointersOK, Completing, runVars, itemVars, insVars
  <2>7. UNCHANGED <<status, optFlags, father, args, ndependencies, nchildren, deps, queue, ancestor, argv, run, walk, current, idep, declared>>
    BY <1>2 DEF Push, itemVars, insVars, runVars, history
  <2> QED
    BY <2>1, <2>2, <2>3, <2>4, <2>5, <2>6, <2>7, <1>status, <1>optFlags, <1>father, <1>args, <1>ndependencies, <1>nchildren, <1>deps, <1>queue, <1>ancestor, <1>argv, <1>run, <1>walk, <1>current, <1>idep, <1>declared DEF TypeInv, TypeOK, ItemTypeOK, ThreadTypeOK
<1>3. ASSUME NEW t \in Task, SkipAncestor(t) PROVE TypeInv'
  <2>1. ancestor' \in [Task -> Pointer]
    BY <1>3, <1>ancestor, <1>father, <1>scan DEF SkipAncestor, Pointer
  <2>2. optFlags' \in [Task -> SUBSET OptFlags]
    BY <1>3, <1>optFlags DEF SkipAncestor, OptFlags
  <2>3. scan' \in [Task -> Pointer]
    BY <1>3, <1>scan, <1>next DEF SkipAncestor, Pointer
  <2>4. PointersOK'
    BY <1>3, <1>ptr, NilAssumption, <1>scan, <1>ancestor, <1>optFlags DEF SkipAncestor, PointersOK, Completing, runVars, itemVars, insVars
  <2>5. UNCHANGED <<worklist, next, status, father, args, ndependencies, nchildren, deps, queue, ins, argv, run, walk, current, idep, declared, before>>
    BY <1>3 DEF SkipAncestor, itemVars, insVars, runVars, history
  <2> QED
    BY <2>1, <2>2, <2>3, <2>4, <2>5, <1>worklist, <1>next, <1>status, <1>father, <1>args, <1>ndependencies, <1>nchildren, <1>deps, <1>queue, <1>ins, <1>argv, <1>run, <1>walk, <1>current, <1>idep, <1>declared, <1>before DEF TypeInv, TypeOK, ItemTypeOK, ThreadTypeOK
<1>4. ASSUME NEW t \in Task, Look(t) PROVE TypeInv'
  <2>1. ins' \in [Task -> InsPlace]
    BY <1>4, <1>ins DEF Look, InsPlace
  <2>2. scan' \in [Task -> Pointer]
    BY <1>4, <1>scan, <1>next DEF Look, Pointer
  <2>3. PointersOK'
    BY <1>4, <1>ptr, NilAssumption, <1>ins, <1>scan DEF Look, PointersOK, Completing, runVars, itemVars, insVars
  <2>4. UNCHANGED <<worklist, next, status, optFlags, father, args, ndependencies, nchildren, deps, queue, ancestor, argv, run, walk, current, idep, declared, before>>
    BY <1>4 DEF Look, itemVars, insVars, runVars, history
  <2> QED
    BY <2>1, <2>2, <2>3, <2>4, <1>worklist, <1>next, <1>status, <1>optFlags, <1>father, <1>args, <1>ndependencies, <1>nchildren, <1>deps, <1>queue, <1>ancestor, <1>argv, <1>run, <1>walk, <1>current, <1>idep, <1>declared, <1>before DEF TypeInv, TypeOK, ItemTypeOK, ThreadTypeOK
<1>5. ASSUME NEW t \in Task, Examine(t) PROVE TypeInv'
  <2>1. ins' \in [Task -> InsPlace]
    BY <1>5, <1>ins DEF Examine, InsPlace
  <2>2. ndependencies' \in [Task -> Int]
    BY <1>5, <1>ndependencies DEF Examine
  <2>deps. \A u \in Task : Append(deps[u], t) \in Seq(Task)
    BY <1>deps
  <2>3. deps' \in [Task -> Seq(Task)]
    <3>1. \/ UNCHANGED deps
          \/ deps' = [deps EXCEPT ![scan[t]] = Append(@, t)]
      BY <1>5 DEF Examine
    <3>2. CASE UNCHANGED deps
      BY <3>2, <1>deps
    <3>3. CASE deps' = [deps EXCEPT ![scan[t]] = Append(@, t)]
      BY <3>3, <1>deps, <2>deps
    <3> QED BY <3>1, <3>2, <3>3
  <2>4. argv' \in [Task -> Seq(Region)]
    <3>1. \/ UNCHANGED argv
          \/ argv' = [argv EXCEPT ![t] = RemoveCovered(args[scan[t]], argv[t],
                                                      FirstConflict(args[scan[t]], argv[t]))]
      BY <1>5, <1>argv DEF Examine
    <3>2. RemoveCovered(args[scan[t]], argv[t], FirstConflict(args[scan[t]], argv[t])) \in Seq(Region)
      BY <1>argv, RemoveCoveredType
    <3> QED BY <3>1, <3>2, <1>argv
  <2>5. PointersOK'
    BY <1>5, <1>ptr, NilAssumption, <1>ins DEF Examine, PointersOK, Completing, runVars, itemVars, insVars
  <2>6. UNCHANGED <<worklist, next, status, optFlags, father, args, nchildren, queue, scan, ancestor, run, walk, current, idep, declared, before>>
    BY <1>5 DEF Examine, itemVars, insVars, runVars, history
  <2> QED
    BY <2>1, <2>2, <2>3, <2>4, <2>5, <2>6, <1>worklist, <1>next, <1>status, <1>optFlags, <1>father, <1>args, <1>nchildren, <1>queue, <1>scan, <1>ancestor, <1>run, <1>walk, <1>current, <1>idep, <1>declared, <1>before DEF TypeInv, TypeOK, ItemTypeOK, ThreadTypeOK
<1>6. ASSUME NEW t \in Task, Flag(t) PROVE TypeInv'
  <2>1. optFlags' \in [Task -> SUBSET OptFlags]
    BY <1>6, <1>optFlags DEF Flag, OptFlags
  <2>2. scan' \in [Task -> Pointer]
    BY <1>6, <1>scan, <1>next, <1>ptr DEF Flag, Pointer, PointersOK, Completing
  <2>3. ins' \in [Task -> InsPlace]
    BY <1>6, <1>ins DEF Flag, InsPlace
  <2>4. PointersOK'
    BY <1>6, <1>ptr, NilAssumption, <1>ins, <1>scan, <1>optFlags DEF Flag, PointersOK, Completing, runVars, itemVars, insVars
  <2>5. UNCHANGED <<worklist, next, status, father, args, ndependencies, nchildren, deps, queue, ancestor, argv, run, walk, current, idep, declared, before>>
    BY <1>6 DEF Flag, itemVars, insVars, runVars, history
  <2> QED
    BY <2>1, <2>2, <2>3, <2>4, <2>5, <1>worklist, <1>next, <1>status, <1>father, <1>args, <1>ndependencies, <1>nchildren, <1>deps, <1>queue, <1>ancestor, <1>argv, <1>run, <1>walk, <1>current, <1>idep, <1>declared, <1>before DEF TypeInv, TypeOK, ItemTypeOK, ThreadTypeOK
<1>7. ASSUME NEW t \in Task, Settle(t) PROVE TypeInv'
  <2>1. status' \in [Task -> Status]
    BY <1>7, <1>status DEF Settle, Status, Active, Finished
  <2>2. queue' \in [Task -> Nat]
    BY <1>7, <1>queue DEF Settle
  <2>3. ins' \in [Task -> InsPlace]
    BY <1>7, <1>ins DEF Settle, InsPlace
  <2>4. PointersOK'
    BY <1>7, <1>ptr, NilAssumption, <1>ins DEF Settle, PointersOK, Completing, runVars, itemVars, insVars
  <2>5. UNCHANGED <<worklist, next, optFlags, father, args, ndependencies, nchildren, deps, scan, ancestor, argv, run, walk, current, idep, declared, before>>
    BY <1>7 DEF Settle, itemVars, insVars, runVars, history
  <2> QED
    BY <2>1, <2>2, <2>3, <2>4, <2>5, <1>worklist, <1>next, <1>optFlags, <1>father, <1>args, <1>ndependencies, <1>nchildren, <1>deps, <1>scan, <1>ancestor, <1>argv, <1>run, <1>walk, <1>current, <1>idep, <1>declared, <1>before DEF TypeInv, TypeOK, ItemTypeOK, ThreadTypeOK
<1>8. ASSUME NEW t \in Task, SetWaiting(t) PROVE TypeInv'
  <2>1. status' \in [Task -> Status]
    BY <1>8, <1>status DEF SetWaiting, Status, Active, Finished
  <2>2. ins' \in [Task -> InsPlace]
    BY <1>8, <1>ins DEF SetWaiting, InsPlace
  <2>3. PointersOK'
    BY <1>8, <1>ptr, NilAssumption, <1>ins DEF SetWaiting, PointersOK, Completing, runVars, itemVars, insVars
  <2>4. UNCHANGED <<worklist, next, optFlags, father, args, ndependencies, nchildren, deps, queue, scan, ancestor, argv, run, walk, current, idep, declared, before>>
    BY <1>8 DEF SetWaiting, itemVars, insVars, runVars, history
  <2> QED
    BY <2>1, <2>2, <2>3, <2>4, <1>worklist, <1>next, <1>optFlags, <1>father, <1>args, <1>ndependencies, <1>nchildren, <1>deps, <1>queue, <1>scan, <1>ancestor, <1>argv, <1>run, <1>walk, <1>current, <1>idep, <1>declared, <1>before DEF TypeInv, TypeOK, ItemTypeOK, ThreadTypeOK
<1>9. ASSUME NEW t \in Task, Start(t) PROVE TypeInv'
  <2>1. queue' \in [Task -> Nat]
    BY <1>9, <1>queue DEF Start
  <2>2. status' \in [Task -> Status]
    BY <1>9, <1>status DEF Start, Status, Active, Finished
  <2>3. run' \in [Task -> RunPlace]
    BY <1>9, <1>run DEF Start, RunPlace
  <2>4. PointersOK'
    BY <1>9, <1>ptr, NilAssumption, <1>run DEF Start, PointersOK, Completing, runVars, itemVars, insVars
  <2>5. UNCHANGED <<worklist, next, optFlags, father, args, ndependencies, nchildren, deps, ins, scan, ancestor, argv, walk, current, idep, declared, before>>
    BY <1>9 DEF Start, itemVars, insVars, runVars, history
  <2> QED
    BY <2>1, <2>2, <2>3, <2>4, <2>5, <1>worklist, <1>next, <1>optFlags, <1>father, <1>args, <1>ndependencies, <1>nchildren, <1>deps, <1>ins, <1>scan, <1>ancestor, <1>argv, <1>walk, <1>current, <1>idep, <1>declared, <1>before DEF TypeInv, TypeOK, ItemTypeOK, ThreadTypeOK
<1>10. ASSUME NEW t \in Task, EndBody(t) PROVE TypeInv'
  <2>1. nchildren' \in [Task -> Int]
    BY <1>10, <1>nchildren DEF EndBody
  <2>2. run' \in [Task -> RunPlace]
    BY <1>10, <1>run DEF EndBody, RunPlace
  <2>3. current' \in [Task -> Pointer]
    BY <1>10, <1>current DEF EndBody, Pointer
  <2>4. PointersOK'
    BY <1>10, <1>ptr, NilAssumption, <1>run, <1>current DEF EndBody, PointersOK, Completing, runVars, itemVars, insVars
  <2>5. UNCHANGED <<worklist, next, status, optFlags, father, args, ndependencies, deps, queue, ins, scan, ancestor, argv, walk, idep, declared, before>>
    BY <1>10 DEF EndBody, itemVars, insVars, runVars, history
  <2> QED
    BY <2>1, <2>2, <2>3, <2>4, <2>5, <1>worklist, <1>next, <1>status, <1>optFlags, <1>father, <1>args, <1>ndependencies, <1>deps, <1>queue, <1>ins, <1>scan, <1>ancestor, <1>argv, <1>walk, <1>idep, <1>declared, <1>before DEF TypeInv, TypeOK, ItemTypeOK, ThreadTypeOK
<1>11. ASSUME NEW t \in Task, MarkDone(t) PROVE TypeInv'
  <2>1. status' \in [Task -> Status]
    BY <1>11, <1>status DEF MarkDone, Status, Active, Finished
  <2>2. run' \in [Task -> RunPlace]
    BY <1>11, <1>run DEF MarkDone, RunPlace
  <2>3. PointersOK'
    BY <1>11, <1>ptr, NilAssumption, <1>run DEF MarkDone, PointersOK, Completing, runVars, itemVars, insVars
  <2>4. UNCHANGED <<worklist, next, optFlags, father, args, ndependencies, nchildren, deps, queue, ins, scan, ancestor, argv, walk, current, idep, declared, before>>
    BY <1>11 DEF MarkDone, itemVars, insVars, runVars, history
  <2> QED
    BY <2>1, <2>2, <2>3, <2>4, <1>worklist, <1>next, <1>optFlags, <1>father, <1>args, <1>ndependencies, <1>nchildren, <1>deps, <1>queue, <1>ins, <1>scan, <1>ancestor, <1>argv, <1>walk, <1>current, <1>idep, <1>declared, <1>before DEF TypeInv, TypeOK, ItemTypeOK, ThreadTypeOK
<1>12. ASSUME NEW t \in Task, LoadHint(t) PROVE TypeInv'
  <2>1. walk' \in [Task -> Pointer]
    BY <1>12, <1>walk, <1>worklist DEF LoadHint, Pointer
  <2>2. run' \in [Task -> RunPlace]
    BY <1>12, <1>run DEF LoadHint, RunPlace
  <2>3. PointersOK'
    BY <1>12, <1>ptr, NilAssumption, <1>run DEF LoadHint, PointersOK, Completing, runVars, itemVars, insVars
  <2>4. UNCHANGED <<worklist, next, status, optFlags, father, args, ndependencies, nchildren, deps, queue, ins, scan, ancestor, argv, current, idep, declared, before>>
    BY <1>12 DEF LoadHint, itemVars, insVars, runVars, history
  <2> QED
    BY <2>1, <2>2, <2>3, <2>4, <1>worklist, <1>next, <1>status, <1>optFlags, <1>father, <1>args, <1>ndependencies, <1>nchildren, <1>deps, <1>queue, <1>ins, <1>scan, <1>ancestor, <1>argv, <1>current, <1>idep, <1>declared, <1>before DEF TypeInv, TypeOK, ItemTypeOK, ThreadTypeOK
<1>13. ASSUME NEW t \in Task, Walk(t) PROVE TypeInv'
  <2>1. run' \in [Task -> RunPlace]
    BY <1>13, <1>run DEF Walk, RunPlace
  <2>2. idep' \in [Task -> Nat]
    BY <1>13, <1>idep DEF Walk
  <2>3. walk' \in [Task -> Pointer]
    BY <1>13, <1>walk, <1>next, <1>father, <1>ptr DEF Walk, Pointer, PointersOK, Completing
  <2>4. PointersOK'
    BY <1>13, <1>ptr, NilAssumption, <1>run DEF Walk, PointersOK, Completing, runVars, itemVars, insVars
  <2>5. UNCHANGED <<worklist, next, status, optFlags, father, args, ndependencies, nchildren, deps, queue, ins, scan, ancestor, argv, current, declared, before>>
    BY <1>13 DEF Walk, itemVars, insVars, runVars, history
  <2> QED
    BY <2>1, <2>2, <2>3, <2>4, <2>5, <1>worklist, <1>next, <1>status, <1>optFlags, <1>father, <1>args, <1>ndependencies, <1>nchildren, <1>deps, <1>queue, <1>ins, <1>scan, <1>ancestor, <1>argv, <1>current, <1>declared, <1>before DEF TypeInv, TypeOK, ItemTypeOK, ThreadTypeOK
<1>14. ASSUME NEW t \in Task, Drain(t) PROVE TypeInv'
  <2>ndependencies. \A u \in Task : ndependencies[u] - 1 \in Int
    BY <1>ndependencies
  <2>1. ndependencies' \in [Task -> Int]
    BY <1>14, <1>ndependencies, <2>ndependencies DEF Drain
  <2>2. status' \in [Task -> Status]
    BY <1>14, <1>status DEF Drain, Status, Active, Finished
  <2>3. queue' \in [Task -> Nat]
    BY <1>14, <1>queue DEF Drain
  <2>4. idep' \in [Task -> Nat]
    BY <1>14, <1>idep DEF Drain
  <2>5. PointersOK'
    BY <1>14, <1>ptr, NilAssumption DEF Drain, PointersOK, Completing, runVars, itemVars, insVars
  <2>6. UNCHANGED <<worklist, next, optFlags, father, args, nchildren, deps, ins, scan, ancestor, argv, run, walk, current, declared, before>>
    BY <1>14 DEF Drain, itemVars, insVars, runVars, history
  <2> QED
    BY <2>1, <2>2, <2>3, <2>4, <2>5, <2>6, <1>worklist, <1>next, <1>optFlags, <1>father, <1>args, <1>nchildren, <1>deps, <1>ins, <1>scan, <1>ancestor, <1>argv, <1>run, <1>walk, <1>current, <1>declared, <1>before DEF TypeInv, TypeOK, ItemTypeOK, ThreadTypeOK
<1>15. ASSUME NEW t \in Task, FreeDeps(t) PROVE TypeInv'
  <2>deps. <<>> \in Seq(Task)
    BY <1>deps
  <2>1. deps' \in [Task -> Seq(Task)]
    BY <1>15, <1>deps, <2>deps DEF FreeDeps
  <2>2. run' \in [Task -> RunPlace]
    BY <1>15, <1>run DEF FreeDeps, RunPlace
  <2>3. PointersOK'
    BY <1>15, <1>ptr, NilAssumption, <1>run DEF FreeDeps, PointersOK, Completing, runVars, itemVars, insVars
  <2>4. UNCHANGED <<worklist, next, status, optFlags, father, args, ndependencies, nchildren, queue, ins, scan, ancestor, argv, walk, current, idep, declared, before>>
    BY <1>15 DEF FreeDeps, itemVars, insVars, runVars, history
  <2> QED
    BY <2>1, <2>2, <2>3, <2>4, <1>worklist, <1>next, <1>status, <1>optFlags, <1>father, <1>args, <1>ndependencies, <1>nchildren, <1>queue, <1>ins, <1>scan, <1>ancestor, <1>argv, <1>walk, <1>current, <1>idep, <1>declared, <1>before DEF TypeInv, TypeOK, ItemTypeOK, ThreadTypeOK
<1>15a. ASSUME NEW t \in Task, Release(t) PROVE TypeInv'
  <2>args. <<>> \in Seq(Region)
    BY <1>args
  <2>1. args' \in [Task -> Seq(Region)]
    BY <1>15a, <1>args, <2>args DEF Release
  <2>2. status' \in [Task -> Status]
    BY <1>15a, <1>status DEF Release, Status, Active, Finished
  <2>3. run' \in [Task -> RunPlace]
    BY <1>15a, <1>run DEF Release, RunPlace
  <2>4. PointersOK'
    BY <1>15a, <1>ptr, NilAssumption, <1>run DEF Release, PointersOK, Completing, runVars, itemVars, insVars
  <2>5. UNCHANGED <<worklist, next, optFlags, father, ndependencies, nchildren, deps, queue, ins, scan, ancestor, argv, walk, current, idep, declared, before>>
    BY <1>15a DEF Release, itemVars, insVars, runVars, history
  <2> QED
    BY <2>1, <2>2, <2>3, <2>4, <2>5, <1>worklist, <1>next, <1>optFlags, <1>father, <1>ndependencies, <1>nchildren, <1>deps, <1>queue, <1>ins, <1>scan, <1>ancestor, <1>argv, <1>walk, <1>current, <1>idep, <1>declared, <1>before DEF TypeInv, TypeOK, ItemTypeOK, ThreadTypeOK
<1>16. ASSUME NEW t \in Task, Climb(t) PROVE TypeInv'
  <2>1. run' \in [Task -> RunPlace]
    BY <1>16, <1>run DEF Climb, RunPlace
  <2>2. nchildren' \in [Task -> Int]
    BY <1>16, <1>nchildren DEF Climb
  <2>3. current' \in [Task -> Pointer]
    BY <1>16, <1>current, <1>father, <1>ptr DEF Climb, Pointer, PointersOK, Completing
  <2>4. PointersOK'
    BY <1>16, <1>ptr, NilAssumption, <1>run, <1>current DEF Climb, PointersOK, Completing, runVars, itemVars, insVars
  <2>5. UNCHANGED <<worklist, next, status, optFlags, father, args, ndependencies, deps, queue, ins, scan, ancestor, argv, walk, idep, declared, before>>
    BY <1>16 DEF Climb, itemVars, insVars, runVars, history
  <2> QED
    BY <2>1, <2>2, <2>3, <2>4, <2>5, <1>worklist, <1>next, <1>status, <1>optFlags, <1>father, <1>args, <1>ndependencies, <1>deps, <1>queue, <1>ins, <1>scan, <1>ancestor, <1>argv, <1>walk, <1>idep, <1>declared, <1>before DEF TypeInv, TypeOK, ItemTypeOK, ThreadTypeOK
<1>17. CASE WaitForAll
  <2>1. worklist' \in Pointer
    BY <1>17, <1>worklist DEF WaitForAll, Pointer
  <2>2. PointersOK'
    BY <1>17, <1>ptr, NilAssumption DEF WaitForAll, PointersOK, Completing, runVars, itemVars, insVars
  <2>3. UNCHANGED <<next, status, optFlags, father, args, ndependencies, nchildren, deps, queue, ins, scan, ancestor, argv, run, walk, current, idep, declared, before>>
    BY <1>17 DEF WaitForAll, itemVars, insVars, runVars, history
  <2> QED
    BY <2>1, <2>2, <2>3, <1>next, <1>status, <1>optFlags, <1>father, <1>args, <1>ndependencies, <1>nchildren, <1>deps, <1>queue, <1>ins, <1>scan, <1>ancestor, <1>argv, <1>run, <1>walk, <1>current, <1>idep, <1>declared, <1>before DEF TypeInv, TypeOK, ItemTypeOK, ThreadTypeOK
<1>18. CASE UNCHANGED vars
  BY <1>18 DEF vars, itemVars, insVars, runVars, history, TypeInv, TypeOK, ItemTypeOK, ThreadTypeOK, PointersOK, Completing
<1> QED
  BY <1>1, <1>2, <1>3, <1>4, <1>5, <1>6, <1>7, <1>8, <1>9, <1>10, <1>11, <1>12, <1>13, <1>14, <1>15, <1>15a, <1>16, <1>17, <1>18 DEF Next, Insert, Scan, Execute

(***************************************************************************)
(* Every variable keeps its type in every program.                         *)
(***************************************************************************)
THEOREM TypeCorrect == Spec => []TypeOK
<1>1. TypeInv => TypeOK
  BY DEF TypeInv
<1> QED BY TypeInit, TypeStep, <1>1, PTL DEF Spec

-----------------------------------------------------------------------------
(***************************************************************************)
(* Programs of two levels.                                                 *)
(***************************************************************************)
Spawns(f, t) == \E k \in DOMAIN Body[f] : Body[f][k] = t

TwoLevel ==
  \A f, t \in Task : Spawns(f, t) => Body[t] = <<>> /\ Uses[f] \subseteq {<<>>}

(***************************************************************************)
(* The items from p on, and those t has gone past in its scan.             *)
(***************************************************************************)
Reach(p) == IF p = Nil THEN {} ELSE before[p] \cup {p}

Visited(t) == before[t] \ Reach(scan[t])

LinkedBehind(t, p) == \E i \in DOMAIN deps[p] : deps[p][i] = t

(***************************************************************************)
(* u is being inserted and compares its arguments with those of t, or is   *)
(* linked behind t already: t must not release its deps yet.               *)
(***************************************************************************)
Touches(u, t) ==
  /\ declared[t] # <<>>
  /\ Inserting(u)
  /\ (ins[u] = "examine" /\ scan[u] = t) \/ LinkedBehind(u, t)

Posted(t) == queue[t] > 0 \/ run[t] # "idle"

(***************************************************************************)
(* Status and place of a task agree.                                       *)
(***************************************************************************)
PlaceInv ==
  \A t \in Task :
     /\ status[t] = "Filling" <=> Inserting(t)
     /\ Posted(t) => ins[t] = "inserted"
     /\ status[t] \in Finished \cup {"Running"} => run[t] # "idle"
     /\ queue[t] <= 1
     /\ run[t] # "idle" => queue[t] = 0

(***************************************************************************)
(* Fathers have begun to run and have no arguments, and no search for      *)
(* dependencies ends at an ancestor.                                       *)
(***************************************************************************)
FamilyInv ==
  \A t \in Task :
     /\ father[t] # Nil => Spawns(father[t], t) /\ run[father[t]] # "idle"
     /\ ancestor[t] \in {father[t], Nil}
     /\ "FatherScape" \notin optFlags[t]
     /\ declared[t] \in Uses[t] \cup {<<>>}
     /\ args[t] = declared[t] \/ (args[t] = <<>> /\ status[t] = "Deallocatable")

(***************************************************************************)
(* The worklist from any item on is the set before[t], and grows at its    *)
(* head only; a task being inserted is in it.                              *)
(***************************************************************************)
ListInv ==
  /\ worklist # Nil => Pushed(worklist)
  /\ \A t \in Task :
        /\ ~ Pushed(t) => before[t] = {}
        /\ Pushed(t) => before[t] = Reach(next[t])
        /\ t \notin before[t]
        /\ \A u \in before[t] : Pushed(u) /\ before[u] \subseteq before[t]
        /\ Pushed(t) => scan[t] \in before[t] \cup {Nil}
        /\ ins[t] \in {"wait", "inserted"} => scan[t] = Nil
        /\ Inserting(t) /\ Pushed(t) => t \in InWorklist

(***************************************************************************)
(* A task is linked at most once behind each item, and only behind items   *)
(* of the list it has gone past or is just looking at.                     *)
(***************************************************************************)
LinkInv ==
  \A p \in Task :
     /\ deps[p] # <<>> => declared[p] # <<>>
     /\ \A t \in Task : LinkedBehind(t, p) =>
           /\ Pushed(t)
           /\ p \in Visited(t) \/ (p = scan[t] /\ ins[t] = "flag")
     /\ \A i, j \in DOMAIN deps[p] : deps[p][i] = deps[p][j] => i = j

(***************************************************************************)
(* A task without PendingFills saw every item it went past filled in.      *)
(***************************************************************************)
VouchInv ==
  \A t \in Task : "PendingFills" \notin optFlags[t] =>
     \A u \in Visited(t) : status[u] # "Filling"

(***************************************************************************)
(* The thread of t has not completed t itself yet.                         *)
(***************************************************************************)
Unfinished(t) == run[t] \in {"idle", "body"} \/ (run[t] = "mark" /\ current[t] = t)

(***************************************************************************)
(* Who finishes what: a task finishes itself, or its father, which has no  *)
(* arguments.  While it waits, the tasks that still touch the item are     *)
(* among those the walk has ahead, and after the wait there are none.      *)
(***************************************************************************)
FinishOK(t) ==
  /\ Completing(t) => current[t] \in {t, father[t]}
  /\ run[t] \in {"load", "walk", "drain", "free"} => status[current[t]] \in Finished
  /\ run[t] = "walk" /\ walk[t] # Nil => Pushed(walk[t])
  /\ run[t] = "walk" => \A u \in Task : Touches(u, current[t]) => u \in Reach(walk[t])
  /\ run[t] \in {"drain", "free"} => \A u \in Task : ~ Touches(u, current[t])
  /\ run[t] = "free" => deps[current[t]] = <<>>
  /\ run[t] = "drain" => idep[t] >= 1
  /\ status[t] = "Deallocatable" => deps[t] = <<>> /\ \A u \in Task : ~ Touches(u, t)
  /\ declared[t] # <<>> /\ Unfinished(t) => status[t] \notin Finished

FinishInv == \A t \in Task : FinishOK(t)

(***************************************************************************)
(* The counters are exact, and a posted task waits for nothing.            *)
(***************************************************************************)
CountInv ==
  /\ CountExact
  /\ \A t \in Task : Posted(t) => Blockers(t) = {}

IInv ==
  /\ TypeInv
  /\ PlaceInv
  /\ FamilyInv
  /\ ListInv
  /\ LinkInv
  /\ VouchInv
  /\ FinishInv
  /\ CountInv
-----------------------------------------------------------------------------
(***************************************************************************)
(* The initial states.                                                     *)
(***************************************************************************)
LEMMA SafetyInit == Init => IInv
<1> SUFFICES ASSUME Init PROVE IInv
  OBVIOUS
<1>1. TypeInv
  BY TypeInit
<1>2. PlaceInv /\ FamilyInv
  BY DEF Init, PlaceInv, FamilyInv, Inserting, Posted, Finished
<1>3. ListInv
  BY NilAssumption DEF Init, ListInv, Pushed, Inserting
<1>4. \A p, t \in Task : ~ LinkedBehind(t, p)
  BY DEF Init, LinkedBehind
<1>5. LinkInv
  BY <1>4 DEF Init, LinkInv
<1>6. VouchInv
  BY DEF Init, VouchInv, Visited
<1>7. FinishInv
  BY DEF Init, FinishInv, FinishOK, Completing, Touches, Finished
<1>8. \A t \in Task : Blockers(t) = {}
  BY DEF Init, Blockers
<1>9. CountInv
  BY <1>8, FS_EmptySet DEF Init, CountInv, CountExact
<1> QED
  BY <1>1, <1>2, <1>3, <1>5, <1>6, <1>7, <1>9 DEF IInv

-----------------------------------------------------------------------------
(***************************************************************************)
(* Two levels: a father has no father itself, and no arguments.            *)
(***************************************************************************)
LEMMA FatherFacts ==
  ASSUME TwoLevel, TypeInv, FamilyInv, NEW t \in Task, father[t] # Nil
  PROVE  /\ father[t] \in Task
         /\ father[t] # t
         /\ father[father[t]] = Nil
         /\ declared[father[t]] = <<>>
         /\ run[father[t]] # "idle"
<1> DEFINE f == father[t]
<1>1. f \in Task
  BY DEF TypeInv, TypeOK, ItemTypeOK, Pointer
<1>2. Spawns(f, t) /\ run[f] # "idle"
  BY DEF FamilyInv
<1>3. Body[t] = <<>> /\ Uses[f] \subseteq {<<>>}
  BY <1>1, <1>2 DEF TwoLevel
<1>4. declared[f] = <<>>
  BY <1>1, <1>3 DEF FamilyInv
<1>5. \A u \in Task : ~ Spawns(t, u)
  BY <1>3 DEF Spawns
<1>6. f # t
  BY <1>2, <1>5
<1>7. father[f] = Nil
  <2> SUFFICES ASSUME father[f] # Nil PROVE FALSE
    OBVIOUS
  <2>1. father[f] \in Task
    BY <1>1 DEF TypeInv, TypeOK, ItemTypeOK, Pointer
  <2>2. Spawns(father[f], f)
    BY <1>1 DEF FamilyInv
  <2>3. Body[f] = <<>>
    BY <1>1, <2>1, <2>2 DEF TwoLevel
  <2> QED BY <1>2, <2>3 DEF Spawns
<1> QED BY <1>1, <1>2, <1>4, <1>6, <1>7

(***************************************************************************)
(* The scan of t never ends at an ancestor: it goes past its father, which *)
(* is running, and then expects no other.                                  *)
(***************************************************************************)
LEMMA SkipFacts ==
  ASSUME TwoLevel, TypeInv, FamilyInv, NEW t \in Task, SkipAncestor(t)
  PROVE  /\ scan[t] \in Task /\ scan[t] = father[t]
         /\ optFlags' = optFlags
         /\ ancestor' = [ancestor EXCEPT ![t] = Nil]
         /\ scan' = [scan EXCEPT ![t] = next[scan[t]]]
<1>1. scan[t] \in Pointer
  BY DEF TypeInv, TypeOK, ThreadTypeOK
<1>2. scan[t] \in Task /\ scan[t] = ancestor[t]
  BY <1>1 DEF SkipAncestor, Pointer
<1>3. scan[t] = father[t] /\ father[t] # Nil
  BY <1>2, NilAssumption DEF FamilyInv
<1>4. father[scan[t]] = Nil
  BY <1>3, FatherFacts
<1> QED BY <1>2, <1>3, <1>4 DEF SkipAncestor

(***************************************************************************)
(* Who completes t is t itself or has t as its father; an item with        *)
(* arguments is completed by its own thread.                               *)
(***************************************************************************)
LEMMA FinisherFacts ==
  ASSUME TwoLevel, TypeInv, FamilyInv, FinishInv, NEW t \in Task, Completing(t)
  PROVE  /\ current[t] \in Task
         /\ run[t] # "idle" /\ run[current[t]] # "idle"
         /\ declared[current[t]] # <<>> => current[t] = t
<1>1. current[t] \in {t, father[t]}
  BY DEF FinishInv, FinishOK
<1>2. current[t] # Nil /\ run[t] # "idle"
  BY DEF TypeInv, PointersOK, Completing
<1> QED BY <1>1, <1>2, FatherFacts

(***************************************************************************)
(* The task w that t is about to release.                                  *)
(***************************************************************************)
LEMMA DrainFacts ==
  ASSUME TwoLevel, IInv, NEW t \in Task, run[t] = "drain", idep[t] <= Len(deps[current[t]])
  PROVE  LET w == deps[t][idep[t]]
         IN  /\ current[t] = t
             /\ idep[t] \in DOMAIN deps[t]
             /\ w \in Task
             /\ t \in Blockers(w)
             /\ ins[w] = "inserted" /\ ~ Posted(w)
             /\ \A x \in Task : run[x] = "drain" /\ current[x] = t => x = t
<1> DEFINE c == current[t]
           w == deps[c][idep[t]]
<1>1. c \in Task /\ (declared[c] # <<>> => c = t)
  BY FinisherFacts DEF IInv, Completing
<1>2. deps[c] \in Seq(Task) /\ idep[t] \in Nat
  BY <1>1 DEF IInv, TypeInv, TypeOK, ItemTypeOK, ThreadTypeOK
<1>3. idep[t] >= 1
  BY DEF IInv, FinishInv, FinishOK
<1>4. idep[t] \in DOMAIN deps[c] /\ w \in Task
  BY <1>2, <1>3
<1>5. deps[c] # <<>>
  BY <1>2, <1>4
<1>6. declared[c] # <<>> /\ c = t
  BY <1>1, <1>5 DEF IInv, LinkInv
<1>7. \A x \in Task : run[x] = "drain" /\ current[x] = t => x = t
  BY <1>6, FinisherFacts DEF IInv, Completing
<1>8. t \in Blockers(w)
  <2>1. ~ Released(t, idep[t])
    BY <1>2, <1>7 DEF Released
  <2> QED BY <2>1, <1>4, <1>6 DEF Blockers
<1>9. LinkedBehind(w, t)
  BY <1>4, <1>6 DEF LinkedBehind
<1>10. ~ Inserting(w)
  BY <1>4, <1>6, <1>9 DEF IInv, FinishInv, FinishOK, Touches
<1>11. Pushed(w)
  BY <1>4, <1>9 DEF IInv, LinkInv
<1>12. ins[w] = "inserted"
  BY <1>10, <1>11 DEF Inserting, Pushed
<1>13. ~ Posted(w)
  BY <1>4, <1>8 DEF IInv, CountInv
<1> QED BY <1>4, <1>6, <1>7, <1>8, <1>12, <1>13

-----------------------------------------------------------------------------
(***************************************************************************)
(* Every step preserves PlaceInv.                                          *)
(***************************************************************************)
LEMMA PlaceStep == ASSUME TwoLevel, IInv, [Next]_vars PROVE PlaceInv'
<1>status. status \in [Task -> Status]
  BY DEF IInv, TypeInv, TypeOK, ItemTypeOK, ThreadTypeOK
<1>ins. ins \in [Task -> InsPlace]
  BY DEF IInv, TypeInv, TypeOK, ItemTypeOK, ThreadTypeOK
<1>queue. queue \in [Task -> Nat]
  BY DEF IInv, TypeInv, TypeOK, ItemTypeOK, ThreadTypeOK
<1>run. run \in [Task -> RunPlace]
  BY DEF IInv, TypeInv, TypeOK, ItemTypeOK, ThreadTypeOK
<1>inv. PlaceInv
  BY DEF IInv
<1>1. ASSUME NEW f \in Pointer, NEW t \in Task, NEW a \in Uses[t], Spawn(f, t, a)
      PROVE  PlaceInv'
  <2>1. UNCHANGED <<queue, run>>
    BY <1>1 DEF Spawn, runVars
  <2> QED
    BY <1>1, <2>1, <1>inv, <1>status, <1>ins DEF Spawn, PlaceInv, Inserting, Posted, Finished
<1>2. ASSUME NEW t \in Task, Push(t) PROVE PlaceInv'
  <2>1. UNCHANGED <<queue, run, status>>
    BY <1>2 DEF Push, runVars
  <2> QED
    BY <1>2, <2>1, <1>inv, <1>status, <1>ins DEF Push, PlaceInv, Inserting, Posted, Finished
<1>3. ASSUME NEW t \in Task, SkipAncestor(t) PROVE UNCHANGED <<status, ins, queue, run>>
  BY <1>3 DEF SkipAncestor, runVars
<1>4. ASSUME NEW t \in Task, Look(t) PROVE PlaceInv'
  <2>1. UNCHANGED <<queue, run, status>>
    BY <1>4 DEF Look, runVars, itemVars
  <2>2. UNCHANGED ins \/ ins' = [ins EXCEPT ![t] = "examine"]
    BY <1>4 DEF Look
  <2>3. ins[t] = "scan"
    BY <1>4 DEF Look
  <2> QED
    BY <2>1, <2>2, <2>3, <1>inv, <1>status, <1>ins DEF PlaceInv, Inserting, Posted, Finished
<1>5. ASSUME NEW t \in Task, Examine(t) PROVE PlaceInv'
  <2>1. UNCHANGED <<queue, run, status>>
    BY <1>5 DEF Examine, runVars, itemVars
  <2>2. ins[t] = "examine" /\ ins' = [ins EXCEPT ![t] = "flag"]
    BY <1>5 DEF Examine
  <2> QED
    BY <2>1, <2>2, <1>inv, <1>status, <1>ins DEF PlaceInv, Inserting, Posted, Finished
<1>6. ASSUME NEW t \in Task, Flag(t) PROVE PlaceInv'
  <2>1. UNCHANGED <<queue, run, status>>
    BY <1>6 DEF Flag, runVars, itemVars
  <2>2. ins[t] = "flag" /\ ins' = [ins EXCEPT ![t] = "scan"]
    BY <1>6 DEF Flag
  <2> QED
    BY <2>1, <2>2, <1>inv, <1>status, <1>ins DEF PlaceInv, Inserting, Posted, Finished
<1>7. ASSUME NEW t \in Task, Settle(t) PROVE PlaceInv'
  <2>1. UNCHANGED run /\ ins[t] = "scan"
    BY <1>7 DEF Settle, runVars
  <2>2. queue[t] = 0 /\ run[t] = "idle"
    BY <2>1, <1>inv, <1>queue DEF PlaceInv, Posted
  <2>3. CASE ndependencies[t] = 0
    <3>1. /\ status' = [status EXCEPT ![t] = "Ready"]
          /\ queue' = [queue EXCEPT ![t] = @ + 1]
          /\ ins' = [ins EXCEPT ![t] = "inserted"]
      BY <1>7, <2>3 DEF Settle
    <3> QED
      BY <2>1, <2>2, <3>1, <1>inv, <1>status, <1>ins, <1>queue DEF PlaceInv, Inserting, Posted, Finished
  <2>4. CASE ndependencies[t] # 0
    <3>1. UNCHANGED <<status, queue>> /\ ins' = [ins EXCEPT ![t] = "wait"]
      BY <1>7, <2>4 DEF Settle
    <3> QED
      BY <2>1, <2>2, <3>1, <1>inv, <1>status, <1>ins DEF PlaceInv, Inserting, Posted, Finished
  <2> QED BY <2>3, <2>4
<1>8. ASSUME NEW t \in Task, SetWaiting(t) PROVE PlaceInv'
  <2>1. UNCHANGED <<queue, run>>
    BY <1>8 DEF SetWaiting, runVars
  <2> QED
    BY <1>8, <2>1, <1>inv, <1>status, <1>ins DEF SetWaiting, PlaceInv, Inserting, Posted, Finished
<1>9. ASSUME NEW t \in Task, Start(t) PROVE PlaceInv'
  <2>1. UNCHANGED ins
    BY <1>9 DEF Start, insVars
  <2> QED
    BY <1>9, <2>1, <1>inv, <1>status, <1>queue, <1>run DEF Start, PlaceInv, Inserting, Posted, Finished
<1>10. ASSUME UNCHANGED <<status, ins, queue>>,
              \A u \in Task : run'[u] # "idle" <=> run[u] # "idle"
       PROVE  PlaceInv'
  BY <1>10, <1>inv DEF PlaceInv, Inserting, Posted, Finished
<1>11. ASSUME NEW c \in Task, run[c] # "idle", NEW s \in Finished,
              status' = [status EXCEPT ![c] = s], UNCHANGED <<ins, queue>>,
              \A u \in Task : run'[u] # "idle" <=> run[u] # "idle"
       PROVE  PlaceInv'
  <2>1. s # "Filling"
    BY DEF Finished
  <2> QED
    BY <1>11, <2>1, <1>inv, <1>status DEF PlaceInv, Inserting, Posted, Finished
<1>12. ASSUME NEW t \in Task, EndBody(t) PROVE PlaceInv'
  <2>1. UNCHANGED <<status, ins, queue>>
    BY <1>12 DEF EndBody, insVars
  <2>2. \A u \in Task : run'[u] # "idle" <=> run[u] # "idle"
    BY <1>12, <1>run DEF EndBody
  <2> QED BY <2>1, <2>2, <1>10
<1>13. ASSUME NEW t \in Task, MarkDone(t) PROVE PlaceInv'
  <2>1. current[t] \in Task /\ run[current[t]] # "idle"
    BY <1>13, FinisherFacts DEF IInv, MarkDone, Completing
  <2>2. UNCHANGED <<ins, queue>>
    BY <1>13 DEF MarkDone, insVars
  <2>3. \A u \in Task : run'[u] # "idle" <=> run[u] # "idle"
    BY <1>13, <1>run DEF MarkDone
  <2>4. status' = [status EXCEPT ![current[t]] = "Done"] /\ "Done" \in Finished
    BY <1>13 DEF MarkDone, Finished
  <2> QED BY <2>1, <2>2, <2>3, <2>4, <1>11
<1>14. ASSUME NEW t \in Task, LoadHint(t) \/ Walk(t) \/ FreeDeps(t) \/ Climb(t) PROVE PlaceInv'
  <2>1. UNCHANGED <<status, ins, queue>>
    BY <1>14 DEF LoadHint, Walk, FreeDeps, Climb, insVars, itemVars
  <2>2. \A u \in Task : run'[u] # "idle" <=> run[u] # "idle"
    BY <1>14, <1>run DEF LoadHint, Walk, FreeDeps, Climb
  <2> QED BY <2>1, <2>2, <1>10
<1>15. ASSUME NEW t \in Task, Drain(t) PROVE PlaceInv'
  <2> DEFINE w == deps[t][idep[t]]
  <2>1. current[t] = t /\ w \in Task /\ ins[w] = "inserted" /\ ~ Posted(w)
    BY <1>15, DrainFacts DEF Drain
  <2>2. UNCHANGED <<ins, run>>
    BY <1>15 DEF Drain, insVars
  <2>3. \/ UNCHANGED <<status, queue>>
        \/ /\ status' = [status EXCEPT ![w] = "Ready"]
           /\ queue' = [queue EXCEPT ![w] = @ + 1]
    BY <1>15, <2>1 DEF Drain
  <2>4. queue[w] = 0 /\ run[w] = "idle"
    BY <2>1, <1>queue DEF Posted
  <2> HIDE DEF w
  <2> QED
    BY <2>1, <2>2, <2>3, <2>4, <1>inv, <1>status, <1>queue DEF PlaceInv, Inserting, Posted, Finished
<1>16. ASSUME NEW t \in Task, Release(t) PROVE PlaceInv'
  <2>1. current[t] \in Task /\ run[current[t]] # "idle"
    BY <1>16, FinisherFacts DEF IInv, Release, Completing
  <2>2. UNCHANGED <<ins, queue>>
    BY <1>16 DEF Release, insVars
  <2>3. \A u \in Task : run'[u] # "idle" <=> run[u] # "idle"
    BY <1>16, <1>run DEF Release
  <2>4. status' = [status EXCEPT ![current[t]] = "Deallocatable"] /\ "Deallocatable" \in Finished
    BY <1>16 DEF Release, Finished
  <2> QED BY <2>1, <2>2, <2>3, <2>4, <1>11
<1>17. CASE WaitForAll \/ UNCHANGED vars
  <2>1. UNCHANGED <<status, ins, queue, run>>
    BY <1>17 DEF WaitForAll, vars, itemVars, insVars, runVars
  <2> QED BY <2>1, <1>10
<1> QED
  BY <1>1, <1>2, <1>3, <1>4, <1>5, <1>6, <1>7, <1>8, <1>9, <1>10, <1>12, <1>13, <1>14, <1>15, <1>16, <1>17
  DEF Next, Insert, Scan, Execute

(***************************************************************************)
(* Every step preserves FamilyInv.                                         *)
(***************************************************************************)
LEMMA FamilyStep == ASSUME TwoLevel, IInv, [Next]_vars PROVE FamilyInv'
<1>status. status \in [Task -> Status]
  BY DEF IInv, TypeInv, TypeOK, ItemTypeOK, ThreadTypeOK
<1>optFlags. optFlags \in [Task -> SUBSET OptFlags]
  BY DEF IInv, TypeInv, TypeOK, ItemTypeOK, ThreadTypeOK
<1>father. father \in [Task -> Pointer]
  BY DEF IInv, TypeInv, TypeOK, ItemTypeOK, ThreadTypeOK
<1>args. args \in [Task -> Seq(Region)]
  BY DEF IInv, TypeInv, TypeOK, ItemTypeOK, ThreadTypeOK
<1>ins. ins \in [Task -> InsPlace]
  BY DEF IInv, TypeInv, TypeOK, ItemTypeOK, ThreadTypeOK
<1>ancestor. ancestor \in [Task -> Pointer]
  BY DEF IInv, TypeInv, TypeOK, ItemTypeOK, ThreadTypeOK
<1>run. run \in [Task -> RunPlace]
  BY DEF IInv, TypeInv, TypeOK, ItemTypeOK, ThreadTypeOK
<1>current. current \in [Task -> Pointer]
  BY DEF IInv, TypeInv, TypeOK, ItemTypeOK, ThreadTypeOK
<1>declared. declared \in [Task -> Seq(Region)]
  BY DEF IInv, TypeInv, TypeOK, ItemTypeOK, ThreadTypeOK
<1>inv. FamilyInv
  BY DEF IInv
<1>place. PlaceInv
  BY DEF IInv
<1> DEFINE Kin(t) == /\ father[t] # Nil => Spawns(father[t], t) /\ run[father[t]] # "idle"
                     /\ ancestor[t] \in {father[t], Nil}
                     /\ "FatherScape" \notin optFlags[t]
                     /\ declared[t] \in Uses[t] \cup {<<>>}
           Kept(t) == args[t] = declared[t] \/ (args[t] = <<>> /\ status[t] = "Deallocatable")
<1>0. ASSUME \A t \in Task : Kin(t)', \A t \in Task : Kept(t)' PROVE FamilyInv'
  BY <1>0 DEF FamilyInv
<1>00. \A t \in Task : Kin(t) /\ Kept(t)
  BY <1>inv DEF FamilyInv
<1>kin. ASSUME UNCHANGED <<father, ancestor, optFlags, declared>>,
               \A u \in Task : run[u] # "idle" => run'[u] # "idle"
        PROVE  \A t \in Task : Kin(t)'
  BY <1>kin, <1>00, <1>father DEF Pointer
<1>kept. ASSUME UNCHANGED <<args, declared>>, NEW c \in Task,
                args[c] = declared[c] \/ status' = status,
                \A u \in Task \ {c} : status'[u] = status[u]
         PROVE  \A t \in Task : Kept(t)'
  BY <1>kept, <1>00
<1>filling. ASSUME NEW t \in Task, status[t] \notin Finished PROVE args[t] = declared[t]
  BY <1>filling, <1>00 DEF Finished
<1>1. ASSUME NEW f \in Pointer, NEW t \in Task, NEW a \in Uses[t], Spawn(f, t, a)
      PROVE  FamilyInv'
  <2>1. Spawns(f, t)
    BY <1>1 DEF Spawn, NextSpawn, Spawns
  <2>2. f # Nil => run[f] # "idle"
    BY <1>1 DEF Spawn, InUserCode
  <2>3. UNCHANGED <<run, optFlags>>
    BY <1>1 DEF Spawn, runVars
  <2>4. \A u \in Task : Kin(u)'
    BY <1>1, <2>1, <2>2, <2>3, <1>00, <1>father, <1>ancestor, <1>declared DEF Spawn, Pointer
  <2>5. \A u \in Task : Kept(u)'
    BY <1>1, <1>00, <1>args, <1>declared, <1>status DEF Spawn
  <2> QED BY <2>4, <2>5, <1>0
<1>2. ASSUME UNCHANGED <<father, ancestor, optFlags, declared, run, args, status>> PROVE FamilyInv'
  BY <1>2, <1>inv DEF FamilyInv
<1>3. ASSUME NEW t \in Task, SkipAncestor(t) PROVE FamilyInv'
  <2>1. UNCHANGED <<father, optFlags, declared, run, args, status>>
    BY <1>3, SkipFacts DEF IInv, SkipAncestor, runVars, history
  <2>2. ancestor' = [ancestor EXCEPT ![t] = Nil]
    BY <1>3, SkipFacts DEF IInv
  <2> QED BY <2>1, <2>2, <1>inv, <1>ancestor DEF FamilyInv
<1>4. ASSUME NEW t \in Task, Push(t) \/ Look(t) \/ Examine(t) PROVE FamilyInv'
  <2>1. UNCHANGED <<father, ancestor, optFlags, declared, run, args, status>>
    BY <1>4 DEF Push, Look, Examine, itemVars, insVars, runVars, history
  <2> QED BY <2>1, <1>2
<1>6. ASSUME NEW t \in Task, Flag(t) PROVE FamilyInv'
  <2>1. UNCHANGED <<father, ancestor, declared, run, args, status>>
    BY <1>6 DEF Flag, runVars, history
  <2>2. \A u \in Task : "FatherScape" \notin optFlags'[u]
    BY <1>6, <1>optFlags, <1>00 DEF Flag
  <2> QED BY <2>1, <2>2, <1>inv DEF FamilyInv
<1>7. ASSUME NEW t \in Task, Settle(t) \/ SetWaiting(t) PROVE FamilyInv'
  <2>1. UNCHANGED <<father, ancestor, optFlags, declared, run, args>>
    BY <1>7 DEF Settle, SetWaiting, runVars, history
  <2>2. status[t] = "Filling"
    BY <1>7, <1>place DEF Settle, SetWaiting, PlaceInv, Inserting
  <2>3. args[t] = declared[t]
    BY <2>2, <1>filling DEF Finished
  <2>4. \A u \in Task \ {t} : status'[u] = status[u]
    BY <1>7, <1>status DEF Settle, SetWaiting
  <2>5. \A u \in Task : Kin(u)'
    BY <2>1, <1>kin
  <2>6. \A u \in Task : Kept(u)'
    BY <2>1, <2>3, <2>4, <1>kept
  <2> QED BY <2>5, <2>6, <1>0
<1>9. ASSUME NEW t \in Task, Start(t) PROVE FamilyInv'
  <2>1. UNCHANGED <<father, ancestor, optFlags, declared, args>>
    BY <1>9 DEF Start, insVars, history
  <2>2. \A u \in Task : run[u] # "idle" => run'[u] # "idle"
    BY <1>9, <1>run DEF Start
  <2>3. args[t] = declared[t]
    BY <1>9, <1>filling, <1>place DEF Start, PlaceInv
  <2>4. \A u \in Task \ {t} : status'[u] = status[u]
    BY <1>9, <1>status DEF Start
  <2>5. \A u \in Task : Kin(u)'
    BY <2>1, <2>2, <1>kin
  <2>6. \A u \in Task : Kept(u)'
    BY <2>1, <2>3, <2>4, <1>kept
  <2> QED BY <2>5, <2>6, <1>0
<1>10. ASSUME NEW t \in Task, EndBody(t) \/ LoadHint(t) \/ Walk(t) \/ FreeDeps(t) \/ Climb(t)
       PROVE FamilyInv'
  <2>1. UNCHANGED <<father, ancestor, optFlags, declared, args, status>>
    BY <1>10 DEF EndBody, LoadHint, Walk, FreeDeps, Climb, itemVars, insVars, history
  <2>2. \A u \in Task : run[u] # "idle" => run'[u] # "idle"
    BY <1>10, <1>run DEF EndBody, LoadHint, Walk, FreeDeps, Climb
  <2>5. \A u \in Task : Kin(u)'
    BY <2>1, <2>2, <1>kin
  <2>6. \A u \in Task : Kept(u)'
    BY <2>1, <1>00
  <2> QED BY <2>5, <2>6, <1>0
<1>13. ASSUME NEW t \in Task, MarkDone(t) PROVE FamilyInv'
  <2> DEFINE c == current[t]
  <2>1. UNCHANGED <<father, ancestor, optFlags, declared, args>>
    BY <1>13 DEF MarkDone, insVars, history
  <2>2. \A u \in Task : run[u] # "idle" => run'[u] # "idle"
    BY <1>13, <1>run DEF MarkDone
  <2>3. c \in Task /\ (declared[c] # <<>> => c = t)
    BY <1>13, FinisherFacts DEF IInv, MarkDone, Completing
  <2>4. args[c] = declared[c]
    <3>1. CASE declared[c] = <<>>
      BY <2>3, <3>1, <1>00
    <3>2. CASE declared[c] # <<>>
      <4>1. c = t /\ Unfinished(t)
        BY <1>13, <2>3, <3>2 DEF MarkDone, Unfinished
      <4>2. status[t] \notin Finished
        BY <3>2, <4>1 DEF IInv, FinishInv, FinishOK
      <4> QED BY <4>1, <4>2, <1>filling
    <3> QED BY <3>1, <3>2
  <2>5. \A u \in Task \ {c} : status'[u] = status[u]
    BY <1>13, <1>status DEF MarkDone
  <2>6. \A u \in Task : Kin(u)'
    BY <2>1, <2>2, <1>kin
  <2>7. \A u \in Task : Kept(u)'
    BY <2>1, <2>3, <2>4, <2>5, <1>kept
  <2> QED BY <2>6, <2>7, <1>0
<1>15. ASSUME NEW t \in Task, Drain(t) PROVE FamilyInv'
  <2> DEFINE w == deps[t][idep[t]]
  <2>1. current[t] = t /\ w \in Task /\ ~ Posted(w)
    BY <1>15, DrainFacts DEF Drain
  <2>2. UNCHANGED <<father, ancestor, optFlags, declared, args, run>>
    BY <1>15 DEF Drain, insVars, history
  <2>3. args[w] = declared[w]
    BY <2>1, <1>filling, <1>place DEF PlaceInv, Posted
  <2>4. \A u \in Task \ {w} : status'[u] = status[u]
    BY <1>15, <2>1, <1>status DEF Drain
  <2>5. \A u \in Task : Kin(u)'
    BY <2>2, <1>kin
  <2>6. \A u \in Task : Kept(u)'
    BY <2>1, <2>2, <2>3, <2>4, <1>kept
  <2> QED BY <2>5, <2>6, <1>0
<1>16. ASSUME NEW t \in Task, Release(t) PROVE FamilyInv'
  <2>1. UNCHANGED <<father, ancestor, optFlags, declared>>
    BY <1>16 DEF Release, insVars, history
  <2>2. \A u \in Task : run[u] # "idle" => run'[u] # "idle"
    BY <1>16, <1>run DEF Release
  <2>3. current[t] \in Task
    BY <1>16, FinisherFacts DEF IInv, Release, Completing
  <2>4. \A u \in Task : Kept(u)'
    BY <1>16, <2>1, <2>3, <1>00, <1>status, <1>args DEF Release
  <2>5. \A u \in Task : Kin(u)'
    BY <2>1, <2>2, <1>kin
  <2> QED BY <2>4, <2>5, <1>0
<1>17. CASE WaitForAll \/ UNCHANGED vars
  <2>1. UNCHANGED <<father, ancestor, optFlags, declared, run, args, status>>
    BY <1>17 DEF WaitForAll, vars, itemVars, insVars, runVars, history
  <2> QED BY <2>1, <1>2
<1> QED
  BY <1>1, <1>3, <1>4, <1>6, <1>7, <1>9, <1>10, <1>13, <1>15, <1>16, <1>17 DEF Next, Insert, Scan, Execute

(***************************************************************************)
(* Every step preserves ListInv.                                           *)
(***************************************************************************)
LEMMA ListStep == ASSUME TwoLevel, IInv, [Next]_vars PROVE ListInv'
<1>worklist. worklist \in Pointer
  BY DEF IInv, TypeInv, TypeOK, ItemTypeOK, ThreadTypeOK
<1>next. next \in [Task -> Pointer]
  BY DEF IInv, TypeInv, TypeOK, ItemTypeOK, ThreadTypeOK
<1>ins. ins \in [Task -> InsPlace]
  BY DEF IInv, TypeInv, TypeOK, ItemTypeOK, ThreadTypeOK
<1>scan. scan \in [Task -> Pointer]
  BY DEF IInv, TypeInv, TypeOK, ItemTypeOK, ThreadTypeOK
<1>before. before \in [Task -> SUBSET Task]
  BY DEF IInv, TypeInv, TypeOK, ItemTypeOK, ThreadTypeOK
<1>inv. ListInv
  BY DEF IInv
<1>1. ASSUME NEW f \in Pointer, NEW t \in Task, NEW a \in Uses[t], Spawn(f, t, a)
      PROVE  ListInv'
  <2>1. UNCHANGED <<worklist, next, scan, before>>
    BY <1>1 DEF Spawn
  <2>2. ins[t] = "unborn" /\ ins' = [ins EXCEPT ![t] = "push"]
    BY <1>1 DEF Spawn
  <2>3. \A p \in Pointer : Reach(p)' = Reach(p)
    BY <2>1 DEF Reach
  <2>4. InWorklist' = InWorklist
    BY <2>1 DEF InWorklist
  <2>5. \A u \in Task : Pushed(u)' <=> Pushed(u)
    BY <2>2, <1>ins DEF Pushed
  <2>6. worklist # Nil => worklist \in Task
    BY <1>worklist DEF Pointer
  <2>7. \A u \in Task : (Inserting(u) /\ Pushed(u))' <=> (Inserting(u) /\ Pushed(u))
    BY <2>2, <1>ins DEF Pushed, Inserting
  <2>8. \A u \in Task : ins'[u] \in {"wait", "inserted"} <=> ins[u] \in {"wait", "inserted"}
    BY <2>2, <1>ins
  <2> QED
    BY <2>1, <2>3, <2>4, <2>5, <2>6, <2>7, <2>8, <1>inv, <1>next, <1>before DEF ListInv
<1>2. ASSUME NEW t \in Task, Push(t) PROVE ListInv'
  <2>1. /\ ins[t] = "push" /\ ins' = [ins EXCEPT ![t] = "scan"]
        /\ next' = [next EXCEPT ![t] = worklist]
        /\ worklist' = t
        /\ scan' = [scan EXCEPT ![t] = worklist]
        /\ before' = [before EXCEPT ![t] = InWorklist]
    BY <1>2 DEF Push
  <2>2. ~ Pushed(t) /\ Pushed(t)' /\ (\A u \in Task \ {t} : Pushed(u)' <=> Pushed(u))
    BY <2>1, <1>ins DEF Pushed
  <2>3. /\ InWorklist \subseteq Task
        /\ \A u \in InWorklist : Pushed(u) /\ before[u] \subseteq InWorklist
    BY <1>inv, <1>worklist, <1>before DEF ListInv, InWorklist, Pointer
  <2>4. t \notin InWorklist /\ worklist # t
    <3>1. t \notin InWorklist
      BY <2>2, <2>3
    <3>2. t # Nil
      BY NilAssumption
    <3> QED BY <2>2, <3>1, <3>2, <1>inv DEF ListInv
  <2>5. \A u \in Task \ {t} : before'[u] = before[u] /\ next'[u] = next[u] /\ scan'[u] = scan[u]
    BY <2>1, <1>before, <1>next, <1>scan
  <2>6. before'[t] = InWorklist /\ next'[t] = worklist /\ scan'[t] = worklist
    BY <2>1, <1>before, <1>next, <1>scan
  <2>7. \A p \in Pointer : p # t => Reach(p)' = Reach(p)
    BY <2>5 DEF Reach, Pointer
  <2>8. InWorklist = Reach(worklist)
    BY DEF InWorklist, Reach
  <2>9. worklist' # Nil /\ InWorklist' = InWorklist \cup {t}
    BY <2>1, <2>6, NilAssumption DEF InWorklist
  <2>10. \A u \in Task \ {t} : Pushed(u) => before[u] = Reach(next[u])' /\ t \notin before[u]
    <3> SUFFICES ASSUME NEW u \in Task, u # t, Pushed(u)
                 PROVE  before[u] = Reach(next[u])' /\ t \notin before[u]
      OBVIOUS
    <3>1. before[u] = Reach(next[u]) /\ t \notin before[u]
      BY <2>2, <1>inv DEF ListInv
    <3>2. next[u] # t
      BY <3>1, NilAssumption DEF Reach
    <3>3. next[u] \in Pointer
      BY <1>next
    <3>4. next'[u] = next[u]
      BY <2>5
    <3>5. (Reach(next[u]))' = Reach(next[u])
      BY <3>2, <3>3, <3>4, <2>7 DEF Reach
    <3> QED BY <3>1, <3>5
  <2>11. ASSUME NEW u \in Task
         PROVE  /\ ~ Pushed(u)' => before'[u] = {}
                /\ Pushed(u)' => before'[u] = Reach(next[u])'
                /\ u \notin before'[u]
                /\ \A v \in before'[u] : Pushed(v)' /\ before'[v] \subseteq before'[u]
                /\ Pushed(u)' => scan'[u] \in before'[u] \cup {Nil}
                /\ ins'[u] \in {"wait", "inserted"} => scan'[u] = Nil
                /\ Inserting(u)' /\ Pushed(u)' => u \in InWorklist'
    <3>1. CASE u = t
      <4>1. Reach(next[t])' = InWorklist
        BY <2>1, <2>4, <2>5, <2>6, <2>8, <1>worklist DEF Reach, Pointer
      <4>2. \A v \in before'[t] : Pushed(v)' /\ before'[v] \subseteq before'[t]
        BY <2>2, <2>3, <2>4, <2>5, <2>6
      <4>3. scan'[t] \in before'[t] \cup {Nil}
        BY <2>6, <2>8 DEF Reach
      <4>4. ins'[t] = "scan"
        BY <2>1, <1>ins
      <4> QED BY <3>1, <4>1, <4>2, <4>3, <4>4, <2>2, <2>4, <2>6, <2>9
    <3>2. CASE u # t
      <4>1. /\ ~ Pushed(u) => before[u] = {}
            /\ u \notin before[u]
            /\ \A v \in before[u] : Pushed(v) /\ before[v] \subseteq before[u]
            /\ Pushed(u) => scan[u] \in before[u] \cup {Nil}
            /\ ins[u] \in {"wait", "inserted"} => scan[u] = Nil
            /\ Inserting(u) /\ Pushed(u) => u \in InWorklist
        BY <1>inv DEF ListInv
      <4>2. \A v \in before[u] : v \in Task /\ v # t
        BY <4>1, <2>2, <1>before
      <4>3. ins'[u] = ins[u]
        BY <3>2, <2>1, <1>ins
      <4>4. Inserting(u)' <=> Inserting(u)
        BY <4>3 DEF Inserting
      <4> QED BY <3>2, <4>1, <4>2, <4>3, <4>4, <2>2, <2>5, <2>9, <2>10
    <3> QED BY <3>1, <3>2
  <2>12. worklist' # Nil => Pushed(worklist)'
    BY <2>1, <2>2
  <2> QED BY <2>11, <2>12 DEF ListInv
<1>3. ASSUME NEW t \in Task, UNCHANGED <<worklist, next, before>>,
             \A u \in Task : Pushed(u)' <=> Pushed(u),
             \A u \in Task : Inserting(u)' => Inserting(u),
             \A u \in Task \ {t} : scan'[u] = scan[u] /\ ins'[u] = ins[u],
             Pushed(t) => scan'[t] \in before[t] \cup {Nil},
             ins'[t] \in {"wait", "inserted"} => scan'[t] = Nil
      PROVE  ListInv'
  <2>1. \A u \in Task : Reach(next[u])' = Reach(next[u])
    BY <1>3 DEF Reach
  <2>2. InWorklist' = InWorklist
    BY <1>3 DEF InWorklist
  <2>3. worklist # Nil => worklist \in Task
    BY <1>worklist DEF Pointer
  <2>4. ASSUME NEW u \in Task
        PROVE  /\ ~ Pushed(u)' => before'[u] = {}
               /\ Pushed(u)' => before'[u] = Reach(next[u])'
               /\ u \notin before'[u]
               /\ \A v \in before'[u] : Pushed(v)' /\ before'[v] \subseteq before'[u]
               /\ Pushed(u)' => scan'[u] \in before'[u] \cup {Nil}
               /\ ins'[u] \in {"wait", "inserted"} => scan'[u] = Nil
               /\ Inserting(u)' /\ Pushed(u)' => u \in InWorklist'
    <3>1. \A v \in before[u] : v \in Task
      BY <1>before
    <3> QED BY <1>3, <2>1, <2>2, <3>1, <1>inv DEF ListInv
  <2>5. worklist' # Nil => Pushed(worklist)'
    BY <1>3, <2>3, <1>inv DEF ListInv
  <2> QED BY <2>4, <2>5 DEF ListInv
<1>4. ASSUME NEW p \in Task, NEW u \in Task, Pushed(u), p \in before[u]
      PROVE  next[p] \in before[u] \cup {Nil}
  BY <1>4, <1>inv, <1>next DEF ListInv, Reach
<1>5. ASSUME NEW t \in Task, ins[t] \in {"scan", "flag"}, scan[t] # Nil
      PROVE  scan[t] \in Task /\ next[scan[t]] \in before[t] \cup {Nil}
  <2>1. Pushed(t) /\ scan[t] \in Task
    BY <1>5, <1>scan DEF Pushed, Pointer
  <2>2. scan[t] \in before[t]
    BY <1>5, <2>1, <1>inv DEF ListInv
  <2> QED BY <2>1, <2>2, <1>4
<1>6. ASSUME NEW t \in Task, SkipAncestor(t) PROVE ListInv'
  <2>1. UNCHANGED <<worklist, next, before, ins>>
    BY <1>6 DEF SkipAncestor, history
  <2>2. scan[t] # Nil /\ ins[t] = "scan" /\ scan' = [scan EXCEPT ![t] = next[scan[t]]]
    BY <1>6, SkipFacts DEF IInv, SkipAncestor
  <2>3. next[scan[t]] \in before[t] \cup {Nil}
    BY <2>2, <1>5
  <2>4. \A u \in Task : (Pushed(u)' <=> Pushed(u)) /\ (Inserting(u)' <=> Inserting(u))
    BY <2>1 DEF Pushed, Inserting
  <2> QED BY <2>1, <2>2, <2>3, <2>4, <1>3, <1>scan
<1>7. ASSUME NEW t \in Task, Look(t) PROVE ListInv'
  <2>1. UNCHANGED <<worklist, next, before>>
    BY <1>7 DEF Look, itemVars, history
  <2>2. scan[t] # Nil /\ ins[t] = "scan"
    BY <1>7 DEF Look
  <2>3. next[scan[t]] \in before[t] \cup {Nil}
    BY <2>2, <1>5
  <2>4. \/ UNCHANGED scan /\ ins' = [ins EXCEPT ![t] = "examine"]
        \/ UNCHANGED ins /\ scan' = [scan EXCEPT ![t] = next[scan[t]]]
    BY <1>7 DEF Look
  <2>5. \A u \in Task : (Pushed(u)' <=> Pushed(u)) /\ (Inserting(u)' <=> Inserting(u))
    BY <2>2, <2>4, <1>ins DEF Pushed, Inserting
  <2>6. Pushed(t) => scan[t] \in before[t] \cup {Nil}
    BY <1>inv DEF ListInv
  <2> QED BY <2>1, <2>2, <2>3, <2>4, <2>5, <2>6, <1>3, <1>scan, <1>ins
<1>8. ASSUME NEW t \in Task, Examine(t) PROVE ListInv'
  <2>1. UNCHANGED <<worklist, next, before, scan>>
    BY <1>8 DEF Examine, history
  <2>2. ins[t] = "examine" /\ ins' = [ins EXCEPT ![t] = "flag"]
    BY <1>8 DEF Examine
  <2>3. \A u \in Task : (Pushed(u)' <=> Pushed(u)) /\ (Inserting(u)' <=> Inserting(u))
    BY <2>2, <1>ins DEF Pushed, Inserting
  <2>4. Pushed(t) => scan[t] \in before[t] \cup {Nil}
    BY <1>inv DEF ListInv
  <2> QED BY <2>1, <2>2, <2>3, <2>4, <1>3, <1>ins
<1>9. ASSUME NEW t \in Task, Flag(t) PROVE ListInv'
  <2>1. UNCHANGED <<worklist, next, before>>
    BY <1>9 DEF Flag, history
  <2>2. /\ ins[t] = "flag" /\ ins' = [ins EXCEPT ![t] = "scan"]
        /\ scan' = [scan EXCEPT ![t] = next[scan[t]]]
    BY <1>9 DEF Flag
  <2>3. scan[t] # Nil
    BY <2>2 DEF IInv, TypeInv, PointersOK
  <2>4. next[scan[t]] \in before[t] \cup {Nil}
    BY <2>2, <2>3, <1>5
  <2>5. \A u \in Task : (Pushed(u)' <=> Pushed(u)) /\ (Inserting(u)' <=> Inserting(u))
    BY <2>2, <1>ins DEF Pushed, Inserting
  <2> QED BY <2>1, <2>2, <2>4, <2>5, <1>3, <1>scan, <1>ins
<1>10. ASSUME NEW t \in Task, Settle(t) \/ SetWaiting(t) PROVE ListInv'
  <2>1. UNCHANGED <<worklist, next, before, scan>>
    BY <1>10 DEF Settle, SetWaiting, history
  <2>2. ins[t] \in {"scan", "wait"} /\ ins' \in {[ins EXCEPT ![t] = "wait"], [ins EXCEPT ![t] = "inserted"]}
    BY <1>10 DEF Settle, SetWaiting
  <2>3. scan[t] = Nil
    BY <1>10, <1>inv DEF Settle, SetWaiting, ListInv
  <2>4. \A u \in Task : (Pushed(u)' <=> Pushed(u)) /\ (Inserting(u)' => Inserting(u))
    BY <2>2, <1>ins DEF Pushed, Inserting
  <2> QED BY <2>1, <2>2, <2>3, <2>4, <1>3, <1>ins
<1>11. ASSUME NEW t \in Task, Execute(t) PROVE ListInv'
  <2>1. UNCHANGED <<worklist, next, before, scan, ins>>
    BY <1>11 DEF Execute, Start, EndBody, MarkDone, LoadHint, Walk, Drain, FreeDeps, Release,
                 Climb, itemVars, insVars, history
  <2>2. \A u \in Task : (Pushed(u)' <=> Pushed(u)) /\ (Inserting(u)' <=> Inserting(u))
    BY <2>1 DEF Pushed, Inserting
  <2>3. Pushed(t) => scan[t] \in before[t] \cup {Nil}
    BY <1>inv DEF ListInv
  <2>4. ins[t] \in {"wait", "inserted"} => scan[t] = Nil
    BY <1>inv DEF ListInv
  <2> QED BY <2>1, <2>2, <2>3, <2>4, <1>3
<1>12. CASE WaitForAll
  <2>1. UNCHANGED <<next, before, scan, ins>> /\ worklist' = Nil
    BY <1>12 DEF WaitForAll, itemVars, insVars, history
  <2>2. \A u \in Task : ~ Inserting(u)'
    BY <1>12, <2>1 DEF WaitForAll, Quiescent, Inserting
  <2>3. \A u \in Task : Pushed(u)' <=> Pushed(u)
    BY <2>1 DEF Pushed
  <2>4. \A u \in Task : Reach(next[u])' = Reach(next[u])
    BY <2>1 DEF Reach
  <2> QED BY <2>1, <2>2, <2>3, <2>4, <1>inv, <1>before DEF ListInv
<1>13. CASE UNCHANGED vars
  <2>1. UNCHANGED <<worklist, next, before, scan, ins>>
    BY <1>13 DEF vars, itemVars, insVars, history
  <2> QED BY <2>1, <1>inv DEF ListInv, Pushed, Inserting, Reach, InWorklist
<1> QED
  BY <1>1, <1>2, <1>6, <1>7, <1>8, <1>9, <1>10, <1>11, <1>12, <1>13 DEF Next, Insert, Scan

(***************************************************************************)
(* The item at which the scan of t stands, and what t has gone past when   *)
(* it moves on.                                                            *)
(***************************************************************************)
LEMMA ScanFacts ==
  ASSUME TypeInv, ListInv, NEW t \in Task, ins[t] \in {"scan", "examine", "flag"}, scan[t] # Nil
  PROVE  /\ scan[t] \in Task /\ Pushed(t)
         /\ scan[t] \in before[t] /\ Pushed(scan[t])
         /\ Reach(scan[t]) = before[scan[t]] \cup {scan[t]}
         /\ Reach(next[scan[t]]) = before[scan[t]]
         /\ scan[t] \notin Visited(t) /\ scan[t] # t
         /\ before[t] \ Reach(next[scan[t]]) = Visited(t) \cup {scan[t]}
<1>1. scan[t] \in Task /\ Pushed(t)
  BY DEF TypeInv, TypeOK, ThreadTypeOK, Pointer, Pushed
<1>2. scan[t] \in before[t] /\ t \notin before[t]
  BY <1>1 DEF ListInv
<1>3. Pushed(scan[t])
  BY <1>2 DEF ListInv
<1>4. Reach(next[scan[t]]) = before[scan[t]] /\ scan[t] \notin before[scan[t]]
  BY <1>1, <1>3 DEF ListInv
<1>5. Reach(scan[t]) = before[scan[t]] \cup {scan[t]}
  BY DEF Reach
<1> QED BY <1>1, <1>2, <1>3, <1>4, <1>5 DEF Visited

LEMMA ScanMoves ==
  ASSUME TypeInv, ListInv, NEW t \in Task, ins[t] \in {"scan", "examine", "flag"}, scan[t] # Nil,
         UNCHANGED before, scan' = [scan EXCEPT ![t] = next[scan[t]]]
  PROVE  /\ Visited(t)' = Visited(t) \cup {scan[t]}
         /\ \A u \in Task \ {t} : Visited(u)' = Visited(u)
<1>1. before[t] \ Reach(next[scan[t]]) = Visited(t) \cup {scan[t]}
  BY ScanFacts
<1>2. scan'[t] = next[scan[t]] /\ \A u \in Task \ {t} : scan'[u] = scan[u]
  BY DEF TypeInv, TypeOK, ThreadTypeOK
<1>3. Visited(t)' = before[t] \ Reach(next[scan[t]])
  BY <1>2 DEF Visited, Reach
<1>4. \A u \in Task \ {t} : Visited(u)' = Visited(u)
  BY <1>2 DEF Visited, Reach
<1> QED BY <1>1, <1>3, <1>4

(***************************************************************************)
(* What t has gone past does not change with the insertion of another.     *)
(***************************************************************************)
LEMMA PushMoves ==
  ASSUME TypeInv, ListInv, NEW t \in Task, Push(t)
  PROVE  /\ Visited(t)' = {}
         /\ \A u \in Task \ {t} : Visited(u)' = Visited(u)
         /\ \A p \in Pointer : p # t => Reach(p)' = Reach(p)
<1>1. /\ worklist \in Pointer /\ scan \in [Task -> Pointer] /\ before \in [Task -> SUBSET Task]
  BY DEF TypeInv, TypeOK, ItemTypeOK, ThreadTypeOK
<1>2. /\ scan'[t] = worklist /\ before'[t] = InWorklist /\ ~ Pushed(t) /\ t # Nil
      /\ \A u \in Task \ {t} : scan'[u] = scan[u] /\ before'[u] = before[u]
  BY <1>1, NilAssumption DEF Push, Pushed
<1>3. worklist # t
  BY <1>2 DEF ListInv
<1>4. \A p \in Pointer : p # t => Reach(p)' = Reach(p)
  BY <1>2 DEF Reach, Pointer
<1>5. Reach(scan[t])' = InWorklist
  BY <1>1, <1>2, <1>3 DEF Reach, InWorklist, Pointer
<1>6. Visited(t)' = {}
  BY <1>2, <1>5 DEF Visited
<1>7. ASSUME NEW u \in Task, u # t PROVE Visited(u)' = Visited(u)
  <2>1. CASE scan[u] = t
    <3>1. ~ Pushed(u)
      BY <1>2, <2>1 DEF ListInv
    <3>2. before[u] = {}
      BY <3>1 DEF ListInv
    <3> QED BY <1>2, <1>7, <3>2 DEF Visited
  <2>2. CASE scan[u] # t
    <3>1. Reach(scan[u])' = Reach(scan[u])
      BY <1>1, <1>2, <1>7, <2>2 DEF Reach, Pointer
    <3> QED BY <1>2, <1>7, <3>1 DEF Visited
  <2> QED BY <2>1, <2>2
<1> QED BY <1>4, <1>6, <1>7

(***************************************************************************)
(* A conflict is with arguments that the older item still has, and had     *)
(* from the start.                                                         *)
(***************************************************************************)
LEMMA HitFacts ==
  ASSUME TypeInv, FamilyInv, ListInv, NEW t \in Task, Examine(t),
         FirstConflict(args[scan[t]], argv[t]) # NoConflict
  PROVE  declared[scan[t]] # <<>>
<1>1. scan[t] \in Task
  BY ScanFacts DEF Examine, TypeInv, PointersOK
<1>2. args[scan[t]] # <<>>
  BY DEF FirstConflict
<1> QED BY <1>1, <1>2 DEF FamilyInv

(***************************************************************************)
(* Every step preserves LinkInv.                                           *)
(***************************************************************************)
LEMMA LinkStep == ASSUME TwoLevel, IInv, [Next]_vars PROVE LinkInv'
<1>ins. ins \in [Task -> InsPlace]
  BY DEF IInv, TypeInv, TypeOK, ItemTypeOK, ThreadTypeOK
<1>scan. scan \in [Task -> Pointer]
  BY DEF IInv, TypeInv, TypeOK, ItemTypeOK, ThreadTypeOK
<1>deps. deps \in [Task -> Seq(Task)]
  BY DEF IInv, TypeInv, TypeOK, ItemTypeOK, ThreadTypeOK
<1>declared. declared \in [Task -> Seq(Region)]
  BY DEF IInv, TypeInv, TypeOK, ItemTypeOK, ThreadTypeOK
<1>before. before \in [Task -> SUBSET Task]
  BY DEF IInv, TypeInv, TypeOK, ItemTypeOK, ThreadTypeOK
<1>inv. TypeInv /\ FamilyInv /\ ListInv /\ LinkInv
  BY DEF IInv
<1>same. ASSUME UNCHANGED <<deps, declared>>,
                \A u \in Task : Pushed(u) => Pushed(u)',
                \A u \in Task : Visited(u) \subseteq Visited(u)',
                \A u \in Task : ins[u] = "flag" => scan[u] \in Visited(u)'
                                                   \/ (scan'[u] = scan[u] /\ ins'[u] = "flag")
         PROVE  LinkInv'
  <2>1. \A u, p \in Task : LinkedBehind(u, p)' <=> LinkedBehind(u, p)
    BY <1>same DEF LinkedBehind
  <2>2. ASSUME NEW u \in Task, NEW p \in Task, LinkedBehind(u, p)
        PROVE  Pushed(u)' /\ (p \in Visited(u)' \/ (p = scan'[u] /\ ins'[u] = "flag"))
    <3>1. Pushed(u) /\ (p \in Visited(u) \/ (p = scan[u] /\ ins[u] = "flag"))
      BY <2>2, <1>inv DEF LinkInv
    <3> QED BY <3>1, <1>same
  <2> QED BY <1>same, <2>1, <2>2, <1>inv DEF LinkInv
<1>0. ASSUME UNCHANGED <<deps, declared, before, scan>>,
             \A u \in Task : Pushed(u) => Pushed(u)',
             \A u \in Task : ins[u] = "flag" => ins'[u] = "flag"
      PROVE  LinkInv'
  <2>1. \A u \in Task : Visited(u)' = Visited(u)
    BY <1>0 DEF Visited, Reach
  <2> QED BY <2>1, <1>0, <1>same
<1>1. ASSUME NEW f \in Pointer, NEW t \in Task, NEW a \in Uses[t], Spawn(f, t, a)
      PROVE  LinkInv'
  <2>1. UNCHANGED <<deps, before, scan>>
    BY <1>1 DEF Spawn
  <2>2. ins[t] = "unborn" /\ ins' = [ins EXCEPT ![t] = "push"]
    BY <1>1 DEF Spawn
  <2>3. \A u \in Task \ {t} : declared'[u] = declared[u]
    BY <1>1, <1>declared DEF Spawn
  <2>4. \A u \in Task : (Pushed(u)' <=> Pushed(u)) /\ (ins[u] = "flag" <=> ins'[u] = "flag")
    BY <2>2, <1>ins DEF Pushed
  <2>5. deps[t] = <<>>
    <3> SUFFICES ASSUME deps[t] # <<>> PROVE FALSE
      OBVIOUS
    <3>1. 1 \in DOMAIN deps[t] /\ deps[t][1] \in Task
      BY <1>deps
    <3> DEFINE u == deps[t][1]
    <3>2. LinkedBehind(u, t)
      BY <3>1 DEF LinkedBehind
    <3>3. Pushed(u) /\ t \in before[u] \cup {scan[u]}
      BY <3>1, <3>2, <1>inv DEF LinkInv, Visited
    <3>4. t \in before[u]
      BY <3>1, <3>3, <1>inv, NilAssumption DEF ListInv
    <3>5. Pushed(t)
      BY <3>1, <3>4, <1>inv DEF ListInv
    <3> QED BY <2>2, <3>5 DEF Pushed
  <2>6. \A u \in Task : Visited(u)' = Visited(u)
    BY <2>1 DEF Visited, Reach
  <2>7. \A u, p \in Task : LinkedBehind(u, p)' <=> LinkedBehind(u, p)
    BY <2>1 DEF LinkedBehind
  <2> QED BY <2>1, <2>3, <2>4, <2>5, <2>6, <2>7, <1>inv DEF LinkInv
<1>2. ASSUME NEW t \in Task, Push(t) PROVE LinkInv'
  <2>1. UNCHANGED <<deps, declared>>
    BY <1>2 DEF Push
  <2>2. /\ ins[t] = "push" /\ ins' = [ins EXCEPT ![t] = "scan"]
        /\ scan' = [scan EXCEPT ![t] = worklist]
    BY <1>2 DEF Push
  <2>3. \A u \in Task : (Pushed(u) => Pushed(u)') /\ (u # t => ins'[u] = ins[u] /\ scan'[u] = scan[u])
    BY <2>2, <1>ins, <1>scan DEF Pushed
  <2>4. before[t] = {}
    BY <2>2, <1>inv DEF ListInv, Pushed
  <2>5. \A u \in Task : Visited(u) \subseteq Visited(u)'
    BY <1>2, <1>inv, <2>4, PushMoves DEF Visited
  <2> QED BY <2>1, <2>2, <2>3, <2>5, <1>same
<1>3. ASSUME NEW t \in Task, ins[t] \in {"scan", "flag"}, scan[t] # Nil,
             UNCHANGED <<deps, declared, before>>,
             ins' = [ins EXCEPT ![t] = "scan"],
             scan' = [scan EXCEPT ![t] = next[scan[t]]]
      PROVE  LinkInv'
  <2>1. /\ Visited(t)' = Visited(t) \cup {scan[t]}
        /\ \A u \in Task \ {t} : Visited(u)' = Visited(u)
    BY <1>3, <1>inv, ScanMoves
  <2>2. \A u \in Task : Pushed(u) => Pushed(u)'
    BY <1>3, <1>ins DEF Pushed
  <2>3. \A u \in Task \ {t} : ins'[u] = ins[u] /\ scan'[u] = scan[u]
    BY <1>3, <1>ins, <1>scan
  <2> QED BY <1>3, <2>1, <2>2, <2>3, <1>same
<1>4. ASSUME NEW t \in Task, SkipAncestor(t) PROVE LinkInv'
  <2>1. UNCHANGED <<deps, declared, before, ins>> /\ ins[t] = "scan" /\ scan[t] # Nil
    BY <1>4 DEF SkipAncestor, history
  <2>2. scan' = [scan EXCEPT ![t] = next[scan[t]]]
    BY <1>4, <1>inv, SkipFacts
  <2>3. ins' = [ins EXCEPT ![t] = "scan"]
    BY <2>1, <1>ins
  <2> QED BY <2>1, <2>2, <2>3, <1>3
<1>5. ASSUME NEW t \in Task, Look(t) PROVE LinkInv'
  <2>1. UNCHANGED <<deps, declared, before>> /\ ins[t] = "scan" /\ scan[t] # Nil
    BY <1>5 DEF Look, itemVars, history
  <2>2. CASE UNCHANGED scan /\ ins' = [ins EXCEPT ![t] = "examine"]
    <3>1. \A u \in Task : (Pushed(u) => Pushed(u)') /\ (ins[u] = "flag" => ins'[u] = "flag")
      BY <2>1, <2>2, <1>ins DEF Pushed
    <3> QED BY <2>1, <2>2, <3>1, <1>0
  <2>3. CASE UNCHANGED ins /\ scan' = [scan EXCEPT ![t] = next[scan[t]]]
    <3>1. ins' = [ins EXCEPT ![t] = "scan"]
      BY <2>1, <2>3, <1>ins
    <3> QED BY <2>1, <2>3, <3>1, <1>3
  <2> QED BY <1>5, <2>2, <2>3 DEF Look
<1>6. ASSUME NEW t \in Task, Examine(t) PROVE LinkInv'
  <2> DEFINE p == scan[t]
  <2>1. UNCHANGED <<declared, before, scan>>
    BY <1>6 DEF Examine, history
  <2>2. ins[t] = "examine" /\ ins' = [ins EXCEPT ![t] = "flag"]
    BY <1>6 DEF Examine
  <2>3. \A u \in Task : (Pushed(u) => Pushed(u)') /\ (ins[u] = "flag" => ins'[u] = "flag")
    BY <2>2, <1>ins DEF Pushed
  <2>4. p \in Task /\ p \notin Visited(t) /\ Pushed(t)
    BY <2>2, <1>inv, ScanFacts DEF TypeInv, PointersOK
  <2>5. CASE UNCHANGED deps
    BY <2>1, <2>3, <2>5, <1>0
  <2>6. CASE FirstConflict(args[p], argv[t]) # NoConflict /\ deps' = [deps EXCEPT ![p] = Append(@, t)]
    <3> DEFINE n == Len(deps[p]) + 1
    <3>1. declared[p] # <<>>
      BY <1>6, <1>inv, <2>6, HitFacts
    <3>2. deps[p] \in Seq(Task)
      BY <2>4, <1>deps
    <3>3. deps'[p] = Append(deps[p], t) /\ \A q \in Task \ {p} : deps'[q] = deps[q]
      BY <2>4, <2>6, <1>deps
    <3>4. /\ DOMAIN deps[p] = 1 .. n - 1 /\ n \in Nat
          /\ DOMAIN deps'[p] = 1 .. n
          /\ \A i \in 1 .. n - 1 : deps'[p][i] = deps[p][i]
          /\ deps'[p][n] = t
      BY <3>2, <3>3
    <3>5. ~ LinkedBehind(t, p)
      BY <2>2, <2>4, <1>inv DEF LinkInv
    <3>6. ASSUME NEW q \in Task, NEW u \in Task, LinkedBehind(u, q)'
          PROVE  LinkedBehind(u, q) \/ (u = t /\ q = p)
      <4>1. CASE q = p
        BY <4>1, <3>4, <3>6 DEF LinkedBehind
      <4>2. CASE q # p
        BY <4>2, <3>3, <3>6 DEF LinkedBehind
      <4> QED BY <4>1, <4>2
    <3>7. \A u \in Task : Visited(u)' = Visited(u)
      BY <2>1 DEF Visited, Reach
    <3>8. ASSUME NEW i \in DOMAIN deps'[p], NEW j \in DOMAIN deps'[p], deps'[p][i] = deps'[p][j]
          PROVE  i = j
      <4>1. CASE i \in 1 .. n - 1 /\ j \in 1 .. n - 1
        BY <4>1, <3>4, <3>8, <1>inv, <2>4 DEF LinkInv
      <4>2. CASE i = n \/ j = n
        BY <4>2, <3>4, <3>5, <3>8 DEF LinkedBehind
      <4> QED BY <4>1, <4>2, <3>4
    <3>9. ASSUME NEW q \in Task, NEW u \in Task, LinkedBehind(u, q)'
          PROVE  Pushed(u)' /\ (q \in Visited(u)' \/ (q = scan'[u] /\ ins'[u] = "flag"))
      <4>1. CASE LinkedBehind(u, q)
        <5>1. Pushed(u) /\ (q \in Visited(u) \/ (q = scan[u] /\ ins[u] = "flag"))
          BY <4>1, <1>inv DEF LinkInv
        <5> QED BY <5>1, <2>1, <2>3, <3>7
      <4>2. CASE u = t /\ q = p
        BY <4>2, <2>1, <2>2, <2>3, <2>4, <1>ins
      <4> QED BY <4>1, <4>2, <3>6, <3>9
    <3>10. \A q \in Task : deps'[q] # <<>> => declared'[q] # <<>>
      BY <2>1, <3>1, <3>3, <1>inv DEF LinkInv
    <3>11. \A q \in Task : \A i, j \in DOMAIN deps'[q] : deps'[q][i] = deps'[q][j] => i = j
      BY <3>3, <3>8, <1>inv DEF LinkInv
    <3> QED BY <3>9, <3>10, <3>11 DEF LinkInv
  <2> QED BY <1>6, <2>5, <2>6 DEF Examine
<1>7. ASSUME NEW t \in Task, Flag(t) PROVE LinkInv'
  <2>1. UNCHANGED <<deps, declared, before>> /\ ins[t] = "flag" /\ scan[t] # Nil
    BY <1>7, <1>inv DEF Flag, history, TypeInv, PointersOK
  <2>2. /\ scan' = [scan EXCEPT ![t] = next[scan[t]]]
        /\ ins' = [ins EXCEPT ![t] = "scan"]
    BY <1>7 DEF Flag
  <2> QED BY <2>1, <2>2, <1>3
<1>8. ASSUME NEW t \in Task, Settle(t) \/ SetWaiting(t) PROVE LinkInv'
  <2>1. UNCHANGED <<deps, declared, before, scan>>
    BY <1>8 DEF Settle, SetWaiting, history
  <2>2. ins[t] \in {"scan", "wait"} /\ ins' \in {[ins EXCEPT ![t] = "wait"], [ins EXCEPT ![t] = "inserted"]}
    BY <1>8 DEF Settle, SetWaiting
  <2>3. \A u \in Task : (Pushed(u) => Pushed(u)') /\ (ins[u] = "flag" => ins'[u] = "flag")
    BY <2>2, <1>ins DEF Pushed
  <2> QED BY <2>1, <2>3, <1>0
<1>9. ASSUME UNCHANGED <<deps, declared, before, scan, ins>> PROVE LinkInv'
  BY <1>9, <1>0 DEF Pushed
<1>10. ASSUME NEW t \in Task, FreeDeps(t) PROVE LinkInv'
  <2> DEFINE c == current[t]
  <2>1. UNCHANGED <<declared, before, scan, ins>>
    BY <1>10 DEF FreeDeps, insVars, history
  <2>2. \A q \in Task : deps'[q] = deps[q] \/ deps'[q] = <<>>
    BY <1>10, <1>deps DEF FreeDeps
  <2>3. \A u, q \in Task : LinkedBehind(u, q)' => LinkedBehind(u, q)
    BY <2>2 DEF LinkedBehind
  <2>4. \A u \in Task : (Visited(u)' = Visited(u)) /\ (Pushed(u)' <=> Pushed(u))
    BY <2>1 DEF Visited, Reach, Pushed
  <2>5. \A q \in Task : \A i, j \in DOMAIN deps'[q] : deps'[q][i] = deps'[q][j] => i = j
    BY <2>2, <1>inv DEF LinkInv
  <2>6. \A q \in Task : deps'[q] # <<>> => declared'[q] # <<>>
    BY <2>1, <2>2, <1>inv DEF LinkInv
  <2> QED BY <2>1, <2>3, <2>4, <2>5, <2>6, <1>inv DEF LinkInv
<1>11. ASSUME NEW t \in Task,
              Start(t) \/ EndBody(t) \/ MarkDone(t) \/ LoadHint(t) \/ Walk(t) \/ Drain(t)
                 \/ Release(t) \/ Climb(t)
       PROVE  LinkInv'
  <2>1. UNCHANGED <<deps, declared, before, scan, ins>>
    BY <1>11 DEF Start, EndBody, MarkDone, LoadHint, Walk, Drain, Release, Climb, itemVars, insVars, history
  <2> QED BY <2>1, <1>9
<1>12. CASE WaitForAll \/ UNCHANGED vars
  <2>1. UNCHANGED <<deps, declared, before, scan, ins>>
    BY <1>12 DEF WaitForAll, vars, itemVars, insVars, history
  <2> QED BY <2>1, <1>9
<1> QED
  BY <1>1, <1>2, <1>4, <1>5, <1>6, <1>7, <1>8, <1>10, <1>11, <1>12 DEF Next, Insert, Scan, Execute

(***************************************************************************)
(* Every step preserves VouchInv.                                          *)
(***************************************************************************)
LEMMA VouchStep == ASSUME TwoLevel, IInv, [Next]_vars PROVE VouchInv'
<1>status. status \in [Task -> Status]
  BY DEF IInv, TypeInv, TypeOK, ItemTypeOK, ThreadTypeOK
<1>optFlags. optFlags \in [Task -> SUBSET OptFlags]
  BY DEF IInv, TypeInv, TypeOK, ItemTypeOK, ThreadTypeOK
<1>ins. ins \in [Task -> InsPlace]
  BY DEF IInv, TypeInv, TypeOK, ItemTypeOK, ThreadTypeOK
<1>scan. scan \in [Task -> Pointer]
  BY DEF IInv, TypeInv, TypeOK, ItemTypeOK, ThreadTypeOK
<1>before. before \in [Task -> SUBSET Task]
  BY DEF IInv, TypeInv, TypeOK, ItemTypeOK, ThreadTypeOK
<1>inv. TypeInv /\ PlaceInv /\ FamilyInv /\ ListInv /\ VouchInv
  BY DEF IInv
<1>seen. ASSUME NEW t \in Task, NEW u \in Visited(t) PROVE u \in Task /\ Pushed(u)
  BY <1>seen, <1>inv, <1>before DEF Visited, ListInv
<1>same. ASSUME \A u \in Task : Visited(u)' = Visited(u),
                \A u \in Task : "PendingFills" \notin optFlags'[u] => "PendingFills" \notin optFlags[u],
                \A u \in Task : Pushed(u) /\ status'[u] = "Filling" => status[u] = "Filling"
         PROVE  VouchInv'
  BY <1>same, <1>seen, <1>inv DEF VouchInv
<1>0. ASSUME UNCHANGED <<before, scan, optFlags>>,
             \A u \in Task : Pushed(u) /\ status'[u] = "Filling" => status[u] = "Filling"
      PROVE  VouchInv'
  <2>1. \A u \in Task : Visited(u)' = Visited(u)
    BY <1>0 DEF Visited, Reach
  <2> QED BY <2>1, <1>0, <1>same
<1>1. ASSUME NEW f \in Pointer, NEW t \in Task, NEW a \in Uses[t], Spawn(f, t, a)
      PROVE  VouchInv'
  <2>1. UNCHANGED <<before, scan, optFlags>>
    BY <1>1 DEF Spawn
  <2>2. ~ Pushed(t) /\ \A u \in Task \ {t} : status'[u] = status[u]
    BY <1>1, <1>status DEF Spawn, Pushed
  <2> QED BY <2>1, <2>2, <1>0
<1>2. ASSUME NEW t \in Task, Push(t) PROVE VouchInv'
  <2>1. UNCHANGED <<optFlags, status>>
    BY <1>2 DEF Push
  <2>2. Visited(t)' = {} /\ \A u \in Task \ {t} : Visited(u)' = Visited(u)
    BY <1>2, <1>inv, PushMoves
  <2> QED BY <2>1, <2>2, <1>inv DEF VouchInv
<1>3. ASSUME NEW t \in Task, ins[t] \in {"scan", "flag"}, scan[t] # Nil,
             UNCHANGED <<before, status>>,
             scan' = [scan EXCEPT ![t] = next[scan[t]]],
             \A u \in Task : "PendingFills" \notin optFlags'[u] => "PendingFills" \notin optFlags[u],
             status[scan[t]] = "Filling" => "PendingFills" \in optFlags'[t]
      PROVE  VouchInv'
  <2>1. /\ Visited(t)' = Visited(t) \cup {scan[t]}
        /\ \A u \in Task \ {t} : Visited(u)' = Visited(u)
    BY <1>3, <1>inv, ScanMoves
  <2> QED BY <2>1, <1>3, <1>inv DEF VouchInv
<1>4. ASSUME NEW t \in Task, SkipAncestor(t) PROVE VouchInv'
  <2>1. UNCHANGED <<before, status>> /\ ins[t] = "scan" /\ scan[t] # Nil
    BY <1>4 DEF SkipAncestor, history
  <2>2. /\ scan' = [scan EXCEPT ![t] = next[scan[t]]] /\ optFlags' = optFlags
        /\ scan[t] \in Task /\ scan[t] = father[t]
    BY <1>4, <1>inv, SkipFacts
  <2>3. run[scan[t]] # "idle"
    BY <2>1, <2>2, <1>inv DEF FamilyInv
  <2>4. status[scan[t]] # "Filling"
    BY <2>2, <2>3, <1>inv DEF PlaceInv, Posted, Inserting
  <2> QED BY <2>1, <2>2, <2>4, <1>3
<1>5. ASSUME NEW t \in Task, Look(t) PROVE VouchInv'
  <2>1. UNCHANGED <<before, status, optFlags>> /\ ins[t] = "scan" /\ scan[t] # Nil
    BY <1>5 DEF Look, itemVars, history
  <2>2. CASE UNCHANGED scan
    BY <2>1, <2>2, <1>0
  <2>3. CASE status[scan[t]] \notin Active /\ scan' = [scan EXCEPT ![t] = next[scan[t]]]
    BY <2>1, <2>3, <1>3 DEF Active
  <2> QED BY <1>5, <2>2, <2>3 DEF Look
<1>6. ASSUME NEW t \in Task, Examine(t) PROVE VouchInv'
  <2>1. UNCHANGED <<before, scan, optFlags, status>>
    BY <1>6 DEF Examine, history
  <2> QED BY <2>1, <1>0
<1>7. ASSUME NEW t \in Task, Flag(t) PROVE VouchInv'
  <2>1. UNCHANGED <<before, status>> /\ ins[t] = "flag" /\ scan[t] # Nil
    BY <1>7, <1>inv DEF Flag, history, TypeInv, PointersOK
  <2>2. scan' = [scan EXCEPT ![t] = next[scan[t]]]
    BY <1>7 DEF Flag
  <2>3. /\ \A u \in Task : "PendingFills" \notin optFlags'[u] => "PendingFills" \notin optFlags[u]
        /\ status[scan[t]] = "Filling" => "PendingFills" \in optFlags'[t]
    BY <1>7, <1>optFlags DEF Flag
  <2> QED BY <2>1, <2>2, <2>3, <1>3
<1>8. ASSUME UNCHANGED <<before, scan, optFlags>>, NEW s \in Status \ {"Filling"},
             NEW c \in Task, status' \in {status, [status EXCEPT ![c] = s]}
      PROVE  VouchInv'
  <2>1. \A u \in Task : status'[u] = "Filling" => status[u] = "Filling"
    BY <1>8, <1>status
  <2> QED BY <2>1, <1>8, <1>0
<1>9. ASSUME NEW t \in Task, Settle(t) \/ SetWaiting(t) PROVE VouchInv'
  <2>1. UNCHANGED <<before, scan, optFlags>>
    BY <1>9 DEF Settle, SetWaiting, history
  <2>2. status' \in {status, [status EXCEPT ![t] = "Ready"], [status EXCEPT ![t] = "Waiting"]}
    BY <1>9 DEF Settle, SetWaiting
  <2> QED BY <2>1, <2>2, <1>8 DEF Status, Active
<1>10. ASSUME NEW t \in Task, Start(t) PROVE VouchInv'
  <2>1. UNCHANGED <<before, scan, optFlags>> /\ status' = [status EXCEPT ![t] = "Running"]
    BY <1>10 DEF Start, insVars, history
  <2> QED BY <2>1, <1>8 DEF Status, Active
<1>11. ASSUME NEW t \in Task, MarkDone(t) PROVE VouchInv'
  <2>1. current[t] \in Task
    BY <1>11, FinisherFacts DEF IInv, MarkDone, Completing
  <2>2. UNCHANGED <<before, scan, optFlags>> /\ status' = [status EXCEPT ![current[t]] = "Done"]
    BY <1>11 DEF MarkDone, insVars, history
  <2> QED BY <2>1, <2>2, <1>8 DEF Status, Active, Finished
<1>12. ASSUME NEW t \in Task, Drain(t) PROVE VouchInv'
  <2> DEFINE w == deps[t][idep[t]]
  <2>1. w \in Task /\ current[t] = t
    BY <1>12, DrainFacts DEF Drain
  <2>2. UNCHANGED <<before, scan, optFlags>> /\ status' \in {status, [status EXCEPT ![w] = "Ready"]}
    BY <1>12, <2>1 DEF Drain, insVars, history
  <2> HIDE DEF w
  <2> QED BY <2>1, <2>2, <1>8 DEF Status, Active
<1>13. ASSUME NEW t \in Task, Release(t) PROVE VouchInv'
  <2>1. current[t] \in Task
    BY <1>13, FinisherFacts DEF IInv, Release, Completing
  <2>2. UNCHANGED <<before, scan, optFlags>> /\ status' = [status EXCEPT ![current[t]] = "Deallocatable"]
    BY <1>13 DEF Release, insVars, history
  <2> QED BY <2>1, <2>2, <1>8 DEF Status, Active, Finished
<1>14. ASSUME NEW t \in Task, EndBody(t) \/ LoadHint(t) \/ Walk(t) \/ FreeDeps(t) \/ Climb(t)
       PROVE  VouchInv'
  <2>1. UNCHANGED <<before, scan, optFlags, status>>
    BY <1>14 DEF EndBody, LoadHint, Walk, FreeDeps, Climb, itemVars, insVars, history
  <2> QED BY <2>1, <1>0
<1>15. CASE WaitForAll \/ UNCHANGED vars
  <2>1. UNCHANGED <<before, scan, optFlags, status>>
    BY <1>15 DEF WaitForAll, vars, itemVars, insVars, history
  <2> QED BY <2>1, <1>0
<1> QED
  BY <1>1, <1>2, <1>4, <1>5, <1>6, <1>7, <1>9, <1>10, <1>11, <1>12, <1>13, <1>14, <1>15
  DEF Next, Insert, Scan, Execute

(***************************************************************************)
(* What touches an item is in the worklist above it.                       *)
(***************************************************************************)
LEMMA TouchFacts ==
  ASSUME IInv, NEW u \in Task, NEW c \in Task, Touches(u, c)
  PROVE  Pushed(u) /\ Inserting(u) /\ c \in before[u] /\ u \in InWorklist
<1>1. Inserting(u)
  BY DEF Touches
<1>2. Pushed(u)
  <2>1. CASE LinkedBehind(u, c)
    BY <2>1 DEF IInv, LinkInv
  <2>2. CASE ins[u] = "examine"
    BY <2>2 DEF Pushed
  <2> QED BY <2>1, <2>2 DEF Touches
<1>3. c = scan[u] \/ c \in Visited(u)
  BY DEF Touches, IInv, LinkInv
<1>4. c \in before[u]
  BY <1>2, <1>3, NilAssumption DEF IInv, ListInv, Visited
<1>5. u \in InWorklist
  BY <1>1, <1>2 DEF IInv, ListInv
<1> QED BY <1>1, <1>2, <1>4, <1>5

(***************************************************************************)
(* The wait of t for p: p has found its dependencies, so it touches        *)
(* nothing; and if it noted no item still being filled in, neither does    *)
(* any item older than p.                                                  *)
(***************************************************************************)
LEMMA WalkFacts ==
  ASSUME TwoLevel, IInv, NEW t \in Task, run[t] = "walk", walk[t] \in Task,
         status[walk[t]] # "Filling", NEW u \in Task, Touches(u, current[t])
  PROVE  /\ Pushed(walk[t]) /\ Reach(next[walk[t]]) = before[walk[t]]
         /\ u \in before[walk[t]]
         /\ "PendingFills" \in optFlags[walk[t]]
<1> DEFINE p == walk[t]
           c == current[t]
<1>1. Pushed(p) /\ u \in Reach(p)
  BY NilAssumption DEF IInv, FinishInv, FinishOK
<1>2. ~ Inserting(p)
  BY DEF IInv, PlaceInv
<1>3. c \in Task
  BY FinisherFacts DEF IInv, Completing
<1>4. Pushed(u) /\ Inserting(u)
  BY <1>3, TouchFacts
<1>5. u \in before[p]
  BY <1>1, <1>2, <1>4 DEF Reach
<1>6. Reach(next[p]) = before[p]
  BY <1>1 DEF IInv, ListInv
<1>7. scan[p] = Nil
  BY <1>1, <1>2 DEF IInv, ListInv, Inserting, Pushed
<1>8. u \in Visited(p)
  BY <1>5, <1>7 DEF Visited, Reach
<1>9. status[u] = "Filling"
  BY <1>4 DEF IInv, PlaceInv
<1>10. "PendingFills" \in optFlags[p]
  BY <1>8, <1>9 DEF IInv, VouchInv
<1> QED BY <1>1, <1>5, <1>6, <1>10

(***************************************************************************)
(* Nothing touches an item with arguments whose thread has walked down the *)
(* worklist to the item itself, or to its end.                             *)
(***************************************************************************)
LEMMA WalkEnds ==
  ASSUME TwoLevel, IInv, NEW t \in Task, run[t] = "walk", walk[t] = Nil \/ walk[t] = t,
         NEW u \in Task
  PROVE  ~ Touches(u, current[t])
<1> SUFFICES ASSUME Touches(u, current[t]) PROVE FALSE
  OBVIOUS
<1>1. /\ current[t] \in Task /\ (declared[current[t]] # <<>> => current[t] = t)
      /\ run[t] # "idle"
  BY FinisherFacts DEF IInv, Completing
<1>2. current[t] = t
  BY <1>1 DEF Touches
<1>3. u \in Reach(walk[t])
  BY DEF IInv, FinishInv, FinishOK
<1>4. walk[t] = t /\ u \in before[t] \cup {t}
  BY <1>3, NilAssumption DEF Reach
<1>5. Inserting(u) /\ t \in before[u]
  BY <1>1, <1>2, TouchFacts
<1>6. u # t
  BY <1>1, <1>5 DEF IInv, PlaceInv, Posted, Inserting
<1>7. before[u] \subseteq before[t] /\ t \notin before[t]
  BY <1>4, <1>6 DEF IInv, ListInv
<1> QED BY <1>5, <1>7

(***************************************************************************)
(* What is near an item, examined or linked, when it is being inserted.    *)
(***************************************************************************)
LEMMA NearFacts ==
  ASSUME IInv, NEW u \in Task, NEW c \in Task,
         (ins[u] = "examine" /\ scan[u] = c) \/ LinkedBehind(u, c)
  PROVE  Pushed(u) /\ Pushed(c)
<1>1. Pushed(u)
  BY DEF IInv, LinkInv, Pushed
<1>2. c = scan[u] \/ c \in Visited(u)
  BY DEF IInv, LinkInv
<1>3. c \in before[u]
  BY <1>1, <1>2, NilAssumption DEF IInv, ListInv, Visited
<1> QED BY <1>1, <1>3 DEF IInv, ListInv

(***************************************************************************)
(* A step that leaves the thread of x alone keeps FinishOK(x): it may only *)
(* make u touch an item that is not finished, link behind an item that is  *)
(* touched, and change the status of an item that is not posted, or        *)
(* finish it.                                                              *)
(***************************************************************************)
LEMMA FinishFrame ==
  ASSUME TwoLevel, IInv, NEW x \in Task,
         run'[x] = run[x], walk'[x] = walk[x], current'[x] = current[x], idep'[x] = idep[x],
         run[x] # "idle" => father'[x] = father[x],
         \A u, c \in Task : Touches(u, c)' => Touches(u, c) \/ status[c] \notin Finished,
         \A c \in Task : deps'[c] = <<>> \/ deps[c] # <<>> \/ \E u \in Task : Touches(u, c),
         \A p \in Task : Pushed(p) => Pushed(p)' /\ Reach(p)' = Reach(p),
         \A p \in Task : status'[p] \in Finished \/ status'[p] = status[p] \/ run[p] = "idle",
         \/ status'[x] # "Deallocatable" \/ status[x] = "Deallocatable"
         \/ deps'[x] = <<>> /\ \A u \in Task : ~ Touches(u, x)',
         \/ status'[x] \notin Finished \/ declared'[x] = <<>>
         \/ status[x] \in Finished /\ declared'[x] = declared[x]
  PROVE  FinishOK(x)'
<1>inv. FinishOK(x)
  BY DEF IInv, FinishInv
<1>c. Completing(x) => current[x] \in Task /\ run[x] # "idle" /\ run[current[x]] # "idle"
  BY FinisherFacts DEF IInv
<1>w. walk[x] \in Pointer
  BY DEF IInv, TypeInv, TypeOK, ThreadTypeOK
<1>1. (Completing(x) => current[x] \in {x, father[x]})'
  BY <1>inv, <1>c DEF FinishOK, Completing
<1>2. (run[x] \in {"load", "walk", "drain", "free"} => status[current[x]] \in Finished)'
  <2> SUFFICES ASSUME run[x] \in {"load", "walk", "drain", "free"}
               PROVE  status'[current[x]] \in Finished
    OBVIOUS
  <2>1. Completing(x)
    BY DEF Completing
  <2> QED BY <2>1, <1>inv, <1>c DEF FinishOK
<1>3. (run[x] = "walk" /\ walk[x] # Nil => Pushed(walk[x]))'
  BY <1>inv, <1>w DEF FinishOK, Pointer
<1>4. (run[x] = "walk" => \A u \in Task : Touches(u, current[x]) => u \in Reach(walk[x]))'
  <2> SUFFICES ASSUME run[x] = "walk", NEW u \in Task, Touches(u, current[x])'
               PROVE  u \in Reach(walk[x])'
    OBVIOUS
  <2>1. Completing(x)
    BY DEF Completing
  <2>2. current[x] \in Task /\ status[current[x]] \in Finished
    BY <2>1, <1>inv, <1>c DEF FinishOK
  <2>3. u \in Reach(walk[x])
    BY <2>2, <1>inv DEF FinishOK
  <2>4. walk[x] \in Task /\ Pushed(walk[x])
    BY <2>3, <1>inv, <1>w DEF FinishOK, Reach, Pointer
  <2>5. before'[walk[x]] \cup {walk[x]} = Reach(walk[x])
    BY <2>4, NilAssumption DEF Reach
  <2> QED BY <2>3, <2>4, <2>5, NilAssumption DEF Reach
<1>5. (run[x] \in {"drain", "free"} => \A u \in Task : ~ Touches(u, current[x]))'
  <2> SUFFICES ASSUME run[x] \in {"drain", "free"}, NEW u \in Task, Touches(u, current[x])'
               PROVE  FALSE
    OBVIOUS
  <2>1. Completing(x)
    BY DEF Completing
  <2>2. current[x] \in Task /\ status[current[x]] \in Finished
    BY <2>1, <1>inv, <1>c DEF FinishOK
  <2> QED BY <2>2, <1>inv DEF FinishOK
<1>6. (run[x] = "free" => deps[current[x]] = <<>>)'
  <2> SUFFICES ASSUME run[x] = "free" PROVE deps'[current[x]] = <<>>
    OBVIOUS
  <2>1. current[x] \in Task
    BY <1>c DEF Completing
  <2> QED BY <2>1, <1>inv DEF FinishOK
<1>7. (run[x] = "drain" => idep[x] >= 1)'
  BY <1>inv DEF FinishOK
<1>8. (status[x] = "Deallocatable" => deps[x] = <<>> /\ \A u \in Task : ~ Touches(u, x))'
  <2> SUFFICES ASSUME status'[x] = "Deallocatable", status[x] = "Deallocatable"
               PROVE  deps'[x] = <<>> /\ \A u \in Task : ~ Touches(u, x)'
    OBVIOUS
  <2> QED BY <1>inv DEF FinishOK, Finished
<1>9. (declared[x] # <<>> /\ Unfinished(x) => status[x] \notin Finished)'
  BY <1>inv DEF FinishOK, Unfinished
<1> QED BY <1>1, <1>2, <1>3, <1>4, <1>5, <1>6, <1>7, <1>8, <1>9 DEF FinishOK

(***************************************************************************)
(* Every step preserves FinishInv.                                         *)
(***************************************************************************)
LEMMA FinishStep == ASSUME TwoLevel, IInv, [Next]_vars PROVE FinishInv'
<1>status. status \in [Task -> Status]
  BY DEF IInv, TypeInv, TypeOK, ItemTypeOK, ThreadTypeOK
<1>ins. ins \in [Task -> InsPlace]
  BY DEF IInv, TypeInv, TypeOK, ItemTypeOK, ThreadTypeOK
<1>scan. scan \in [Task -> Pointer]
  BY DEF IInv, TypeInv, TypeOK, ItemTypeOK, ThreadTypeOK
<1>run. run \in [Task -> RunPlace]
  BY DEF IInv, TypeInv, TypeOK, ItemTypeOK, ThreadTypeOK
<1>father. father \in [Task -> Pointer]
  BY DEF IInv, TypeInv, TypeOK, ItemTypeOK, ThreadTypeOK
<1>deps. deps \in [Task -> Seq(Task)]
  BY DEF IInv, TypeInv, TypeOK, ItemTypeOK, ThreadTypeOK
<1>declared. declared \in [Task -> Seq(Region)]
  BY DEF IInv, TypeInv, TypeOK, ItemTypeOK, ThreadTypeOK
<1>walk. walk \in [Task -> Pointer]
  BY DEF IInv, TypeInv, TypeOK, ItemTypeOK, ThreadTypeOK
<1>current. current \in [Task -> Pointer]
  BY DEF IInv, TypeInv, TypeOK, ItemTypeOK, ThreadTypeOK
<1>idep. idep \in [Task -> Nat]
  BY DEF IInv, TypeInv, TypeOK, ItemTypeOK, ThreadTypeOK
<1>inv. TypeInv /\ PlaceInv /\ FamilyInv /\ ListInv /\ LinkInv /\ FinishInv
  BY DEF IInv
<1>touch. ASSUME UNCHANGED <<deps, declared>>,
                 \A u \in Task : Inserting(u)' => Inserting(u),
                 \A u \in Task : ins'[u] = "examine" =>
                    \/ ins[u] = "examine" /\ scan'[u] = scan[u]
                    \/ status[scan'[u]] \notin Finished
          PROVE  \A u, c \in Task : Touches(u, c)' => Touches(u, c) \/ status[c] \notin Finished
  BY <1>touch DEF Touches, LinkedBehind
<1>0. ASSUME UNCHANGED <<runVars, before, father>>,
             \A p \in Task : Pushed(p) => Pushed(p)',
             \A u, c \in Task : Touches(u, c)' => Touches(u, c) \/ status[c] \notin Finished,
             \A c \in Task : deps'[c] = <<>> \/ deps[c] # <<>> \/ \E u \in Task : Touches(u, c),
             \A p \in Task : \/ status'[p] = status[p] /\ declared'[p] = declared[p]
                             \/ status'[p] \notin Finished /\ run[p] = "idle"
      PROVE  FinishInv'
  <2> SUFFICES ASSUME NEW x \in Task PROVE FinishOK(x)'
    BY DEF FinishInv
  <2>1. UNCHANGED <<run, walk, current, idep>>
    BY <1>0 DEF runVars
  <2>2. \A p \in Task : Pushed(p) => Pushed(p)' /\ Reach(p)' = Reach(p)
    BY <1>0 DEF Reach
  <2>3. "Deallocatable" \in Finished
    BY DEF Finished
  <2> QED BY <2>1, <2>2, <2>3, <1>0, FinishFrame
<1>1. ASSUME NEW f \in Pointer, NEW t \in Task, NEW a \in Uses[t], Spawn(f, t, a)
      PROVE  FinishInv'
  <2>1. UNCHANGED <<runVars, before, deps, scan>> /\ ins[t] = "unborn"
    BY <1>1 DEF Spawn
  <2>2. /\ ins' = [ins EXCEPT ![t] = "push"] /\ status' = [status EXCEPT ![t] = "Filling"]
        /\ father' = [father EXCEPT ![t] = f] /\ declared' = [declared EXCEPT ![t] = a]
    BY <1>1 DEF Spawn
  <2>3. run[t] = "idle" /\ ~ Pushed(t)
    BY <2>1, <1>inv DEF PlaceInv, Posted, Pushed
  <2>4. \A p \in Task : (Pushed(p) => Pushed(p)') /\ (ins'[p] = "examine" => ins[p] = "examine")
    BY <2>2, <2>3, <1>ins DEF Pushed
  <2>5. ASSUME NEW u \in Task, NEW c \in Task, Touches(u, c)' PROVE Touches(u, c)
    <3>1. (ins[u] = "examine" /\ scan[u] = c) \/ LinkedBehind(u, c)
      BY <2>1, <2>4, <2>5 DEF Touches, LinkedBehind
    <3>2. Pushed(u) /\ Pushed(c)
      BY <3>1, NearFacts
    <3>3. declared'[c] = declared[c] /\ ins'[u] = ins[u]
      BY <3>2, <2>2, <2>3
    <3> QED BY <3>1, <3>3, <2>5 DEF Touches, Inserting
  <2>6. ASSUME NEW x \in Task PROVE FinishOK(x)'
    <3>1. UNCHANGED <<run, walk, current, idep>>
      BY <2>1 DEF runVars
    <3>2. \A p \in Task : Pushed(p) => Pushed(p)' /\ Reach(p)' = Reach(p)
      BY <2>1, <2>4 DEF Reach
    <3>3. \A p \in Task : \/ status'[p] = status[p] /\ declared'[p] = declared[p]
                          \/ status'[p] \notin Finished /\ run[p] = "idle"
      BY <2>2, <2>3, <1>status, <1>declared DEF Finished
    <3>4. run[x] # "idle" => father'[x] = father[x]
      BY <2>2, <2>3
    <3>5. "Deallocatable" \in Finished
      BY DEF Finished
    <3> QED BY <3>1, <3>2, <3>3, <3>4, <3>5, <2>1, <2>5, FinishFrame
  <2> QED BY <2>6 DEF FinishInv
<1>2. ASSUME NEW t \in Task, Push(t) PROVE FinishInv'
  <2>1. UNCHANGED <<runVars, father, deps, status, declared>> /\ ins[t] = "push"
    BY <1>2 DEF Push
  <2>2. ins' = [ins EXCEPT ![t] = "scan"] /\ \A u \in Task \ {t} : scan'[u] = scan[u]
    BY <1>2, <1>scan DEF Push
  <2>3. /\ \A u \in Task : Inserting(u)' => Inserting(u)
        /\ \A u \in Task : ins'[u] = "examine" => ins[u] = "examine" /\ scan'[u] = scan[u]
    BY <2>1, <2>2, <1>ins DEF Inserting
  <2>4. \A u, c \in Task : Touches(u, c)' => Touches(u, c) \/ status[c] \notin Finished
    BY <2>1, <2>3, <1>touch
  <2>5. \A p \in Task : Pushed(p) => Pushed(p)' /\ Reach(p)' = Reach(p)
    BY <2>1, <2>2, <1>2, <1>inv, PushMoves DEF Pushed, Pointer
  <2>6. ASSUME NEW x \in Task PROVE FinishOK(x)'
    <3>1. UNCHANGED <<run, walk, current, idep>>
      BY <2>1 DEF runVars
    <3> QED BY <3>1, <2>1, <2>4, <2>5, FinishFrame
  <2> QED BY <2>6 DEF FinishInv
<1>3. ASSUME NEW t \in Task, SkipAncestor(t) \/ Look(t) \/ Flag(t) PROVE FinishInv'
  <2>1. UNCHANGED <<runVars, before, father, deps, status, declared>>
    BY <1>3 DEF SkipAncestor, Look, Flag, history, itemVars
  <2>2. /\ ins[t] \in {"scan", "flag"}
        /\ \/ ins' = [ins EXCEPT ![t] = "scan"]
           \/ ins' = [ins EXCEPT ![t] = "examine"] /\ status[scan[t]] \in Active /\ UNCHANGED scan
    BY <1>3, <1>ins DEF SkipAncestor, Look, Flag
  <2>3. \A u \in Task \ {t} : scan'[u] = scan[u]
    BY <1>3, <1>scan DEF SkipAncestor, Look, Flag
  <2>4. \A p \in Task : (Pushed(p) => Pushed(p)') /\ (Inserting(p)' => Inserting(p))
    BY <2>2, <1>ins DEF Pushed, Inserting
  <2>5. \A u \in Task : ins'[u] = "examine" =>
           \/ ins[u] = "examine" /\ scan'[u] = scan[u]
           \/ status[scan'[u]] \notin Finished
    BY <2>2, <2>3, <1>ins DEF Active, Finished
  <2>6. \A u, c \in Task : Touches(u, c)' => Touches(u, c) \/ status[c] \notin Finished
    BY <2>1, <2>4, <2>5, <1>touch
  <2> QED BY <2>1, <2>4, <2>6, <1>0
<1>4. ASSUME NEW t \in Task, Examine(t) PROVE FinishInv'
  <2> DEFINE p == scan[t]
  <2>1. UNCHANGED <<runVars, before, father, status, declared, scan>> /\ ins[t] = "examine"
    BY <1>4 DEF Examine, history
  <2>2. ins' = [ins EXCEPT ![t] = "flag"] /\ p \in Task
    BY <1>4, <2>1, <1>inv, <1>scan DEF Examine, TypeInv, PointersOK, Pointer
  <2>3. /\ \A u \in Task : Inserting(u)' => Inserting(u)
        /\ \A u \in Task : ins'[u] = "examine" => ins[u] = "examine" /\ scan'[u] = scan[u]
        /\ \A u \in Task : Pushed(u) => Pushed(u)'
    BY <2>1, <2>2, <1>ins DEF Inserting, Pushed
  <2>4. CASE UNCHANGED deps
    <3>1. \A u, c \in Task : Touches(u, c)' => Touches(u, c) \/ status[c] \notin Finished
      BY <2>1, <2>3, <2>4, <1>touch
    <3> QED BY <2>1, <2>3, <2>4, <3>1, <1>0
  <2>5. CASE deps' = [deps EXCEPT ![p] = Append(@, t)] /\ FirstConflict(args[p], argv[t]) # NoConflict
    <3>1. Touches(t, p)
      BY <2>1, <2>5, <1>4, <1>inv, HitFacts DEF Touches, Inserting
    <3>2. deps[p] \in Seq(Task) /\ deps'[p] = Append(deps[p], t)
      BY <2>2, <2>5, <1>deps
    <3>3. \A c \in Task \ {p} : deps'[c] = deps[c]
      BY <2>5, <1>deps
    <3>4. ASSUME NEW u \in Task, LinkedBehind(u, p)' PROVE LinkedBehind(u, p) \/ u = t
      <4>1. PICK i \in DOMAIN deps'[p] : deps'[p][i] = u
        BY <3>4, <2>1 DEF LinkedBehind
      <4>2. (i \in DOMAIN deps[p] /\ deps'[p][i] = deps[p][i]) \/ deps'[p][i] = t
        BY <3>2, <4>1
      <4> QED BY <4>1, <4>2 DEF LinkedBehind
    <3>5. \A u \in Task, c \in Task \ {p} : LinkedBehind(u, c)' => LinkedBehind(u, c)
      BY <3>3 DEF LinkedBehind
    <3>6. \A u, c \in Task : Touches(u, c)' => Touches(u, c)
      BY <2>1, <2>3, <3>1, <3>4, <3>5 DEF Touches
    <3>7. \A c \in Task : deps'[c] = <<>> \/ deps[c] # <<>> \/ \E u \in Task : Touches(u, c)
      BY <3>1, <3>3
    <3> QED BY <2>1, <2>3, <3>6, <3>7, <1>0
  <2> QED BY <1>4, <2>4, <2>5 DEF Examine
<1>5. ASSUME NEW t \in Task, Settle(t) \/ SetWaiting(t) PROVE FinishInv'
  <2>1. UNCHANGED <<runVars, before, father, deps, declared, scan>>
    BY <1>5 DEF Settle, SetWaiting, history
  <2>2. /\ ins[t] \in {"scan", "wait"}
        /\ ins' \in {[ins EXCEPT ![t] = "wait"], [ins EXCEPT ![t] = "inserted"]}
        /\ status' \in {status, [status EXCEPT ![t] = "Ready"], [status EXCEPT ![t] = "Waiting"]}
    BY <1>5 DEF Settle, SetWaiting
  <2>3. run[t] = "idle"
    BY <2>2, <1>inv DEF PlaceInv, Posted
  <2>4. /\ \A u \in Task : Inserting(u)' => Inserting(u)
        /\ \A u \in Task : ins'[u] = "examine" => ins[u] = "examine" /\ scan'[u] = scan[u]
        /\ \A u \in Task : Pushed(u) => Pushed(u)'
    BY <2>1, <2>2, <1>ins DEF Inserting, Pushed
  <2>5. \A u, c \in Task : Touches(u, c)' => Touches(u, c) \/ status[c] \notin Finished
    BY <2>1, <2>4, <1>touch
  <2>6. \A p \in Task : \/ status'[p] = status[p] /\ declared'[p] = declared[p]
                        \/ status'[p] \notin Finished /\ run[p] = "idle"
    BY <2>1, <2>2, <2>3, <1>status DEF Finished
  <2> QED BY <2>1, <2>4, <2>5, <2>6, <1>0
<1>6. ASSUME NEW t \in Task,
             UNCHANGED <<before, father, declared, insVars>>,
             \A x \in Task \ {t} : /\ run'[x] = run[x] /\ walk'[x] = walk[x]
                                   /\ current'[x] = current[x] /\ idep'[x] = idep[x],
             \A c \in Task : deps'[c] \in {deps[c], <<>>},
             \A p \in Task : \/ status'[p] = status[p]
                             \/ status'[p] \notin Finished /\ run[p] = "idle"
                             \/ status'[p] = "Done" /\ (declared[p] = <<>> \/ p = t)
                             \/ status'[p] = "Deallocatable" /\ run[t] = "free" /\ p = current[t]
      PROVE  /\ \A u, c \in Task : Touches(u, c)' => Touches(u, c)
             /\ \A x \in Task \ {t} : FinishOK(x)'
  <2>1. UNCHANGED <<ins, scan>>
    BY <1>6 DEF insVars
  <2>2. \A u, c \in Task : LinkedBehind(u, c)' => LinkedBehind(u, c)
    BY <1>6 DEF LinkedBehind
  <2>3. \A u, c \in Task : Touches(u, c)' => Touches(u, c)
    BY <1>6, <2>1, <2>2 DEF Touches, Inserting
  <2>4. ASSUME NEW x \in Task \ {t} PROVE FinishOK(x)'
    <3>1. \A p \in Task : Pushed(p) => Pushed(p)' /\ Reach(p)' = Reach(p)
      BY <1>6, <2>1 DEF Reach, Pushed
    <3>2. run[t] = "free" => /\ deps[current[t]] = <<>> /\ status[current[t]] \in Finished
                             /\ \A u \in Task : ~ Touches(u, current[t])
      BY <1>inv DEF FinishInv, FinishOK
    <3>3. \/ status'[x] # "Deallocatable" \/ status[x] = "Deallocatable"
          \/ deps'[x] = <<>> /\ \A u \in Task : ~ Touches(u, x)'
      BY <1>6, <2>3, <3>2 DEF Finished
    <3>4. \/ status'[x] \notin Finished \/ declared'[x] = <<>>
          \/ status[x] \in Finished /\ declared'[x] = declared[x]
      BY <1>6, <3>2
    <3>5. \A p \in Task : status'[p] \in Finished \/ status'[p] = status[p] \/ run[p] = "idle"
      BY <1>6 DEF Finished
    <3>6. \A c \in Task : deps'[c] = <<>> \/ deps[c] # <<>>
      BY <1>6
    <3> QED BY <1>6, <2>3, <3>1, <3>3, <3>4, <3>5, <3>6, FinishFrame
  <2> QED BY <2>3, <2>4

<1>7. ASSUME NEW t \in Task, Start(t) PROVE FinishInv'
  <2>1. /\ UNCHANGED <<before, father, declared, insVars, deps, walk, current, idep>>
        /\ run[t] = "idle" /\ status' = [status EXCEPT ![t] = "Running"]
        /\ run' = [run EXCEPT ![t] = "body"]
    BY <1>7 DEF Start, history
  <2>2. \A x \in Task \ {t} : FinishOK(x)'
    BY <2>1, <1>status, <1>run, <1>6 DEF Finished
  <2>3. FinishOK(t)'
    BY <2>1, <1>status, <1>run DEF FinishOK, Completing, Unfinished, Finished
  <2> QED BY <2>2, <2>3 DEF FinishInv
<1>8. ASSUME NEW t \in Task, EndBody(t) PROVE FinishInv'
  <2>1. /\ UNCHANGED <<before, father, declared, insVars, deps, walk, idep, status>>
        /\ run[t] = "body"
        /\ \/ run' = [run EXCEPT ![t] = "mark"] /\ current' = [current EXCEPT ![t] = t]
           \/ run' = [run EXCEPT ![t] = "out"] /\ UNCHANGED current
    BY <1>8 DEF EndBody, history
  <2>2. /\ \A u, c \in Task : Touches(u, c)' => Touches(u, c)
        /\ \A x \in Task \ {t} : FinishOK(x)'
    BY <2>1, <1>current, <1>run, <1>6
  <2>3. FinishOK(t) /\ status[t] = status'[t] /\ deps'[t] = deps[t] /\ declared'[t] = declared[t]
    BY <2>1, <1>inv DEF FinishInv
  <2>4. run'[t] = "out" \/ (run'[t] = "mark" /\ current'[t] = t)
    BY <2>1, <1>run, <1>current
  <2>5. FinishOK(t)'
    BY <2>1, <2>2, <2>3, <2>4 DEF FinishOK, Completing, Unfinished
  <2> QED BY <2>2, <2>5 DEF FinishInv
<1>9. ASSUME NEW t \in Task, MarkDone(t) PROVE FinishInv'
  <2> DEFINE c == current[t]
  <2>1. /\ UNCHANGED <<before, father, declared, insVars, deps, walk, current, idep>>
        /\ run[t] = "mark" /\ status' = [status EXCEPT ![c] = "Done"]
        /\ run' = [run EXCEPT ![t] = "load"]
    BY <1>9 DEF MarkDone, history
  <2>2. c \in Task /\ (declared[c] = <<>> \/ c = t)
    BY <2>1, <1>inv, FinisherFacts DEF Completing
  <2>3. /\ \A u, v \in Task : Touches(u, v)' => Touches(u, v)
        /\ \A x \in Task \ {t} : FinishOK(x)'
    BY <2>1, <2>2, <1>status, <1>run, <1>6
  <2>4. FinishOK(t) /\ deps'[t] = deps[t] /\ current'[t] = c /\ run'[t] = "load"
    BY <2>1, <1>inv, <1>run DEF FinishInv
  <2>5. status'[c] = "Done" /\ status'[t] \in {status[t], "Done"}
    BY <2>1, <2>2, <1>status
  <2>6. FinishOK(t)'
    BY <2>1, <2>3, <2>4, <2>5 DEF FinishOK, Completing, Unfinished, Finished
  <2> QED BY <2>3, <2>6 DEF FinishInv
<1>10. ASSUME NEW t \in Task, UNCHANGED <<before, father, declared, insVars, deps, status, current>>,
              \A x \in Task \ {t} : run'[x] = run[x] /\ walk'[x] = walk[x] /\ idep'[x] = idep[x],
              run[t] \in {"load", "walk"},
              \/ /\ run'[t] = "walk" /\ (walk'[t] # Nil => Pushed(walk'[t]))
                 /\ \A u \in Task : Touches(u, current[t]) => u \in Reach(walk'[t])
              \/ /\ run'[t] = "drain" /\ idep'[t] = 1
                 /\ \A u \in Task : ~ Touches(u, current[t])
       PROVE  FinishInv'
  <2>1. /\ \A u, v \in Task : Touches(u, v)' => Touches(u, v)
        /\ \A x \in Task \ {t} : FinishOK(x)'
    BY <1>10, <1>6
  <2>2. FinishOK(t) /\ current[t] \in Task
    BY <1>10, <1>inv, FinisherFacts DEF FinishInv, Completing
  <2>3. \A p : (Pushed(p) => Pushed(p)')
    BY <1>10 DEF Pushed, insVars
  <2>4. walk'[t] # Nil /\ run'[t] = "walk" => Pushed(walk[t])'
    BY <1>10 DEF Pushed, insVars
  <2>5. Reach(walk[t])' = Reach(walk'[t])
    BY <1>10 DEF Reach
  <2>6. current'[t] = current[t] /\ father'[t] = father[t] /\ deps'[t] = deps[t]
        /\ status' = status /\ declared'[t] = declared[t]
    BY <1>10
  <2>7. run'[t] = "walk" => \A u \in Task : Touches(u, current[t])' => u \in Reach(walk[t])'
    BY <1>10, <2>1, <2>2, <2>5, <2>6 DEF Touches
  <2>8. run'[t] = "drain" => \A u \in Task : ~ Touches(u, current[t])'
    BY <1>10, <2>1, <2>2, <2>6 DEF Touches
  <2>9. FinishOK(t)'
    BY <1>10, <2>1, <2>2, <2>4, <2>6, <2>7, <2>8 DEF FinishOK, Completing, Unfinished
  <2> QED BY <2>1, <2>9 DEF FinishInv
<1>11. ASSUME NEW t \in Task, LoadHint(t) PROVE FinishInv'
  <2>1. /\ UNCHANGED <<before, father, declared, insVars, deps, status, current, idep>>
        /\ run[t] = "load" /\ walk' = [walk EXCEPT ![t] = worklist]
        /\ run' = [run EXCEPT ![t] = "walk"]
    BY <1>11 DEF LoadHint, history, itemVars
  <2>2. current[t] \in Task
    BY <2>1, <1>inv, FinisherFacts DEF Completing
  <2>3. \A u \in Task : Touches(u, current[t]) => u \in Reach(worklist)
    BY <2>2, TouchFacts DEF InWorklist, Reach
  <2>4. worklist # Nil => Pushed(worklist)
    BY <1>inv DEF ListInv
  <2>5. walk'[t] = worklist /\ run'[t] = "walk"
    BY <2>1, <1>walk, <1>run
  <2>6. \A x \in Task \ {t} : run'[x] = run[x] /\ walk'[x] = walk[x] /\ idep'[x] = idep[x]
    BY <2>1, <1>walk, <1>run
  <2> QED BY <2>1, <2>3, <2>4, <2>5, <2>6, <1>10
<1>12. ASSUME NEW t \in Task, Walk(t) PROVE FinishInv'
  <2> DEFINE p == walk[t]
             c == current[t]
  <2>1. /\ UNCHANGED <<before, father, declared, insVars, deps, status, current>>
        /\ run[t] = "walk"
    BY <1>12 DEF Walk, history, itemVars
  <2>2. p \in Pointer
    BY <1>walk
  <2>3. \A x \in Task \ {t} : run'[x] = run[x] /\ walk'[x] = walk[x] /\ idep'[x] = idep[x]
    BY <1>12, <1>run, <1>walk, <1>idep DEF Walk
  <2>4. CASE p = Nil \/ p = t
    <3>1. run'[t] = "drain" /\ idep'[t] = 1
      BY <1>12, <2>4, <1>run, <1>idep DEF Walk
    <3>2. \A u \in Task : ~ Touches(u, c)
      BY <2>1, <2>4, WalkEnds
    <3> QED BY <2>1, <2>3, <3>1, <3>2, <1>10
  <2>5. CASE p # Nil /\ p # t /\ optFlags[p] = {}
    <3>1. run'[t] = "drain" /\ idep'[t] = 1 /\ status[p] # "Filling"
      BY <1>12, <2>5, <1>run, <1>idep DEF Walk
    <3>2. \A u \in Task : ~ Touches(u, c)
      BY <2>1, <2>2, <2>5, <3>1, WalkFacts DEF Pointer
    <3> QED BY <2>1, <2>3, <3>1, <3>2, <1>10
  <2>6. CASE p # Nil /\ p # t /\ optFlags[p] # {}
    <3>1. p \in Task
      BY <2>2, <2>6 DEF Pointer
    <3>2. "FatherScape" \notin optFlags[p]
      BY <3>1, <1>inv DEF FamilyInv
    <3>3. UNCHANGED run /\ walk'[t] = next[p] /\ status[p] # "Filling"
      BY <1>12, <2>6, <3>2, <1>walk DEF Walk
    <3>4. Pushed(p) /\ before[p] = Reach(next[p])
      BY <2>1, <2>6, <3>1, <1>inv DEF FinishInv, FinishOK, ListInv
    <3>5. next[p] # Nil => Pushed(next[p])
      BY <3>1, <3>4, <1>inv DEF Reach, ListInv
    <3>6. \A u \in Task : Touches(u, c) => u \in Reach(next[p])
      BY <2>1, <3>1, <3>3, <3>4, WalkFacts
    <3> QED BY <2>1, <2>3, <3>3, <3>5, <3>6, <1>10
  <2> QED BY <2>4, <2>5, <2>6
<1>13. ASSUME NEW t \in Task, Drain(t) PROVE FinishInv'
  <2> DEFINE w == deps[t][idep[t]]
  <2>1. /\ UNCHANGED <<before, father, declared, insVars, deps, run, walk, current>>
        /\ run[t] = "drain" /\ idep[t] <= Len(deps[current[t]])
        /\ idep' = [idep EXCEPT ![t] = @ + 1]
    BY <1>13 DEF Drain, history
  <2>2. w \in Task /\ current[t] = t /\ ~ Posted(w)
    BY <2>1, DrainFacts
  <2>3. status' \in {status, [status EXCEPT ![w] = "Ready"]}
    BY <1>13, <2>2 DEF Drain
  <2>4. run[w] = "idle"
    BY <2>2 DEF Posted
  <2> HIDE DEF w
  <2>5. \A p \in Task : \/ status'[p] = status[p]
                        \/ status'[p] \notin Finished /\ run[p] = "idle"
    BY <2>2, <2>3, <2>4, <1>status DEF Finished
  <2>6. /\ \A u, v \in Task : Touches(u, v)' => Touches(u, v)
        /\ \A x \in Task \ {t} : FinishOK(x)'
    BY <2>1, <2>5, <1>idep, <1>6
  <2>7. FinishOK(t) /\ status'[t] = status[t] /\ idep'[t] = idep[t] + 1 /\ idep[t] \in Nat
    BY <2>1, <2>5, <1>inv, <1>idep DEF FinishInv
  <2>8. FinishOK(t)'
    BY <2>1, <2>2, <2>6, <2>7 DEF FinishOK, Completing, Unfinished
  <2> QED BY <2>6, <2>8 DEF FinishInv
<1>14. ASSUME NEW t \in Task, FreeDeps(t) PROVE FinishInv'
  <2> DEFINE c == current[t]
  <2>1. /\ UNCHANGED <<before, father, declared, insVars, status, walk, current, idep>>
        /\ run[t] = "drain" /\ deps' = [deps EXCEPT ![c] = <<>>]
        /\ run' = [run EXCEPT ![t] = "free"]
    BY <1>14 DEF FreeDeps, history
  <2>2. c \in Task
    BY <2>1, <1>inv, FinisherFacts DEF Completing
  <2>3. /\ \A u, v \in Task : Touches(u, v)' => Touches(u, v)
        /\ \A x \in Task \ {t} : FinishOK(x)'
    BY <2>1, <1>run, <1>deps, <1>6
  <2>4. FinishOK(t) /\ run'[t] = "free" /\ deps'[c] = <<>> /\ deps'[t] \in {deps[t], <<>>}
    BY <2>1, <2>2, <1>inv, <1>run, <1>deps DEF FinishInv
  <2>5. FinishOK(t)'
    BY <2>1, <2>2, <2>3, <2>4 DEF FinishOK, Completing, Unfinished
  <2> QED BY <2>3, <2>5 DEF FinishInv
<1>15. ASSUME NEW t \in Task, Release(t) PROVE FinishInv'
  <2> DEFINE c == current[t]
  <2>1. /\ UNCHANGED <<before, father, declared, insVars, deps, walk, current, idep>>
        /\ run[t] = "free" /\ status' = [status EXCEPT ![c] = "Deallocatable"]
        /\ run' = [run EXCEPT ![t] = "climb"]
    BY <1>15 DEF Release, history
  <2>2. c \in Task
    BY <2>1, <1>inv, FinisherFacts DEF Completing
  <2>3. /\ \A u, v \in Task : Touches(u, v)' => Touches(u, v)
        /\ \A x \in Task \ {t} : FinishOK(x)'
    BY <2>1, <2>2, <1>status, <1>run, <1>6
  <2>4. FinishOK(t) /\ run'[t] = "climb" /\ (status'[t] = status[t] \/ c = t)
    BY <2>1, <2>2, <1>inv, <1>run, <1>status DEF FinishInv
  <2>5. FinishOK(t)'
    BY <2>1, <2>2, <2>3, <2>4 DEF FinishOK, Completing, Unfinished
  <2> QED BY <2>3, <2>5 DEF FinishInv
<1>16. ASSUME NEW t \in Task, Climb(t) PROVE FinishInv'
  <2> DEFINE f == father[current[t]]
  <2>1. /\ UNCHANGED <<before, father, declared, insVars, deps, walk, status, idep>>
        /\ run[t] = "climb"
    BY <1>16 DEF Climb, history
  <2>2. \/ run' = [run EXCEPT ![t] = "out"] /\ UNCHANGED current
        \/ f # Nil /\ run' = [run EXCEPT ![t] = "mark"] /\ current' = [current EXCEPT ![t] = f]
    BY <1>16 DEF Climb
  <2>3. current[t] \in {t, father[t]} /\ current[t] # Nil
    BY <2>1, <1>inv DEF FinishInv, FinishOK, Completing, TypeInv, PointersOK
  <2>4. f # Nil => f = father[t] /\ f # t
    BY <2>3, <1>inv, FatherFacts
  <2>5. /\ \A u, v \in Task : Touches(u, v)' => Touches(u, v)
        /\ \A x \in Task \ {t} : FinishOK(x)'
    BY <2>1, <2>2, <1>run, <1>current, <1>6
  <2>6. FinishOK(t) /\ (run'[t] = "out" \/ (run'[t] = "mark" /\ current'[t] = father[t] /\ father[t] # t))
    BY <2>2, <2>4, <1>inv, <1>run, <1>current DEF FinishInv
  <2>7. FinishOK(t)'
    BY <2>1, <2>5, <2>6 DEF FinishOK, Completing, Unfinished
  <2> QED BY <2>5, <2>7 DEF FinishInv
<1>17. CASE WaitForAll \/ UNCHANGED vars
  <2>1. UNCHANGED <<runVars, before, father, deps, status, declared, ins, scan>>
    BY <1>17 DEF WaitForAll, vars, itemVars, insVars, history
  <2>2. /\ \A u, c \in Task : Touches(u, c)' => Touches(u, c)
        /\ \A u \in Task : Pushed(u) => Pushed(u)'
    BY <2>1 DEF Touches, LinkedBehind, Inserting, Pushed
  <2> QED BY <2>1, <2>2, <1>0
<1> QED
  BY <1>1, <1>2, <1>3, <1>4, <1>5, <1>7, <1>8, <1>9, <1>11, <1>12, <1>13, <1>14, <1>15, <1>16, <1>17
  DEF Next, Insert, Scan, Execute

(***************************************************************************)
(* The items that a task waits for are finitely many.                      *)
(***************************************************************************)
LEMMA BlockersFinite ==
  ASSUME NEW t \in Task
  PROVE  /\ IsFiniteSet(Blockers(t)) /\ Cardinality(Blockers(t)) \in Nat
         /\ Cardinality(Blockers(t)) = 0 <=> Blockers(t) = {}
<1>1. Blockers(t) \subseteq Task
  BY DEF Blockers
<1>2. IsFiniteSet(Blockers(t))
  BY <1>1, TaskAssumption, FS_Subset
<1> QED BY <1>2, FS_EmptySet, FS_CardinalityType

(***************************************************************************)
(* t compares with an item that it is not linked behind yet, and that      *)
(* nobody releases.                                                        *)
(***************************************************************************)
LinkOK(t) ==
  scan[t] \in Task /\ ~ LinkedBehind(t, scan[t]) /\ \A i : ~ Released(scan[t], i)

(***************************************************************************)
(* t alone releases its own item, and who comes next in deps is there once *)
(* and has not been posted.                                                *)
(***************************************************************************)
ReleaseOK(t) ==
  LET w == deps[t][idep[t]]
  IN  /\ current[t] = t
      /\ idep[t] \in DOMAIN deps[t] /\ w \in Task
      /\ t \in Blockers(w) /\ ~ Posted(w)
      /\ \A x \in Task : run[x] = "drain" /\ current[x] = t => x = t
      /\ \A i \in DOMAIN deps[t] : deps[t][i] = w => i = idep[t]

Hits(t) == FirstConflict(args[scan[t]], argv[t]) # NoConflict

LEMMA LinkFacts == ASSUME IInv, NEW t \in Task, Examine(t), Hits(t) PROVE LinkOK(t)
<1>1. ins[t] = "examine"
  BY DEF Examine
<1>2. scan[t] \in Task /\ scan[t] \notin Visited(t)
  BY <1>1, ScanFacts DEF IInv, TypeInv, PointersOK
<1>3. Touches(t, scan[t])
  BY <1>1, HitFacts DEF IInv, Touches, Inserting, Hits
<1>4. \A i : ~ Released(scan[t], i)
  <2> SUFFICES ASSUME NEW x \in Task, run[x] = "drain", current[x] = scan[t] PROVE FALSE
    BY DEF Released
  <2> QED BY <1>3 DEF IInv, FinishInv, FinishOK
<1>5. ~ LinkedBehind(t, scan[t])
  BY <1>1, <1>2 DEF IInv, LinkInv
<1> QED BY <1>2, <1>4, <1>5 DEF LinkOK

LEMMA ReleaseFacts == ASSUME TwoLevel, IInv, NEW t \in Task, Drain(t) PROVE ReleaseOK(t)
<1>1. run[t] = "drain" /\ idep[t] <= Len(deps[current[t]])
  BY DEF Drain
<1>2. \A i, j \in DOMAIN deps[t] : deps[t][i] = deps[t][j] => i = j
  BY DEF IInv, LinkInv
<1> QED BY <1>1, <1>2, DrainFacts DEF ReleaseOK

(***************************************************************************)
(* The comparison with p that finds a conflict adds p to what t waits for. *)
(***************************************************************************)
LEMMA ExamineBlocks ==
  ASSUME TypeInv, NEW t \in Task, Examine(t), Hits(t), LinkOK(t)
  PROVE  /\ Blockers(t)' = Blockers(t) \cup {scan[t]}
         /\ scan[t] \notin Blockers(t)
         /\ \A v \in Task \ {t} : Blockers(v)' = Blockers(v)
<1> DEFINE p == scan[t]
           n == Len(deps[p])
<1>1. deps' = [deps EXCEPT ![p] = Append(@, t)] /\ UNCHANGED runVars
  BY DEF Examine, Hits
<1>2. p \in Task /\ deps \in [Task -> Seq(Task)]
  BY DEF TypeInv, TypeOK, ItemTypeOK, LinkOK
<1>5. \A i : ~ Released(p, i)
  BY DEF LinkOK
<1>6. \A q, i : Released(q, i)' <=> Released(q, i)
  BY <1>1 DEF Released, runVars
<1>7. /\ \A q \in Task \ {p} : deps'[q] = deps[q]
      /\ n \in Nat /\ DOMAIN deps'[p] = DOMAIN deps[p] \cup {n + 1}
      /\ deps'[p][n + 1] = t
      /\ \A i \in DOMAIN deps[p] : deps'[p][i] = deps[p][i]
  <2>1. deps[p] \in Seq(Task) /\ deps'[p] = Append(deps[p], t)
    BY <1>1, <1>2
  <2> QED BY <1>1, <1>2, <2>1
<1>9. p \notin Blockers(t)
  BY DEF Blockers, LinkedBehind, LinkOK
<1>10. ASSUME NEW v \in Task, NEW q \in Task \ {p}
       PROVE  q \in Blockers(v)' <=> q \in Blockers(v)
  BY <1>6, <1>7 DEF Blockers
<1>11. p \in Blockers(t)'
  BY <1>2, <1>5, <1>6, <1>7 DEF Blockers
<1>12. ASSUME NEW v \in Task, v # t PROVE p \in Blockers(v)' <=> p \in Blockers(v)
  BY <1>6, <1>7, <1>12 DEF Blockers
<1>13. \A v \in Task : Blockers(v) \subseteq Task /\ Blockers(v)' \subseteq Task
  BY DEF Blockers
<1> HIDE DEF p
<1>14. Blockers(t)' = Blockers(t) \cup {p}
  BY <1>2, <1>10, <1>11, <1>13
<1>15. \A v \in Task \ {t} : Blockers(v)' = Blockers(v)
  BY <1>10, <1>12, <1>13
<1> QED BY <1>9, <1>14, <1>15 DEF p

(***************************************************************************)
(* The release of w takes t out of what w waits for.                       *)
(***************************************************************************)
LEMMA DrainUnblocks ==
  ASSUME TypeInv, NEW t \in Task, Drain(t), ReleaseOK(t), NEW w \in Task, w = deps[t][idep[t]]
  PROVE  /\ Blockers(w)' = Blockers(w) \ {t}
         /\ \A v \in Task \ {w} : Blockers(v)' = Blockers(v)
<1> DEFINE k == idep[t]
<1>1. /\ UNCHANGED <<deps, run, current>> /\ run[t] = "drain" /\ k <= Len(deps[current[t]])
      /\ idep' = [idep EXCEPT ![t] = @ + 1]
  BY DEF Drain
<1>2. /\ current[t] = t /\ k \in DOMAIN deps[t]
      /\ \A x \in Task : run[x] = "drain" /\ current[x] = t => x = t
  BY DEF ReleaseOK
<1>3. idep \in [Task -> Nat] /\ deps[t] \in Seq(Task)
  BY DEF TypeInv, TypeOK, ItemTypeOK, ThreadTypeOK
<1>4. k \in Nat /\ idep'[t] = k + 1 /\ \A x \in Task \ {t} : idep'[x] = idep[x]
  BY <1>1, <1>3
<1>5. \A q \in Task \ {t} : \A i : Released(q, i)' <=> Released(q, i)
  BY <1>1, <1>2, <1>4 DEF Released
<1>6. \A i : Released(t, i) <=> i < k
  BY <1>1, <1>2 DEF Released
<1>7. \A i : Released(t, i)' <=> i < k + 1
  BY <1>1, <1>2, <1>4 DEF Released
<1>8. \A i \in DOMAIN deps[t] : i \in Nat /\ (deps[t][i] = w => i = k)
  BY <1>3 DEF ReleaseOK
<1>9. ASSUME NEW v \in Task, NEW q \in Task \ {t}
      PROVE  q \in Blockers(v)' <=> q \in Blockers(v)
  BY <1>1, <1>5 DEF Blockers
<1>10. t \notin Blockers(w)'
  <2> SUFFICES ASSUME NEW i \in DOMAIN deps[t], deps[t][i] = w PROVE Released(t, i)'
    BY <1>1 DEF Blockers
  <2> QED BY <1>4, <1>7, <1>8
<1>11. ASSUME NEW v \in Task, v # w PROVE t \in Blockers(v)' <=> t \in Blockers(v)
  <2>1. \A i \in DOMAIN deps[t] : deps[t][i] = v => (Released(t, i)' <=> Released(t, i))
    <3> SUFFICES ASSUME NEW i \in DOMAIN deps[t], deps[t][i] = v
                 PROVE  Released(t, i)' <=> Released(t, i)
      OBVIOUS
    <3>1. i # k /\ i \in Nat
      BY <1>8, <1>11
    <3>2. i < k <=> i < k + 1
      BY <3>1, <1>4
    <3> QED BY <3>2, <1>6, <1>7
  <2> QED BY <2>1, <1>1 DEF Blockers
<1>12. \A v \in Task : Blockers(v) \subseteq Task /\ Blockers(v)' \subseteq Task
  BY DEF Blockers
<1>13. Blockers(w)' = Blockers(w) \ {t}
  BY <1>2, <1>9, <1>10, <1>12
<1>14. \A v \in Task \ {w} : Blockers(v)' = Blockers(v)
  BY <1>9, <1>11, <1>12
<1> QED BY <1>13, <1>14

(***************************************************************************)
(* A step that links, releases and posts nothing keeps the counters.       *)
(***************************************************************************)
LEMMA CountSame ==
  ASSUME CountInv, UNCHANGED <<ndependencies, deps, queue, run, current, idep>>
  PROVE  CountInv'
<1>1. \A p, i : Released(p, i)' <=> Released(p, i)
  BY DEF Released
<1>2. \A v \in Task : Blockers(v)' = Blockers(v)
  BY <1>1 DEF Blockers
<1>3. \A v \in Task : Posted(v)' <=> Posted(v)
  BY DEF Posted
<1> QED BY <1>2, <1>3 DEF CountInv, CountExact

(***************************************************************************)
(* So do those that do, if they may.                                       *)
(***************************************************************************)
LEMMA CountMove ==
  ASSUME TypeInv, CountInv, \A v \in Task : Posted(v) => ins[v] = "inserted",
         NEW t \in Task, Insert(t) \/ Execute(t),
         Examine(t) /\ Hits(t) => LinkOK(t), Drain(t) => ReleaseOK(t)
  PROVE  CountInv'
<1>status. status \in [Task -> Status]
  BY DEF TypeInv, TypeOK, ItemTypeOK, ThreadTypeOK
<1>ins. ins \in [Task -> InsPlace]
  BY DEF TypeInv, TypeOK, ItemTypeOK, ThreadTypeOK
<1>run. run \in [Task -> RunPlace]
  BY DEF TypeInv, TypeOK, ItemTypeOK, ThreadTypeOK
<1>deps. deps \in [Task -> Seq(Task)]
  BY DEF TypeInv, TypeOK, ItemTypeOK, ThreadTypeOK
<1>current. current \in [Task -> Pointer]
  BY DEF TypeInv, TypeOK, ItemTypeOK, ThreadTypeOK
<1>idep. idep \in [Task -> Nat]
  BY DEF TypeInv, TypeOK, ItemTypeOK, ThreadTypeOK
<1>ndependencies. ndependencies \in [Task -> Int]
  BY DEF TypeInv, TypeOK, ItemTypeOK, ThreadTypeOK
<1>queue. queue \in [Task -> Nat]
  BY DEF TypeInv, TypeOK, ItemTypeOK, ThreadTypeOK
<1>same. ASSUME UNCHANGED ndependencies,
                \A v \in Task : Blockers(v)' = Blockers(v),
                \A v \in Task : Posted(v)' => Posted(v)
         PROVE  CountInv'
  BY <1>same DEF CountInv, CountExact
<1>0. ASSUME UNCHANGED <<ndependencies, deps>>,
             \A p \in Task : \A i \in DOMAIN deps[p] : Released(p, i)' <=> Released(p, i),
             \A v \in Task : Posted(v)' => Posted(v)
      PROVE  CountInv'
  <2>1. \A v \in Task : Blockers(v)' = Blockers(v)
    BY <1>0 DEF Blockers
  <2> QED BY <2>1, <1>0, <1>same
<1>1. ASSUME UNCHANGED <<ndependencies, deps, queue, runVars>> PROVE CountInv'
  BY <1>1, CountSame DEF runVars
<1>3. ASSUME Push(t) \/ SkipAncestor(t) \/ Look(t) \/ Flag(t) \/ SetWaiting(t)
      PROVE  CountInv'
  BY <1>1, <1>3 DEF Push, SkipAncestor, Look, Flag, SetWaiting, itemVars
<1>4. ASSUME Examine(t) PROVE CountInv'
  <2> DEFINE p == scan[t]
  <2>1. UNCHANGED <<queue, runVars>> /\ ins[t] = "examine"
    BY <1>4 DEF Examine
  <2>2. CASE UNCHANGED <<ndependencies, deps>>
    BY <2>1, <2>2, <1>1
  <2>3. CASE /\ Hits(t)
             /\ ndependencies' = [ndependencies EXCEPT ![t] = @ + 1]
    <3>1. /\ Blockers(t)' = Blockers(t) \cup {p} /\ p \notin Blockers(t)
          /\ \A v \in Task \ {t} : Blockers(v)' = Blockers(v)
      BY <1>4, <2>3, ExamineBlocks
    <3>2. Cardinality(Blockers(t) \cup {p}) = Cardinality(Blockers(t)) + 1
      BY <3>1, BlockersFinite, FS_AddElement
    <3>3. CountExact'
      BY <2>3, <3>1, <3>2, <1>ndependencies DEF CountInv, CountExact
    <3>4. \A v \in Task : Posted(v)' => Posted(v) /\ v # t
      BY <2>1 DEF Posted, runVars
    <3>5. \A v \in Task : Posted(v)' => Blockers(v)' = {}
      BY <3>1, <3>4 DEF CountInv
    <3> QED BY <3>3, <3>5 DEF CountInv
  <2> QED BY <1>4, <2>2, <2>3 DEF Examine, Hits
<1>5. ASSUME Settle(t) PROVE CountInv'
  <2>1. UNCHANGED <<ndependencies, deps, runVars>>
    BY <1>5 DEF Settle
  <2>2. CASE UNCHANGED queue
    BY <2>1, <2>2, <1>1
  <2>3. CASE ndependencies[t] = 0 /\ queue' = [queue EXCEPT ![t] = @ + 1]
    <3>1. \A p, i : Released(p, i)' <=> Released(p, i)
      BY <2>1 DEF Released, runVars
    <3>2. \A v \in Task : Blockers(v)' = Blockers(v)
      BY <2>1, <3>1 DEF Blockers
    <3>3. Blockers(t) = {}
      BY <2>3, BlockersFinite DEF CountInv, CountExact
    <3>4. \A v \in Task : Posted(v)' => Posted(v) \/ v = t
      BY <2>1, <2>3, <1>queue DEF Posted, runVars
    <3>5. CountExact'
      BY <2>1, <3>2 DEF CountInv, CountExact
    <3> QED BY <3>2, <3>3, <3>4, <3>5 DEF CountInv
  <2> QED BY <1>5, <2>2, <2>3 DEF Settle
<1>6. ASSUME UNCHANGED <<ndependencies, deps, queue, current, idep>>,
             run[t] \notin {"idle", "drain"}, NEW r \in RunPlace \ {"drain"},
             run' \in {run, [run EXCEPT ![t] = r]}
      PROVE  CountInv'
  <2>1. \A x \in Task : run'[x] = "drain" <=> run[x] = "drain"
    BY <1>6, <1>run
  <2>2. \A p, i : Released(p, i)' <=> Released(p, i)
    BY <2>1, <1>6 DEF Released
  <2>3. \A v \in Task : Posted(v)' => Posted(v)
    BY <1>6, <1>run DEF Posted
  <2> QED BY <2>2, <2>3, <1>6, <1>0
<1>7. ASSUME Start(t) PROVE CountInv'
  <2>1. /\ UNCHANGED <<ndependencies, deps, current, idep>> /\ queue[t] > 0 /\ run[t] = "idle"
        /\ queue' = [queue EXCEPT ![t] = @ - 1] /\ run' = [run EXCEPT ![t] = "body"]
    BY <1>7 DEF Start
  <2>2. \A x \in Task : run'[x] = "drain" <=> run[x] = "drain"
    BY <2>1, <1>run
  <2>3. \A p, i : Released(p, i)' <=> Released(p, i)
    BY <2>1, <2>2 DEF Released
  <2>4. \A v \in Task : Posted(v)' => Posted(v)
    BY <2>1, <1>run, <1>queue DEF Posted
  <2> QED BY <2>1, <2>3, <2>4, <1>0
<1>8. ASSUME EndBody(t) \/ Climb(t) PROVE CountInv'
  <2>1. /\ UNCHANGED <<ndependencies, deps, queue, idep>> /\ run[t] \in {"body", "climb"}
        /\ run' \in {[run EXCEPT ![t] = "mark"], [run EXCEPT ![t] = "out"]}
        /\ \A x \in Task \ {t} : current'[x] = current[x]
    BY <1>8, <1>current DEF EndBody, Climb
  <2>2. \A x \in Task : /\ run'[x] = "drain" <=> run[x] = "drain"
                        /\ run'[x] = "drain" => current'[x] = current[x]
    BY <2>1, <1>run
  <2>3. \A p, i : Released(p, i)' <=> Released(p, i)
    BY <2>1, <2>2 DEF Released
  <2>4. \A v \in Task : Posted(v)' => Posted(v)
    BY <2>1, <1>run DEF Posted
  <2> QED BY <2>1, <2>3, <2>4, <1>0
<1>9. ASSUME MarkDone(t) \/ LoadHint(t) \/ Release(t) PROVE CountInv'
  <2>1. /\ UNCHANGED <<ndependencies, deps, queue, current, idep>>
        /\ run[t] \in {"mark", "load", "free"}
        /\ \/ run' = [run EXCEPT ![t] = "load"]
           \/ run' = [run EXCEPT ![t] = "walk"]
           \/ run' = [run EXCEPT ![t] = "climb"]
    BY <1>9 DEF MarkDone, LoadHint, Release, itemVars
  <2> QED BY <2>1, <1>6 DEF RunPlace
<1>10. ASSUME Walk(t) PROVE CountInv'
  <2>1. UNCHANGED <<ndependencies, deps, queue, current>> /\ run[t] = "walk"
    BY <1>10 DEF Walk, itemVars
  <2>2. CASE UNCHANGED <<run, idep>>
    BY <2>1, <2>2, <1>6 DEF RunPlace
  <2>3. CASE run' = [run EXCEPT ![t] = "drain"] /\ idep' = [idep EXCEPT ![t] = 1]
    <3>1. ASSUME NEW p \in Task, NEW i \in DOMAIN deps[p]
          PROVE  Released(p, i)' <=> Released(p, i)
      <4>1. i \in Nat /\ ~ (i < 1)
        BY <1>deps
      <4>2. run'[t] = "drain" /\ idep'[t] = 1
        BY <2>3, <1>run, <1>idep
      <4>3. \A x \in Task \ {t} : run'[x] = run[x] /\ idep'[x] = idep[x]
        BY <2>3, <1>run, <1>idep
      <4> QED BY <2>1, <4>1, <4>2, <4>3 DEF Released
    <3>2. \A v \in Task : Posted(v)' => Posted(v)
      BY <2>1, <2>3, <1>run DEF Posted
    <3> QED BY <2>1, <3>1, <3>2, <1>0
  <2> QED BY <1>10, <2>2, <2>3 DEF Walk
<1>11. ASSUME Drain(t) PROVE CountInv'
  <2>1. UNCHANGED run /\ run[t] = "drain" /\ idep[t] <= Len(deps[current[t]])
    BY <1>11 DEF Drain
  <2>2. PICK w \in Task : /\ w = deps[t][idep[t]] /\ current[t] = t
                          /\ t \in Blockers(w) /\ ~ Posted(w)
    BY <1>11 DEF ReleaseOK
  <2>3. /\ Blockers(w)' = Blockers(w) \ {t}
        /\ \A v \in Task \ {w} : Blockers(v)' = Blockers(v)
    BY <1>11, <2>2, DrainUnblocks
  <2>4. /\ ndependencies' = [ndependencies EXCEPT ![w] = @ - 1]
        /\ IF ndependencies[w] = 1 THEN queue' = [queue EXCEPT ![w] = @ + 1] ELSE UNCHANGED queue
    BY <1>11, <2>2 DEF Drain
  <2>5. Cardinality(Blockers(w) \ {t}) = Cardinality(Blockers(w)) - 1
    BY <2>2, BlockersFinite, FS_RemoveElement
  <2>6. ndependencies[w] = Cardinality(Blockers(w))
    BY <2>2 DEF CountInv, CountExact
  <2>7. CountExact'
    BY <2>2, <2>3, <2>4, <2>5, <1>ndependencies DEF CountInv, CountExact
  <2>8. ndependencies[w] = 1 => Blockers(w)' = {}
    <3>1. IsFiniteSet(Blockers(w) \ {t})
      BY <2>2, BlockersFinite, FS_RemoveElement
    <3> QED BY <2>3, <2>5, <2>6, <3>1, FS_EmptySet
  <2>9. \A v \in Task : Posted(v)' => (Posted(v) /\ v # w) \/ (v = w /\ ndependencies[w] = 1)
    BY <2>1, <2>2, <2>4, <1>queue DEF Posted
  <2>10. \A v \in Task : Posted(v)' => Blockers(v)' = {}
    BY <2>3, <2>8, <2>9 DEF CountInv
  <2> QED BY <2>7, <2>10 DEF CountInv
<1>12. ASSUME FreeDeps(t) PROVE CountInv'
  <2> DEFINE c == current[t]
  <2>1. /\ UNCHANGED <<ndependencies, queue, current, idep>>
        /\ run[t] = "drain" /\ idep[t] > Len(deps[c])
        /\ deps' = [deps EXCEPT ![c] = <<>>] /\ run' = [run EXCEPT ![t] = "free"]
    BY <1>12 DEF FreeDeps
  <2>2. c \in Task
    BY <2>1, <1>current DEF TypeInv, PointersOK, Completing, Pointer
  <2>3. \A i \in DOMAIN deps[c] : Released(c, i)
    BY <2>1, <2>2, <1>deps, <1>idep DEF Released
  <2>4. deps'[c] = <<>> /\ \A p \in Task \ {c} : deps'[p] = deps[p]
    BY <2>1, <2>2, <1>deps
  <2>5. ASSUME NEW p \in Task \ {c} PROVE \A i : Released(p, i)' <=> Released(p, i)
    BY <2>1, <1>run DEF Released
  <2>6. ASSUME NEW v \in Task PROVE Blockers(v)' = Blockers(v)
    <3>1. c \notin Blockers(v) /\ c \notin Blockers(v)'
      BY <2>3, <2>4 DEF Blockers
    <3>2. \A p \in Task \ {c} : p \in Blockers(v)' <=> p \in Blockers(v)
      BY <2>4, <2>5 DEF Blockers
    <3>3. Blockers(v) \subseteq Task /\ Blockers(v)' \subseteq Task
      BY DEF Blockers
    <3> QED BY <3>1, <3>2, <3>3
  <2>7. \A v \in Task : Posted(v)' => Posted(v)
    BY <2>1, <1>run DEF Posted
  <2> QED BY <2>1, <2>6, <2>7, <1>same
<1> QED
  BY <1>3, <1>4, <1>5, <1>7, <1>8, <1>9, <1>10, <1>11, <1>12 DEF Insert, Scan, Execute

LEMMA CountStep == ASSUME TwoLevel, IInv, [Next]_vars PROVE CountInv'
<1>1. CASE \E f \in Pointer, t \in Task : \E a \in Uses[t] : Spawn(f, t, a)
  BY <1>1, CountSame DEF Spawn, runVars, IInv
<1>2. ASSUME NEW t \in Task, Insert(t) \/ Execute(t) PROVE CountInv'
  BY <1>2, CountMove, LinkFacts, ReleaseFacts DEF IInv, PlaceInv
<1>3. CASE WaitForAll \/ UNCHANGED vars
  BY <1>3, CountSame DEF WaitForAll, vars, itemVars, runVars, IInv
<1> QED BY <1>1, <1>2, <1>3 DEF Next

-----------------------------------------------------------------------------
(***************************************************************************)
(* The whole invariant is preserved, and holds in every reachable state.   *)
(***************************************************************************)
LEMMA SafetyStep == ASSUME TwoLevel PROVE IInv /\ [Next]_vars => IInv'
<1> SUFFICES ASSUME IInv, [Next]_vars PROVE IInv'
  OBVIOUS
<1>1. TypeInv'
  BY TypeStep DEF IInv
<1> QED
  BY <1>1, PlaceStep, FamilyStep, ListStep, LinkStep, VouchStep, FinishStep, CountStep DEF IInv

THEOREM SafetyInvariant == ASSUME TwoLevel PROVE Spec => []IInv
BY SafetyInit, SafetyStep, PTL DEF Spec

(***************************************************************************)
(* A task being inserted never reads an argument list that its owner has   *)
(* freed: finish_execution frees it only when nothing touches the item.    *)
(***************************************************************************)
THEOREM ArgsStayAlive == ASSUME TwoLevel PROVE Spec => []ArgsAlive
<1>1. IInv => ArgsAlive
  <2> SUFFICES ASSUME IInv, NEW t \in Task, ins[t] = "examine"
               PROVE  args[scan[t]] = declared[scan[t]]
    BY DEF ArgsAlive
  <2>1. scan[t] \in Task
    BY ScanFacts DEF IInv, TypeInv, PointersOK
  <2>2. CASE declared[scan[t]] = <<>>
    BY <2>1, <2>2 DEF IInv, FamilyInv
  <2>3. CASE declared[scan[t]] # <<>>
    <3>1. Touches(t, scan[t])
      BY <2>3 DEF Touches, Inserting
    <3>2. status[scan[t]] # "Deallocatable"
      BY <2>1, <3>1 DEF IInv, FinishInv, FinishOK
    <3> QED BY <2>1, <3>2 DEF IInv, FamilyInv
  <2> QED BY <2>2, <2>3
<1> QED BY <1>1, SafetyInvariant, PTL

(***************************************************************************)
(* No dependency is linked behind an item that will not release it: the    *)
(* assertions of insert_in_worklist and finish_execution hold.             *)
(***************************************************************************)
THEOREM NoDependencyLost == ASSUME TwoLevel PROVE Spec => []NothingLost
<1>1. IInv => NothingLost
  BY DEF IInv, FinishInv, FinishOK, NothingLost
<1> QED BY <1>1, SafetyInvariant, PTL

(***************************************************************************)
(* Every task is handed to the pool at most once, by its inserting thread  *)
(* or by the one that releases its last dependency, never by both.         *)
(***************************************************************************)
THEOREM PostedAtMostOnce == ASSUME TwoLevel PROVE Spec => []PostedOnce
<1>1. IInv => PostedOnce
  <2> SUFFICES ASSUME IInv, NEW t \in Task
               PROVE  queue[t] + (IF run[t] = "idle" THEN 0 ELSE 1) <= 1
    BY DEF PostedOnce
  <2>1. queue[t] \in Nat
    BY DEF IInv, TypeInv, TypeOK, ItemTypeOK
  <2>2. queue[t] <= 1 /\ (run[t] # "idle" => queue[t] = 0)
    BY DEF IInv, PlaceInv
  <2> QED BY <2>1, <2>2
<1> QED BY <1>1, SafetyInvariant, PTL

(***************************************************************************)
(* ndependencies is exactly the number of items that a task still waits    *)
(* for, while several threads count it up and down.                        *)
(***************************************************************************)
THEOREM CountersExact == ASSUME TwoLevel PROVE Spec => []CountExact
<1>1. IInv => CountExact
  BY DEF IInv, CountInv
<1> QED BY <1>1, SafetyInvariant, PTL

-----------------------------------------------------------------------------
(***************************************************************************)
(* The order of execution: the status of an item only advances,            *)
(* wait_for_all waits for everything, and, where the arguments of the      *)
(* tasks are Separate, the worklist implements TaskGraph, the order that   *)
(* the documentation promises, and so is free of races.                    *)
(*                                                                         *)
(* To IInv this adds CInv, who completes which item and when, and OInv,    *)
(* for whom a task waits when it is not linked behind an item that it      *)
(* conflicts with.                                                         *)
(***************************************************************************)
Born(t) == ins[t] # "unborn"

(***************************************************************************)
(* Statuses, fathers and the queue agree with the places of the threads: a *)
(* father runs while a subtask is inserted, and a task that has not begun  *)
(* to run is enqueued or waits for others.                                 *)
(***************************************************************************)
LifeInv ==
  \A t \in Task :
     /\ status[t] = "Unallocated" <=> ~ Born(t)
     /\ ~ Born(t) => father[t] = Nil
     /\ Born(t) => declared[t] \in Uses[t]
     /\ Inserting(t) /\ father[t] # Nil => run[father[t]] = "body"
     /\ ins[t] = "wait" => ndependencies[t] # 0
     /\ ins[t] = "inserted" /\ run[t] = "idle" => queue[t] = 1 \/ ndependencies[t] # 0

(***************************************************************************)
(* The subtasks of c that have not told it that they are complete: with    *)
(* its own function, this is what nchildren counts.                        *)
(***************************************************************************)
Climbed(t) == run[t] = "out" \/ (Completing(t) /\ current[t] # t)

Owed(c) == { t \in Task : father[t] = c /\ ~ Climbed(t) }

Own(c) == IF run[c] \in {"idle", "body"} THEN 1 ELSE 0

ChildInv ==
  \A c \in Task :
     /\ Born(c) => nchildren[c] = Own(c) + Cardinality(Owed(c))
     /\ father[c] # Nil /\ Climbed(c) => status[c] = "Deallocatable"
     /\ run[c] = "climb" => status[current[c]] = "Deallocatable"

(***************************************************************************)
(* An item is completed once, by whoever brings nchildren to zero; while   *)
(* it is Done, and not Deallocatable yet, that thread is at work on it.     *)
(***************************************************************************)
Finishes(x, c) == Completing(x) /\ current[x] = c

CompleteInv ==
  \A c \in Task :
     /\ nchildren[c] # 0 => status[c] \notin Finished /\ \A x \in Task : ~ Finishes(x, c)
     /\ \A x, y \in Task : Finishes(x, c) /\ Finishes(y, c) => x = y
     /\ \A x \in Task : run[x] = "mark" /\ current[x] = c => status[c] \notin Finished
     /\ Born(c) /\ nchildren[c] = 0 =>
           status[c] \in Finished \/ \E x \in Task : run[x] = "mark" /\ current[x] = c
     /\ status[c] = "Done" => \E x \in Task : Finishes(x, c)

(***************************************************************************)
(* q does not conflict with t, or t cannot start before q has finished: t  *)
(* is linked behind q, or behind an item that was behind q itself.         *)
(***************************************************************************)
Follows(p, q) == q \in before[p] /\ Conflicting(declared[q], declared[p])

Held(t, q) ==
  \/ status[q] \in Finished
  \/ q \in Blockers(t)
  \/ \E p \in Blockers(t) : Follows(p, q)

Ahead(t) == Reach(scan[t]) \ (IF ins[t] = "flag" THEN {scan[t]} ELSE {})

OrderInv ==
  \A t, q \in Task :
     Pushed(t) /\ Follows(t, q) =>
        Held(t, q) \/ (q \in Ahead(t) /\ Conflicting(declared[q], argv[t]))

(***************************************************************************)
(* The arguments that any two tasks may have are tidy, uniform and alike;  *)
(* those that a task still has to compare are tidy and alike.              *)
(***************************************************************************)
Separate ==
  \A t, u \in Task : \A a \in Uses[t], b \in Uses[u] : Tidy(a) /\ Uniform(a) /\ Alike(a, b)

ArgvInv ==
  \A t \in Task :
     /\ Born(t) => Tidy(argv[t])
     /\ Born(t) => \A u \in Task : \A b \in Uses[u] : Alike(b, argv[t])
     /\ ins[t] = "push" => argv[t] = declared[t]

CInv == LifeInv /\ ChildInv /\ CompleteInv

OInv == CInv /\ ArgvInv /\ OrderInv
-----------------------------------------------------------------------------
(***************************************************************************)
(* The types, as one fact, and what the initial states satisfy.            *)
(***************************************************************************)
LEMMA Typed ==
  ASSUME IInv
  PROVE  /\ worklist \in Pointer /\ next \in [Task -> Pointer]
         /\ status \in [Task -> Status] /\ father \in [Task -> Pointer]
         /\ args \in [Task -> Seq(Region)] /\ ndependencies \in [Task -> Int]
         /\ nchildren \in [Task -> Int] /\ deps \in [Task -> Seq(Task)]
         /\ queue \in [Task -> Nat]
         /\ ins \in [Task -> InsPlace] /\ scan \in [Task -> Pointer]
         /\ argv \in [Task -> Seq(Region)] /\ run \in [Task -> RunPlace]
         /\ current \in [Task -> Pointer] /\ idep \in [Task -> Nat]
         /\ declared \in [Task -> Seq(Region)] /\ before \in [Task -> SUBSET Task]
BY DEF IInv, TypeInv, TypeOK, ItemTypeOK, ThreadTypeOK

LEMMA OrderInit == Init => OInv
<1> SUFFICES ASSUME Init PROVE OInv
  OBVIOUS
<1>1. LifeInv
  BY DEF Init, LifeInv, Born, Inserting
<1>2. \A c \in Task : Owed(c) = {}
  BY NilAssumption DEF Init, Owed
<1>3. ChildInv
  BY <1>2 DEF Init, ChildInv, Born, Climbed, Completing
<1>4. CompleteInv
  BY DEF Init, CompleteInv, Finishes, Completing, Born, Finished
<1>5. ArgvInv
  BY DEF Init, ArgvInv, Born
<1>6. OrderInv
  BY DEF Init, OrderInv, Pushed
<1> QED BY <1>1, <1>3, <1>4, <1>5, <1>6 DEF OInv, CInv

-----------------------------------------------------------------------------
(***************************************************************************)
(* Every step preserves LifeInv.                                           *)
(***************************************************************************)
LEMMA LifeStep == ASSUME TwoLevel, IInv, CInv, [Next]_vars PROVE LifeInv'
<1>t. /\ status \in [Task -> Status] /\ father \in [Task -> Pointer]
      /\ ndependencies \in [Task -> Int] /\ queue \in [Task -> Nat]
      /\ ins \in [Task -> InsPlace] /\ run \in [Task -> RunPlace]
      /\ declared \in [Task -> Seq(Region)]
  BY Typed
<1>i. LifeInv /\ PlaceInv
  BY DEF IInv, CInv
<1>1. ASSUME NEW f \in Pointer, NEW t \in Task, NEW a \in Uses[t], Spawn(f, t, a)
      PROVE  LifeInv'
  <2>1. UNCHANGED <<queue, run, ndependencies>>
    BY <1>1 DEF Spawn, runVars
  <2>2. \A u \in Task : father[u] = f => ~ Inserting(u)
    BY <1>1 DEF Spawn, InUserCode
  <2>3. f # Nil => run[f] = "body"
    BY <1>1 DEF Spawn, InUserCode
  <2> QED
    BY <1>1, <2>1, <2>2, <2>3, <1>i, <1>t DEF Spawn, LifeInv, Born, Inserting
<1>2. ASSUME NEW t \in Task, Push(t) PROVE LifeInv'
  <2>1. UNCHANGED <<queue, run, ndependencies, status, father, declared>>
    BY <1>2 DEF Push, runVars
  <2> QED BY <1>2, <2>1, <1>i, <1>t DEF Push, LifeInv, Born, Inserting
<1>3. ASSUME NEW t \in Task, SkipAncestor(t) PROVE LifeInv'
  <2>1. UNCHANGED <<queue, run, ndependencies, status, father, declared, ins>>
    BY <1>3 DEF SkipAncestor, runVars, history
  <2> QED BY <2>1, <1>i DEF LifeInv, Born, Inserting
<1>4. ASSUME NEW t \in Task, Look(t) PROVE LifeInv'
  <2>1. UNCHANGED <<queue, run, ndependencies, status, father, declared>>
    BY <1>4 DEF Look, runVars, itemVars, history
  <2>2. ins[t] = "scan" /\ (UNCHANGED ins \/ ins' = [ins EXCEPT ![t] = "examine"])
    BY <1>4 DEF Look
  <2> QED BY <2>1, <2>2, <1>i, <1>t DEF LifeInv, Born, Inserting
<1>5. ASSUME NEW t \in Task, Examine(t) PROVE LifeInv'
  <2>1. UNCHANGED <<queue, run, status, father, declared>>
    BY <1>5 DEF Examine, runVars, history
  <2>2. ins[t] = "examine" /\ ins' = [ins EXCEPT ![t] = "flag"]
    BY <1>5 DEF Examine
  <2>3. \A u \in Task \ {t} : ndependencies'[u] = ndependencies[u]
    BY <1>5, <1>t DEF Examine
  <2> QED BY <2>1, <2>2, <2>3, <1>i, <1>t DEF LifeInv, Born, Inserting
<1>6. ASSUME NEW t \in Task, Flag(t) PROVE LifeInv'
  <2>1. UNCHANGED <<queue, run, ndependencies, status, father, declared>>
    BY <1>6 DEF Flag, runVars, history
  <2> QED BY <1>6, <2>1, <1>i, <1>t DEF Flag, LifeInv, Born, Inserting
<1>7. ASSUME NEW t \in Task, Settle(t) PROVE LifeInv'
  <2>1. UNCHANGED <<run, ndependencies, father, declared>> /\ ins[t] = "scan"
    BY <1>7 DEF Settle, runVars, history
  <2>2. queue[t] = 0
    <3>1. ~ Posted(t) /\ queue[t] \in Nat
      BY <2>1, <1>i, <1>t DEF PlaceInv
    <3> QED BY <3>1 DEF Posted
  <2> QED BY <1>7, <2>1, <2>2, <1>i, <1>t DEF Settle, LifeInv, Born, Inserting
<1>8. ASSUME NEW t \in Task, SetWaiting(t) PROVE LifeInv'
  <2>1. UNCHANGED <<queue, run, ndependencies, father, declared>>
    BY <1>8 DEF SetWaiting, runVars, history
  <2> QED BY <1>8, <2>1, <1>i, <1>t DEF SetWaiting, LifeInv, Born, Inserting
<1>9. ASSUME NEW t \in Task, Start(t) PROVE LifeInv'
  <2>1. UNCHANGED <<ins, ndependencies, father, declared>>
    BY <1>9 DEF Start, insVars, history
  <2>2. ins[t] = "inserted" /\ run[t] = "idle"
    BY <1>9, <1>i, <1>t DEF Start, PlaceInv, Posted
  <2> QED BY <1>9, <2>1, <2>2, <1>i, <1>t DEF Start, LifeInv, Born, Inserting
<1>10. ASSUME NEW t \in Task, EndBody(t) PROVE LifeInv'
  <2>1. UNCHANGED <<queue, ins, status, ndependencies, father, declared>>
    BY <1>10 DEF EndBody, insVars, history
  <2>2. \A u \in Task : father[u] = t => ~ Inserting(u)
    BY <1>10 DEF EndBody, InUserCode
  <2>3. run[t] = "body" /\ \A u \in Task \ {t} : run'[u] = run[u]
    BY <1>10, <1>t DEF EndBody
  <2>4. run'[t] # "idle"
    BY <1>10, <1>t DEF EndBody
  <2> QED BY <2>1, <2>2, <2>3, <2>4, <1>i, <1>t DEF LifeInv, Born, Inserting, Pointer
<1>11. ASSUME NEW t \in Task, Completing(t),
              UNCHANGED <<queue, ins, ndependencies, father, declared>>,
              \A u \in Task \ {t} : run'[u] = run[u],
              run'[t] # "idle",
              \A u \in Task : status'[u] # status[u] => run[u] # "idle" /\ status'[u] \in Finished
       PROVE  LifeInv'
  <2>1. \A u \in Task : status'[u] # status[u] => Born(u) /\ status'[u] # "Unallocated"
    BY <1>11, <1>i DEF PlaceInv, Posted, Born, Finished
  <2> QED BY <1>11, <2>1, <1>i, <1>t DEF LifeInv, Born, Inserting, Pointer, Completing
<1>12. ASSUME NEW t \in Task, MarkDone(t) \/ Release(t) PROVE LifeInv'
  <2>1. Completing(t) /\ UNCHANGED <<queue, ins, ndependencies, father, declared>>
    BY <1>12 DEF MarkDone, Release, insVars, history, Completing
  <2>2. run'[t] # "idle" /\ \A u \in Task \ {t} : run'[u] = run[u]
    BY <1>12, <1>t DEF MarkDone, Release
  <2>3. run[current[t]] # "idle"
    BY <2>1, FinisherFacts DEF IInv
  <2>4. \A u \in Task : status'[u] # status[u] => u = current[t] /\ status'[u] \in Finished
    BY <1>12, <1>t DEF MarkDone, Release, Finished
  <2> QED BY <2>1, <2>2, <2>3, <2>4, <1>11
<1>13. ASSUME NEW t \in Task, LoadHint(t) \/ Walk(t) \/ FreeDeps(t) \/ Climb(t) PROVE LifeInv'
  <2>1. Completing(t) /\ UNCHANGED <<status, queue, ins, ndependencies, father, declared>>
    BY <1>13 DEF LoadHint, Walk, FreeDeps, Climb, itemVars, insVars, history, Completing
  <2>2. run'[t] # "idle" /\ \A u \in Task \ {t} : run'[u] = run[u]
    BY <1>13, <1>t DEF LoadHint, Walk, FreeDeps, Climb
  <2> QED BY <2>1, <2>2, <1>11
<1>14. ASSUME NEW t \in Task, Drain(t) PROVE LifeInv'
  <2> DEFINE w == deps[t][idep[t]]
  <2>1. UNCHANGED <<ins, run, father, declared>> /\ run[t] = "drain" /\ idep[t] <= Len(deps[current[t]])
    BY <1>14 DEF Drain, insVars, history
  <2>2. current[t] = t /\ w \in Task /\ ins[w] = "inserted" /\ ~ Posted(w)
    BY <2>1, DrainFacts
  <2>3. queue[w] = 0
    BY <2>2, <1>t DEF Posted
  <2>4. ndependencies' = [ndependencies EXCEPT ![w] = @ - 1]
    BY <1>14, <2>2 DEF Drain
  <2>5. \/ ndependencies[w] # 1 /\ UNCHANGED <<status, queue>>
        \/ /\ status' = [status EXCEPT ![w] = "Ready"]
           /\ queue' = [queue EXCEPT ![w] = @ + 1]
    BY <1>14, <2>2 DEF Drain
  <2> HIDE DEF w
  <2> QED BY <2>1, <2>2, <2>3, <2>4, <2>5, <1>i, <1>t DEF LifeInv, Born, Inserting
<1>15. CASE WaitForAll \/ UNCHANGED vars
  <2>1. UNCHANGED <<status, queue, ins, run, ndependencies, father, declared>>
    BY <1>15 DEF WaitForAll, vars, itemVars, insVars, runVars, history
  <2> QED BY <2>1, <1>i DEF LifeInv, Born, Inserting
<1> QED
  BY <1>1, <1>2, <1>3, <1>4, <1>5, <1>6, <1>7, <1>8, <1>9, <1>10, <1>12, <1>13, <1>14, <1>15
  DEF Next, Insert, Scan, Execute

-----------------------------------------------------------------------------
(***************************************************************************)
(* What a step may do to a status: the store of Waiting never comes after  *)
(* the task was posted, and Done and Deallocatable are each stored once.   *)
(***************************************************************************)
Advances(a, b) ==
  \/ a = b
  \/ a = "Unallocated" /\ b = "Filling"
  \/ a = "Filling" /\ b \in {"Waiting", "Ready"}
  \/ a \in {"Waiting", "Ready"} /\ b \in {"Ready", "Running"}
  \/ a \in Active /\ b = "Done"
  \/ a \in Finished /\ b = "Deallocatable"

LEMMA StatusSteps ==
  ASSUME TwoLevel, IInv, CInv, [Next]_vars
  PROVE  \A u \in Task : Advances(status[u], status'[u])
<1>t. /\ status \in [Task -> Status] /\ queue \in [Task -> Nat] /\ ins \in [Task -> InsPlace]
  BY Typed
<1>i. LifeInv /\ PlaceInv /\ CompleteInv
  BY DEF IInv, CInv
<1> SUFFICES ASSUME NEW u \in Task, status'[u] # status[u] PROVE Advances(status[u], status'[u])
  BY DEF Advances
<1>1. ASSUME NEW f \in Pointer, NEW t \in Task, NEW a \in Uses[t], Spawn(f, t, a)
      PROVE  Advances(status[u], status'[u])
  <2>1. ins[t] = "unborn" /\ status' = [status EXCEPT ![t] = "Filling"]
    BY <1>1 DEF Spawn
  <2>2. u = t /\ status'[u] = "Filling"
    BY <2>1, <1>t
  <2> QED BY <2>1, <2>2, <1>i DEF Advances, LifeInv, Born
<1>2. ASSUME NEW t \in Task, Settle(t) \/ SetWaiting(t) PROVE Advances(status[u], status'[u])
  <2>1. ins[t] \in {"scan", "wait"} /\ u = t /\ status'[u] \in {"Waiting", "Ready"}
    BY <1>2, <1>t DEF Settle, SetWaiting
  <2>2. status[u] = "Filling"
    BY <2>1, <1>i DEF PlaceInv, Inserting
  <2> QED BY <2>1, <2>2 DEF Advances
<1>3. ASSUME NEW w \in Task, ins[w] = "inserted", run[w] = "idle", u = w,
             status'[w] \in {"Ready", "Running"}
      PROVE  Advances(status[u], status'[u])
  <2>1. status[w] \notin {"Unallocated", "Filling", "Running"} \cup Finished
    BY <1>3, <1>i DEF PlaceInv, LifeInv, Born, Inserting
  <2>2. status[w] \in {"Waiting", "Ready"}
    BY <2>1, <1>t DEF Status, Active
  <2> QED BY <1>3, <2>2 DEF Advances
<1>4. ASSUME NEW t \in Task, Start(t) PROVE Advances(status[u], status'[u])
  <2>1. u = t /\ status'[t] = "Running" /\ run[t] = "idle" /\ queue[t] > 0
    BY <1>4, <1>t DEF Start
  <2>2. ins[t] = "inserted"
    BY <2>1, <1>i DEF PlaceInv, Posted
  <2> QED BY <2>1, <2>2, <1>3
<1>5. ASSUME NEW t \in Task, Drain(t) PROVE Advances(status[u], status'[u])
  <2> DEFINE w == deps[t][idep[t]]
  <2>1. run[t] = "drain" /\ idep[t] <= Len(deps[current[t]])
    BY <1>5 DEF Drain
  <2>2. current[t] = t /\ w \in Task /\ ins[w] = "inserted" /\ ~ Posted(w)
    BY <2>1, DrainFacts
  <2>3. UNCHANGED status \/ status' = [status EXCEPT ![w] = "Ready"]
    BY <1>5, <2>2 DEF Drain
  <2> HIDE DEF w
  <2>4. u = w /\ status'[w] = "Ready" /\ run[w] = "idle"
    BY <2>2, <2>3, <1>t DEF Posted
  <2> QED BY <2>2, <2>4, <1>3
<1>6. ASSUME NEW t \in Task, MarkDone(t) PROVE Advances(status[u], status'[u])
  <2>1. run[t] = "mark" /\ Completing(t)
    BY <1>6 DEF MarkDone, Completing
  <2>2. current[t] \in Task /\ run[current[t]] # "idle"
    BY <2>1, FinisherFacts DEF IInv
  <2>3. status[current[t]] \notin Finished
    BY <2>1, <2>2, <1>i DEF CompleteInv
  <2>4. status[current[t]] # "Unallocated"
    BY <2>2, <1>i DEF PlaceInv, Posted, LifeInv, Born
  <2>5. u = current[t] /\ status'[u] = "Done"
    BY <1>6, <1>t, <2>2 DEF MarkDone
  <2> QED BY <2>3, <2>4, <2>5, <1>t DEF Advances, Status
<1>7. ASSUME NEW t \in Task, Release(t) PROVE Advances(status[u], status'[u])
  <2>1. run[t] = "free" /\ Completing(t)
    BY <1>7 DEF Release, Completing
  <2>2. current[t] \in Task
    BY <2>1, FinisherFacts DEF IInv
  <2>3. status[current[t]] \in Finished
    BY <2>1, <2>2 DEF IInv, FinishInv, FinishOK
  <2>4. u = current[t] /\ status'[u] = "Deallocatable"
    BY <1>7, <1>t, <2>2 DEF Release
  <2> QED BY <2>3, <2>4 DEF Advances
<1>8. \A t \in Task : ~ (Push(t) \/ SkipAncestor(t) \/ Look(t) \/ Examine(t) \/ Flag(t))
  BY DEF Push, SkipAncestor, Look, Examine, Flag, itemVars
<1>9. \A t \in Task : ~ (EndBody(t) \/ LoadHint(t) \/ Walk(t) \/ FreeDeps(t) \/ Climb(t))
  BY DEF EndBody, LoadHint, Walk, FreeDeps, Climb, itemVars
<1>10. ~ WaitForAll /\ ~ UNCHANGED vars
  BY DEF WaitForAll, vars, itemVars
<1> QED
  BY <1>1, <1>2, <1>4, <1>5, <1>6, <1>7, <1>8, <1>9, <1>10 DEF Next, Insert, Scan, Execute

(***************************************************************************)
(* An item stays finished, and it stays deallocatable.                     *)
(***************************************************************************)
LEMMA Stays ==
  ASSUME TwoLevel, IInv, CInv, [Next]_vars, NEW u \in Task
  PROVE  /\ status[u] \in Finished => status'[u] \in Finished
         /\ status[u] = "Deallocatable" => status'[u] = "Deallocatable"
<1>1. Advances(status[u], status'[u])
  BY StatusSteps
<1> QED BY <1>1 DEF Advances, Finished, Active

-----------------------------------------------------------------------------
(***************************************************************************)
(* A subtask has no subtasks, and completes itself only.                   *)
(***************************************************************************)
LEMMA KinFacts ==
  ASSUME TwoLevel, IInv, NEW t \in Task
  PROVE  /\ father[t] # Nil => father[t] \in Task /\ father[t] # t /\ Owed(t) = {}
         /\ Completing(t) /\ father[current[t]] # Nil => current[t] = t
         /\ Completing(t) /\ current[t] # t => current[t] = father[t] /\ father[t] # Nil
         /\ IsFiniteSet(Owed(t)) /\ Cardinality(Owed(t)) \in Nat
         /\ Cardinality(Owed(t)) = 0 <=> Owed(t) = {}
<1>0. TypeInv /\ FamilyInv /\ FinishInv
  BY DEF IInv
<1>1. ASSUME father[t] # Nil, NEW c \in Task, father[c] = t PROVE FALSE
  BY <1>0, <1>1, FatherFacts, NilAssumption
<1>2. father[t] # Nil => father[t] \in Task /\ father[t] # t
  BY <1>0, FatherFacts
<1>3. Completing(t) => current[t] \in {t, father[t]} /\ current[t] # Nil
  BY <1>0 DEF FinishInv, FinishOK, TypeInv, PointersOK
<1>4. father[t] # Nil => father[father[t]] = Nil
  BY <1>0, FatherFacts
<1>5. IsFiniteSet(Owed(t))
  <2>1. Owed(t) \subseteq Task
    BY DEF Owed
  <2> QED BY <2>1, TaskAssumption, FS_Subset
<1>6. father[t] # Nil => Owed(t) = {}
  BY <1>1 DEF Owed
<1> QED BY <1>2, <1>3, <1>4, <1>5, <1>6, FS_EmptySet, FS_CardinalityType

(***************************************************************************)
(* Every step preserves ChildInv.                                          *)
(***************************************************************************)
LEMMA ChildStep == ASSUME TwoLevel, IInv, CInv, [Next]_vars PROVE ChildInv'
<1>t. /\ status \in [Task -> Status] /\ father \in [Task -> Pointer]
      /\ nchildren \in [Task -> Int] /\ ins \in [Task -> InsPlace]
      /\ run \in [Task -> RunPlace] /\ current \in [Task -> Pointer]
  BY Typed
<1>i. LifeInv /\ PlaceInv /\ ChildInv
  BY DEF IInv, CInv
<1>stay. \A c \in Task : status[c] = "Deallocatable" => status'[c] = "Deallocatable"
  BY Stays
<1>0. ASSUME UNCHANGED <<father, nchildren>>,
             \A c \in Task : /\ Climbed(c)' <=> Climbed(c)
                             /\ Own(c)' = Own(c)
                             /\ Born(c)' <=> Born(c)
                             /\ run'[c] = "climb" => run[c] = "climb" /\ current'[c] = current[c]
      PROVE  ChildInv'
  <2>1. \A c \in Task : Owed(c)' = Owed(c)
    BY <1>0 DEF Owed
  <2>2. \A c \in Task : run[c] = "climb" => current[c] \in Task
    BY FinisherFacts DEF IInv, Completing
  <2> QED BY <1>0, <2>1, <2>2, <1>stay, <1>i DEF ChildInv
<1>1. ASSUME NEW f \in Pointer, NEW t \in Task, NEW a \in Uses[t], Spawn(f, t, a)
      PROVE  ChildInv'
  <2>1. /\ ins[t] = "unborn" /\ run[t] = "idle" /\ father[t] = Nil
        /\ f # Nil => run[f] = "body"
        /\ UNCHANGED <<run, current>>
    BY <1>1, <1>i, <1>t DEF Spawn, InUserCode, runVars, PlaceInv, Posted, LifeInv, Born
  <2>2. /\ father'[t] = f /\ \A c \in Task \ {t} : father'[c] = father[c]
        /\ \A c \in Task : Born(c)' <=> Born(c) \/ c = t
        /\ nchildren'[t] = 1
        /\ \A c \in Task \ {t} : nchildren'[c] = IF c = f THEN nchildren[c] + 1 ELSE nchildren[c]
    BY <1>1, <1>t DEF Spawn, Born
  <2>3. \A c \in Task : (Climbed(c)' <=> Climbed(c)) /\ Own(c)' = Own(c)
    BY <2>1 DEF Climbed, Completing, Own
  <2>4. ~ Climbed(t) /\ Own(t) = 1 /\ f # t
    BY <2>1, NilAssumption DEF Climbed, Completing, Own
  <2>5. Owed(t)' = {}
    <3>1. \A c \in Task : father[c] # t
      BY <2>1, NilAssumption, FatherFacts DEF IInv
    <3> QED BY <2>2, <2>4, <3>1 DEF Owed
  <2>6. \A c \in Task \ {f} : c # t => Owed(c)' = Owed(c)
    BY <2>1, <2>2, <2>3, NilAssumption DEF Owed
  <2>7. f # Nil => Owed(f)' = Owed(f) \cup {t} /\ t \notin Owed(f)
    BY <2>1, <2>2, <2>3, <2>4 DEF Owed
  <2>8. f # Nil => Cardinality(Owed(f)') = Cardinality(Owed(f)) + 1
    BY <2>7, KinFacts, FS_AddElement DEF Pointer
  <2>9. ASSUME NEW c \in Task, Born(c)' PROVE nchildren'[c] = Own(c)' + Cardinality(Owed(c)')
    <3>1. CASE c = t
      BY <2>2, <2>3, <2>4, <2>5, <3>1, FS_EmptySet
    <3>2. CASE c = f /\ c # t
      <4>1. Born(f)
        BY <2>2, <2>9, <3>2
      <4>2. Own(f) = 1 /\ f # Nil
        BY <2>1, <3>2, NilAssumption DEF Own
      <4> QED BY <2>2, <2>3, <2>8, <3>2, <4>1, <4>2, KinFacts, <1>i DEF ChildInv
    <3>3. CASE c # f /\ c # t
      BY <2>2, <2>3, <2>6, <2>9, <3>3, <1>i DEF ChildInv
    <3> QED BY <3>1, <3>2, <3>3
  <2>10. ASSUME NEW c \in Task, father'[c] # Nil, Climbed(c)' PROVE status'[c] = "Deallocatable"
    BY <2>2, <2>3, <2>4, <2>10, <1>stay, <1>i DEF ChildInv
  <2>11. ASSUME NEW c \in Task, run'[c] = "climb" PROVE status'[current'[c]] = "Deallocatable"
    <3>1. current[c] \in Task
      BY <2>1, <2>11, FinisherFacts DEF IInv, Completing
    <3> QED BY <2>1, <2>11, <3>1, <1>stay, <1>i DEF ChildInv
  <2> QED BY <2>9, <2>10, <2>11 DEF ChildInv
<1>2. ASSUME NEW t \in Task,
             Push(t) \/ SkipAncestor(t) \/ Look(t) \/ Examine(t) \/ Flag(t) \/ Settle(t) \/ SetWaiting(t)
      PROVE  ChildInv'
  <2>1. UNCHANGED <<father, nchildren, run, current>>
    BY <1>2 DEF Push, SkipAncestor, Look, Examine, Flag, Settle, SetWaiting, itemVars, runVars
  <2>2. \A c \in Task : Born(c)' <=> Born(c)
    BY <1>2, <1>t DEF Push, SkipAncestor, Look, Examine, Flag, Settle, SetWaiting, Born
  <2> QED BY <1>0, <2>1, <2>2 DEF Climbed, Completing, Own
<1>3. ASSUME NEW t \in Task, Start(t) PROVE ChildInv'
  <2>1. /\ UNCHANGED <<father, nchildren, ins, current>>
        /\ run[t] = "idle" /\ run' = [run EXCEPT ![t] = "body"]
    BY <1>3 DEF Start, insVars
  <2>2. \A c \in Task : (Climbed(c)' <=> Climbed(c)) /\ Own(c)' = Own(c) /\ (run'[c] = "climb" => run[c] = "climb")
    BY <2>1, <1>t DEF Climbed, Completing, Own
  <2> QED BY <1>0, <2>1, <2>2 DEF Born
<1>4. ASSUME NEW t \in Task, EndBody(t) PROVE ChildInv'
  <2>1. /\ UNCHANGED <<father, ins, status>> /\ run[t] = "body"
        /\ nchildren'[t] = nchildren[t] - 1
        /\ \A c \in Task \ {t} : /\ nchildren'[c] = nchildren[c] /\ run'[c] = run[c]
                                 /\ current'[c] = current[c]
    BY <1>4, <1>t DEF EndBody, insVars
  <2>2. IF nchildren[t] = 1 THEN run'[t] = "mark" /\ current'[t] = t ELSE run'[t] = "out"
    BY <1>4, <1>t DEF EndBody
  <2>3. Born(t) /\ Own(t) = 1 /\ Own(t)' = 0 /\ ~ Climbed(t)
    BY <2>1, <2>2, <1>i DEF PlaceInv, Posted, Born, Own, Climbed, Completing
  <2>4. father[t] # Nil => nchildren[t] = 1
    BY <2>3, KinFacts, FS_EmptySet, <1>i DEF ChildInv
  <2>5. father[t] # Nil => ~ Climbed(t)'
    BY <2>2, <2>4 DEF Climbed
  <2>6. \A c \in Task \ {t} : (Climbed(c)' <=> Climbed(c)) /\ Own(c)' = Own(c)
    BY <2>1 DEF Climbed, Completing, Own
  <2>7. \A c \in Task : Owed(c)' = Owed(c)
    BY <2>1, <2>3, <2>5, <2>6, NilAssumption DEF Owed
  <2>8. ASSUME NEW c \in Task, Born(c)' PROVE nchildren'[c] = Own(c)' + Cardinality(Owed(c)')
    <3>1. nchildren[c] = Own(c) + Cardinality(Owed(c)) /\ Cardinality(Owed(c)) \in Nat
      BY <2>1, <2>8, KinFacts, <1>i DEF ChildInv, Born
    <3> QED BY <2>1, <2>3, <2>6, <2>7, <3>1
  <2>9. ASSUME NEW c \in Task, father'[c] # Nil, Climbed(c)' PROVE status'[c] = "Deallocatable"
    <3>1. Climbed(c)
      BY <2>1, <2>5, <2>6, <2>9
    <3> QED BY <2>1, <2>9, <3>1, <1>i DEF ChildInv
  <2>10. ASSUME NEW c \in Task, run'[c] = "climb" PROVE status'[current'[c]] = "Deallocatable"
    BY <2>1, <2>2, <2>10, <1>i DEF ChildInv
  <2> QED BY <2>8, <2>9, <2>10 DEF ChildInv
<1>5. ASSUME NEW t \in Task, MarkDone(t) \/ LoadHint(t) \/ Walk(t) \/ Drain(t) \/ FreeDeps(t)
      PROVE  ChildInv'
  <2>1. UNCHANGED <<father, nchildren, ins, current>>
    BY <1>5 DEF MarkDone, LoadHint, Walk, Drain, FreeDeps, itemVars, insVars
  <2>2. /\ Completing(t) /\ Completing(t)' /\ run'[t] # "climb"
        /\ \A c \in Task \ {t} : run'[c] = run[c]
    BY <1>5, <1>t DEF MarkDone, LoadHint, Walk, Drain, FreeDeps, Completing
  <2>3. \A c \in Task : (Climbed(c)' <=> Climbed(c)) /\ Own(c)' = Own(c)
    BY <2>1, <2>2 DEF Climbed, Completing, Own
  <2> QED BY <1>0, <2>1, <2>2, <2>3 DEF Born
<1>6. ASSUME NEW t \in Task, Release(t) PROVE ChildInv'
  <2>1. /\ UNCHANGED <<father, nchildren, ins, current>>
        /\ run[t] = "free" /\ run'[t] = "climb" /\ \A c \in Task \ {t} : run'[c] = run[c]
    BY <1>6, <1>t DEF Release, insVars
  <2>2. current[t] \in Task
    BY <2>1, FinisherFacts DEF IInv, Completing
  <2>3. status'[current[t]] = "Deallocatable"
    BY <1>6, <1>t, <2>2 DEF Release
  <2>4. \A c \in Task : (Climbed(c)' <=> Climbed(c)) /\ Own(c)' = Own(c) /\ Owed(c)' = Owed(c)
    BY <2>1 DEF Climbed, Completing, Own, Owed
  <2>5. \A c \in Task : run[c] = "climb" => current[c] \in Task
    BY FinisherFacts DEF IInv, Completing
  <2> QED BY <2>1, <2>3, <2>4, <2>5, <1>stay, <1>i DEF ChildInv, Born
<1>7. ASSUME NEW t \in Task, Climb(t) PROVE ChildInv'
  <2>1. /\ UNCHANGED <<father, ins, status>> /\ run[t] = "climb" /\ Completing(t)
        /\ \A c \in Task \ {t} : run'[c] = run[c] /\ current'[c] = current[c]
    BY <1>7, <1>t DEF Climb, insVars, Completing
  <2>2. \A c \in Task \ {t} : (Climbed(c)' <=> Climbed(c)) /\ Own(c)' = Own(c)
    BY <2>1 DEF Climbed, Completing, Own
  <2>3. run'[t] \in {"out", "mark"} /\ Own(t) = 0 /\ Own(t)' = 0
    BY <1>7, <1>t, <2>1 DEF Climb, Own
  <2>4. status[current[t]] = "Deallocatable"
    BY <2>1, <1>i DEF ChildInv
  <2>5. ASSUME NEW c \in Task, run'[c] = "climb" PROVE status'[current'[c]] = "Deallocatable"
    BY <2>1, <2>3, <2>5, <1>i DEF ChildInv
  <2>6. CASE father[current[t]] = Nil
    <3>1. UNCHANGED nchildren /\ run'[t] = "out"
      BY <1>7, <1>t, <2>6 DEF Climb
    <3>2. father[t] # Nil => Climbed(t)
      <4>1. father[t] # Nil => current[t] # t
        BY <2>6
      <4> QED BY <4>1, <2>1 DEF Climbed
    <3>3. \A c \in Task : Owed(c)' = Owed(c)
      BY <2>1, <2>2, <3>1, <3>2, NilAssumption DEF Owed, Climbed
    <3>4. \A c \in Task : father[c] # Nil /\ Climbed(c)' => Climbed(c)
      BY <2>2, <3>2
    <3> QED BY <2>1, <2>2, <2>3, <2>5, <3>1, <3>3, <3>4, <1>i DEF ChildInv, Born
  <2>7. CASE father[current[t]] # Nil
    <3>1. PICK f \in Task : current[t] = t /\ f = father[t] /\ f # t
      BY <2>1, <2>7, KinFacts
    <3>2. /\ nchildren'[f] = nchildren[f] - 1 /\ \A c \in Task \ {f} : nchildren'[c] = nchildren[c]
          /\ run'[t] = "out" \/ (run'[t] = "mark" /\ current'[t] = f)
      BY <1>7, <1>t, <2>7, <3>1 DEF Climb
    <3>3. ~ Climbed(t) /\ Climbed(t)'
      BY <2>1, <3>1, <3>2 DEF Climbed, Completing
    <3>4. Owed(f)' = Owed(f) \ {t} /\ t \in Owed(f) /\ \A c \in Task \ {f} : Owed(c)' = Owed(c)
      BY <2>1, <2>2, <3>1, <3>3 DEF Owed
    <3>5. Cardinality(Owed(f)') = Cardinality(Owed(f)) - 1
      BY <3>1, <3>4, KinFacts, FS_RemoveElement
    <3>6. ASSUME NEW c \in Task, Born(c)' PROVE nchildren'[c] = Own(c)' + Cardinality(Owed(c)')
      <4>1. nchildren[c] = Own(c) + Cardinality(Owed(c)) /\ Cardinality(Owed(c)) \in Nat
        BY <2>1, <3>6, KinFacts, <1>i DEF ChildInv, Born
      <4>2. Own(c)' = Own(c)
        BY <2>2, <2>3
      <4>3. Own(c) \in Nat
        BY DEF Own
      <4>4. CASE c = f
        <5>1. nchildren'[c] = nchildren[c] - 1 /\ Cardinality(Owed(c)') = Cardinality(Owed(c)) - 1
          BY <3>2, <3>5, <4>4
        <5> QED BY <4>1, <4>2, <4>3, <5>1
      <4>5. CASE c # f
        <5>1. nchildren'[c] = nchildren[c] /\ Owed(c)' = Owed(c)
          BY <3>2, <3>4, <4>5
        <5> QED BY <4>1, <4>2, <5>1
      <4> QED BY <4>4, <4>5
    <3>7. ASSUME NEW c \in Task, father'[c] # Nil, Climbed(c)' PROVE status'[c] = "Deallocatable"
      BY <2>1, <2>2, <2>4, <3>1, <3>7, <1>i DEF ChildInv
    <3> QED BY <2>5, <3>6, <3>7 DEF ChildInv
  <2> QED BY <2>6, <2>7
<1>8. CASE WaitForAll \/ UNCHANGED vars
  <2>1. UNCHANGED <<father, nchildren, run, current, ins>>
    BY <1>8 DEF WaitForAll, vars, itemVars, insVars, runVars
  <2> QED BY <1>0, <2>1 DEF Born, Climbed, Completing, Own
<1> QED
  BY <1>1, <1>2, <1>3, <1>4, <1>5, <1>6, <1>7, <1>8 DEF Next, Insert, Scan, Execute

-----------------------------------------------------------------------------
(***************************************************************************)
(* While the function of c runs, or a subtask has still to tell c that it  *)
(* is complete, nobody is finishing c.                                     *)
(***************************************************************************)
LEMMA NotFinishing ==
  ASSUME TwoLevel, IInv, CInv, NEW c \in Task,
         run[c] = "body" \/ \E t \in Task : t \in Owed(c)
  PROVE  /\ nchildren[c] >= 1 /\ status[c] \notin Finished
         /\ \A x \in Task : ~ Finishes(x, c)
<1>1. nchildren[c] \in Int /\ Own(c) \in Nat /\ Cardinality(Owed(c)) \in Nat
  BY Typed, KinFacts DEF Own
<1>2. Born(c)
  <2>1. run[c] # "idle"
    <3>1. ASSUME NEW t \in Task, t \in Owed(c) PROVE run[c] # "idle"
      <4>1. father[t] = c /\ father[t] # Nil
        BY <3>1, NilAssumption DEF Owed
      <4> QED BY <4>1, FatherFacts DEF IInv
    <3> QED BY <3>1
  <2> QED BY <2>1 DEF IInv, PlaceInv, Posted, Born
<1>3. Own(c) >= 1 \/ Cardinality(Owed(c)) >= 1
  BY <1>1, KinFacts DEF Own
<1>4. nchildren[c] >= 1
  BY <1>1, <1>2, <1>3 DEF CInv, ChildInv
<1> QED BY <1>1, <1>4 DEF CInv, CompleteInv

(***************************************************************************)
(* Every step preserves CompleteInv.                                       *)
(***************************************************************************)
LEMMA CompleteStep == ASSUME TwoLevel, IInv, CInv, [Next]_vars PROVE CompleteInv'
<1>t. /\ status \in [Task -> Status] /\ father \in [Task -> Pointer]
      /\ nchildren \in [Task -> Int] /\ ins \in [Task -> InsPlace]
      /\ run \in [Task -> RunPlace] /\ current \in [Task -> Pointer]
  BY Typed
<1>i. LifeInv /\ PlaceInv /\ ChildInv /\ CompleteInv
  BY DEF IInv, CInv
<1>stay. \A c \in Task : status[c] \in Finished => status'[c] \in Finished
  BY Stays
<1> DEFINE Marks(x, c) == run[x] = "mark" /\ current[x] = c
<1>m. \A x, c : Marks(x, c) => Finishes(x, c)
  BY DEF Finishes, Completing
<1>0. ASSUME UNCHANGED nchildren,
             \A x, c \in Task : (Finishes(x, c)' <=> Finishes(x, c)) /\ (Marks(x, c)' <=> Marks(x, c)),
             \A c \in Task : status'[c] \in Finished => status[c] \in Finished,
             \A c \in Task : status'[c] = "Done" => status[c] = "Done",
             \A c \in Task : Born(c)' <=> Born(c)
      PROVE  CompleteInv'
  BY <1>0, <1>stay, <1>i DEF CompleteInv
<1>1. ASSUME NEW f \in Pointer, NEW t \in Task, NEW a \in Uses[t], Spawn(f, t, a)
      PROVE  CompleteInv'
  <2>1. /\ UNCHANGED <<run, current>> /\ ins[t] = "unborn" /\ run[t] = "idle"
        /\ f # Nil => run[f] = "body"
    BY <1>1, <1>i, <1>t DEF Spawn, InUserCode, runVars, PlaceInv, Posted
  <2>2. /\ status'[t] = "Filling" /\ nchildren'[t] = 1
        /\ \A c \in Task \ {t} : /\ status'[c] = status[c] /\ (Born(c)' <=> Born(c))
                                /\ nchildren'[c] = IF c = f THEN nchildren[c] + 1 ELSE nchildren[c]
    BY <1>1, <1>t DEF Spawn, Born
  <2>3. \A x, c \in Task : (Finishes(x, c)' <=> Finishes(x, c)) /\ (Marks(x, c)' <=> Marks(x, c))
    BY <2>1 DEF Finishes, Completing
  <2>4. \A x \in Task : ~ Finishes(x, t)
    BY <2>1, FinisherFacts DEF IInv, Finishes
  <2>5. f # Nil => /\ nchildren[f] >= 1 /\ status[f] \notin Finished
                  /\ \A x \in Task : ~ Finishes(x, f)
    BY <2>1, NotFinishing DEF Pointer
  <2>6. ASSUME NEW c \in Task, c # t PROVE c = f => nchildren'[c] # 0 /\ nchildren[c] # 0
    BY <2>2, <2>5, <2>6, <1>t, NilAssumption
  <2>7. status'[t] \notin Finished
    BY <2>2 DEF Finished
  <2> HIDE DEF Marks
  <2>8. ASSUME NEW c \in Task, nchildren'[c] # 0
        PROVE  status'[c] \notin Finished /\ \A x \in Task : ~ Finishes(x, c)'
    BY <2>2, <2>3, <2>4, <2>6, <2>7, <2>8, <1>i DEF CompleteInv
  <2>9. ASSUME NEW x \in Task, NEW c \in Task, Marks(x, c)' PROVE status'[c] \notin Finished
    BY <2>2, <2>3, <2>7, <2>9, <1>i DEF CompleteInv, Marks
  <2>10. ASSUME NEW c \in Task, Born(c)', nchildren'[c] = 0
         PROVE  status'[c] \in Finished \/ \E x \in Task : Marks(x, c)'
    <3>1. c # t /\ c # f
      BY <2>2, <2>6, <2>10
    <3> QED BY <2>2, <2>3, <2>10, <3>1, <1>i DEF CompleteInv, Marks
  <2>11. \A c \in Task : status'[c] = "Done" => \E x \in Task : Finishes(x, c)'
    BY <2>2, <2>3, <1>i DEF CompleteInv
  <2> QED BY <2>3, <2>8, <2>9, <2>10, <2>11, <1>i DEF CompleteInv, Marks
<1>2. ASSUME NEW t \in Task,
             Push(t) \/ SkipAncestor(t) \/ Look(t) \/ Examine(t) \/ Flag(t) \/ Settle(t) \/ SetWaiting(t)
      PROVE  CompleteInv'
  <2>1. UNCHANGED <<nchildren, run, current>>
    BY <1>2 DEF Push, SkipAncestor, Look, Examine, Flag, Settle, SetWaiting, itemVars, runVars
  <2>2. \A c \in Task : Born(c)' <=> Born(c)
    BY <1>2, <1>t DEF Push, SkipAncestor, Look, Examine, Flag, Settle, SetWaiting, Born
  <2>3. \A c \in Task : /\ status'[c] \in Finished => status[c] \in Finished
                        /\ status'[c] = "Done" => status[c] = "Done"
    BY <1>2, <1>t DEF Push, SkipAncestor, Look, Examine, Flag, Settle, SetWaiting, itemVars, Finished
  <2> QED BY <1>0, <2>1, <2>2, <2>3 DEF Finishes, Completing
<1>3. ASSUME NEW t \in Task, Start(t) PROVE CompleteInv'
  <2>1. /\ UNCHANGED <<nchildren, ins, current>>
        /\ run[t] = "idle" /\ run' = [run EXCEPT ![t] = "body"]
        /\ status' = [status EXCEPT ![t] = "Running"]
    BY <1>3 DEF Start, insVars
  <2>2. \A x, c \in Task : (Finishes(x, c)' <=> Finishes(x, c)) /\ (Marks(x, c)' <=> Marks(x, c))
    BY <2>1, <1>t DEF Finishes, Completing
  <2>3. \A c \in Task : /\ status'[c] \in Finished => status[c] \in Finished
                        /\ status'[c] = "Done" => status[c] = "Done"
    BY <2>1, <1>t DEF Finished
  <2> QED BY <1>0, <2>1, <2>2, <2>3 DEF Born
<1>4. ASSUME NEW t \in Task, EndBody(t) PROVE CompleteInv'
  <2>1. /\ UNCHANGED <<ins, status>> /\ run[t] = "body"
        /\ nchildren'[t] = nchildren[t] - 1
        /\ \A c \in Task \ {t} : /\ nchildren'[c] = nchildren[c] /\ run'[c] = run[c]
                                 /\ current'[c] = current[c]
    BY <1>4, <1>t DEF EndBody, insVars
  <2>2. IF nchildren[t] = 1 THEN run'[t] = "mark" /\ current'[t] = t ELSE run'[t] = "out"
    BY <1>4, <1>t DEF EndBody
  <2>3. nchildren[t] >= 1 /\ status[t] \notin Finished /\ \A x \in Task : ~ Finishes(x, t)
    BY <2>1, NotFinishing
  <2>4. \A x \in Task \ {t}, c \in Task : (Finishes(x, c)' <=> Finishes(x, c)) /\ (Marks(x, c)' <=> Marks(x, c))
    BY <2>1 DEF Finishes, Completing
  <2>5. \A c \in Task : ~ Finishes(t, c) /\ ~ Marks(t, c)
    BY <2>1 DEF Finishes, Completing
  <2>6. \A c \in Task : Finishes(t, c)' \/ Marks(t, c)' => c = t /\ nchildren[t] = 1
    BY <2>2 DEF Finishes, Completing
  <2>7. nchildren[t] = 1 => Marks(t, t)'
    BY <2>2
  <2>8. nchildren'[t] = 0 <=> nchildren[t] = 1
    BY <2>1, <2>3, <1>t
  <2> HIDE DEF Marks
  <2>9. ASSUME NEW c \in Task, nchildren'[c] # 0
        PROVE  status'[c] \notin Finished /\ \A x \in Task : ~ Finishes(x, c)'
    BY <2>1, <2>3, <2>4, <2>6, <2>8, <2>9, <1>i DEF CompleteInv
  <2>10. ASSUME NEW x \in Task, NEW y \in Task, NEW c \in Task, Finishes(x, c)', Finishes(y, c)'
         PROVE  x = y
    BY <2>3, <2>4, <2>6, <2>10, <1>i DEF CompleteInv
  <2>11. ASSUME NEW x \in Task, NEW c \in Task, Marks(x, c)' PROVE status'[c] \notin Finished
    BY <2>1, <2>3, <2>4, <2>6, <2>11, <1>i DEF CompleteInv, Marks
  <2>12. ASSUME NEW c \in Task, Born(c)', nchildren'[c] = 0
         PROVE  status'[c] \in Finished \/ \E x \in Task : Marks(x, c)'
    <3>1. CASE c = t
      BY <2>7, <2>8, <2>12, <3>1
    <3>2. CASE c # t
      <4>1. status[c] \in Finished \/ \E x \in Task : Marks(x, c)
        BY <2>1, <2>12, <3>2, <1>i DEF CompleteInv, Born, Marks
      <4> QED BY <2>1, <2>4, <2>5, <4>1
    <3> QED BY <3>1, <3>2
  <2>13. \A c \in Task : status'[c] = "Done" => \E x \in Task : Finishes(x, c)'
    BY <2>1, <2>4, <2>5, <1>i DEF CompleteInv
  <2> QED BY <2>9, <2>10, <2>11, <2>12, <2>13 DEF CompleteInv, Marks
<1>5. ASSUME NEW t \in Task, MarkDone(t) PROVE CompleteInv'
  <2>1. /\ UNCHANGED <<nchildren, ins, current>> /\ Marks(t, current[t]) /\ Completing(t)
        /\ run'[t] = "load" /\ \A x \in Task \ {t} : run'[x] = run[x]
    BY <1>5, <1>t DEF MarkDone, insVars, Completing
  <2>2. current[t] \in Task /\ Finishes(t, current[t])
    BY <2>1, FinisherFacts DEF IInv, Finishes
  <2>3. status'[current[t]] = "Done" /\ \A c \in Task \ {current[t]} : status'[c] = status[c]
    BY <1>5, <1>t, <2>2 DEF MarkDone
  <2>4. \A x, c \in Task : Finishes(x, c)' <=> Finishes(x, c)
    BY <2>1 DEF Finishes, Completing
  <2>5. \A x, c \in Task : Marks(x, c)' <=> Marks(x, c) /\ x # t
    BY <2>1
  <2>6. \A c \in Task : Marks(t, c) => c = current[t]
    OBVIOUS
  <2>7. nchildren[current[t]] = 0 /\ \A x \in Task : Finishes(x, current[t]) => x = t
    BY <2>2, <1>i DEF CompleteInv
  <2> HIDE DEF Marks
  <2>8. ASSUME NEW c \in Task, nchildren'[c] # 0
        PROVE  status'[c] \notin Finished /\ \A x \in Task : ~ Finishes(x, c)'
    BY <2>1, <2>3, <2>4, <2>7, <2>8, <1>i DEF CompleteInv
  <2>9. ASSUME NEW x \in Task, NEW c \in Task, Marks(x, c)' PROVE status'[c] \notin Finished
    <3>1. Marks(x, c) /\ x # t
      BY <2>5, <2>9
    <3>2. c # current[t]
      BY <2>7, <3>1, <1>m
    <3> QED BY <2>3, <3>1, <3>2, <1>i DEF CompleteInv, Marks
  <2>10. ASSUME NEW c \in Task, Born(c)', nchildren'[c] = 0
         PROVE  status'[c] \in Finished \/ \E x \in Task : Marks(x, c)'
    <3>1. CASE c = current[t]
      BY <2>3, <3>1 DEF Finished
    <3>2. CASE c # current[t]
      <4>1. status[c] \in Finished \/ \E x \in Task : Marks(x, c)
        BY <2>1, <2>10, <1>i DEF CompleteInv, Born, Marks
      <4> QED BY <2>3, <2>5, <2>6, <3>2, <4>1
    <3> QED BY <3>1, <3>2
  <2>11. \A c \in Task : status'[c] = "Done" => \E x \in Task : Finishes(x, c)'
    BY <2>2, <2>3, <2>4, <1>i DEF CompleteInv
  <2> QED BY <2>4, <2>8, <2>9, <2>10, <2>11, <1>i DEF CompleteInv, Marks
<1>6. ASSUME NEW t \in Task, LoadHint(t) \/ Walk(t) \/ Drain(t) \/ FreeDeps(t) \/ Release(t)
      PROVE  CompleteInv'
  <2>1. UNCHANGED <<nchildren, ins, current>>
    BY <1>6 DEF LoadHint, Walk, Drain, FreeDeps, Release, itemVars, insVars
  <2>2. /\ Completing(t) /\ Completing(t)' /\ run[t] # "mark" /\ run'[t] # "mark"
        /\ \A x \in Task \ {t} : run'[x] = run[x]
    BY <1>6, <1>t DEF LoadHint, Walk, Drain, FreeDeps, Release, Completing
  <2>3. \A x, c \in Task : (Finishes(x, c)' <=> Finishes(x, c)) /\ (Marks(x, c)' <=> Marks(x, c))
    BY <2>1, <2>2 DEF Finishes, Completing
  <2>4. \A c \in Task : /\ status'[c] \in Finished => status[c] \in Finished
                        /\ status'[c] = "Done" => status[c] = "Done"
    <3>1. CASE Release(t)
      <4>1. run[t] = "free"
        BY <3>1 DEF Release
      <4>2. status[current[t]] \in Finished
        BY <4>1 DEF IInv, FinishInv, FinishOK
      <4> QED BY <3>1, <4>2, <1>t DEF Release
    <3>2. CASE ~ Release(t)
      BY <1>6, <3>2, <1>t DEF LoadHint, Walk, Drain, FreeDeps, itemVars, Finished
    <3> QED BY <3>1, <3>2
  <2> QED BY <1>0, <2>1, <2>3, <2>4 DEF Born
<1>7. ASSUME NEW t \in Task, Climb(t) PROVE CompleteInv'
  <2>1. /\ UNCHANGED <<ins, status>> /\ run[t] = "climb" /\ Completing(t)
        /\ \A x \in Task \ {t} : run'[x] = run[x] /\ current'[x] = current[x]
    BY <1>7, <1>t DEF Climb, insVars, Completing
  <2>2. \A x \in Task \ {t}, c \in Task : (Finishes(x, c)' <=> Finishes(x, c)) /\ (Marks(x, c)' <=> Marks(x, c))
    BY <2>1 DEF Finishes, Completing
  <2>3. \A c \in Task : ~ Marks(t, c)
    BY <2>1
  <2>d. \A c \in Task : status'[c] = "Done" => \E x \in Task \ {t} : Finishes(x, c)
    <3>1. \A c \in Task : Finishes(t, c) => status[c] = "Deallocatable"
      BY <2>1, <1>i DEF ChildInv, Finishes
    <3> QED BY <2>1, <3>1, <1>i DEF CompleteInv
  <2>e. \A c \in Task : status'[c] = "Done" => \E x \in Task : Finishes(x, c)'
    BY <2>2, <2>d
  <2>4. CASE father[current[t]] = Nil
    <3>1. UNCHANGED nchildren /\ run'[t] = "out"
      BY <1>7, <1>t, <2>4 DEF Climb
    <3>2. \A c \in Task : ~ Finishes(t, c)' /\ ~ Marks(t, c)'
      BY <3>1 DEF Finishes, Completing
    <3>3. \A x, c \in Task : Finishes(x, c)' => Finishes(x, c)
      BY <2>2, <3>2
    <3>4. \A x, c \in Task : Marks(x, c)' <=> Marks(x, c)
      BY <2>2, <2>3, <3>2
    <3> HIDE DEF Marks
    <3> QED BY <2>1, <2>e, <3>1, <3>3, <3>4, <1>i DEF CompleteInv, Born, Marks
  <2>5. CASE father[current[t]] # Nil
    <3>1. PICK f \in Task : current[t] = t /\ f = father[t] /\ f # t
      BY <2>1, <2>5, KinFacts
    <3>2. /\ nchildren'[f] = nchildren[f] - 1 /\ \A c \in Task \ {f} : nchildren'[c] = nchildren[c]
          /\ IF nchildren[f] = 1 THEN run'[t] = "mark" /\ current'[t] = f ELSE run'[t] = "out"
      BY <1>7, <1>t, <2>5, <3>1 DEF Climb
    <3>3. t \in Owed(f)
      BY <2>1, <3>1 DEF Owed, Climbed
    <3>4. nchildren[f] >= 1 /\ status[f] \notin Finished /\ \A x \in Task : ~ Finishes(x, f)
      BY <3>3, NotFinishing
    <3>5. \A c \in Task : Finishes(t, c)' \/ Marks(t, c)' => c = f /\ nchildren[f] = 1
      BY <3>2 DEF Finishes, Completing
    <3>6. nchildren[f] = 1 => Marks(t, f)'
      BY <3>2
    <3>7. nchildren'[f] = 0 <=> nchildren[f] = 1
      BY <3>2, <3>4, <1>t
    <3> HIDE DEF Marks
    <3>8. ASSUME NEW c \in Task, nchildren'[c] # 0
          PROVE  status'[c] \notin Finished /\ \A x \in Task : ~ Finishes(x, c)'
      BY <2>1, <2>2, <3>2, <3>4, <3>5, <3>7, <3>8, <1>i DEF CompleteInv
    <3>9. ASSUME NEW x \in Task, NEW y \in Task, NEW c \in Task, Finishes(x, c)', Finishes(y, c)'
          PROVE  x = y
      BY <2>2, <3>4, <3>5, <3>9, <1>i DEF CompleteInv
    <3>10. ASSUME NEW x \in Task, NEW c \in Task, Marks(x, c)' PROVE status'[c] \notin Finished
      BY <2>1, <2>2, <3>4, <3>5, <3>10, <1>i DEF CompleteInv, Marks
    <3>11. ASSUME NEW c \in Task, Born(c)', nchildren'[c] = 0
           PROVE  status'[c] \in Finished \/ \E x \in Task : Marks(x, c)'
      <4>1. CASE c = f
        BY <3>6, <3>7, <3>11, <4>1
      <4>2. CASE c # f
        <5>1. status[c] \in Finished \/ \E x \in Task : Marks(x, c)
          BY <2>1, <3>2, <3>11, <4>2, <1>i DEF CompleteInv, Born, Marks
        <5> QED BY <2>1, <2>2, <2>3, <5>1
      <4> QED BY <4>1, <4>2
    <3> QED BY <2>e, <3>8, <3>9, <3>10, <3>11 DEF CompleteInv, Marks
  <2> QED BY <2>4, <2>5
<1>8. CASE WaitForAll \/ UNCHANGED vars
  <2>1. UNCHANGED <<nchildren, run, current, ins, status>>
    BY <1>8 DEF WaitForAll, vars, itemVars, insVars, runVars
  <2> QED BY <1>0, <2>1 DEF Born, Finishes, Completing
<1> QED
  BY <1>1, <1>2, <1>3, <1>4, <1>5, <1>6, <1>7, <1>8 DEF Next, Insert, Scan, Execute

-----------------------------------------------------------------------------
(***************************************************************************)
(* What the order of execution rests on: the scan of a task only passes    *)
(* over items that have finished, and compares arguments that are still    *)
(* those of the item; who has not been pushed is behind nothing.           *)
(***************************************************************************)
ScanOK(t) ==
  LET p == scan[t]
  IN  /\ p \in Task /\ Pushed(p) /\ p \notin before[p]
      /\ Reach(next[p]) \subseteq before[p]
      /\ \A q \in before[p] \ Reach(next[p]) : status[q] \in Finished
      /\ ins[t] = "examine" => args[p] = declared[p]

OrderOK ==
  \A t \in Task :
     /\ ~ Pushed(t) => /\ before[t] = {} /\ worklist # t
                       /\ \A u \in Task : t \notin before[u] /\ (Pushed(u) => scan[u] # t)
     /\ ins[t] \in {"scan", "examine", "flag"} /\ scan[t] # Nil => ScanOK(t)
     /\ ins[t] = "inserted" => scan[t] = Nil
     /\ Posted(t) => ins[t] = "inserted"
     /\ run[t] = "drain" => status[current[t]] \in Finished
     /\ Born(t) => status[t] # "Unallocated" /\ declared[t] \in Uses[t]

(***************************************************************************)
(* The steps that it looks at: those of Insert and Execute, the spawn of a *)
(* task, and the others, which change nothing of it.  A step finishes no   *)
(* item anew, links only behind items that are not released, and releases  *)
(* once.                                                                   *)
(***************************************************************************)
orderVars == <<before, declared, argv, ins, scan, deps, run, current, idep>>

Adds(t, a) ==
  /\ ins[t] = "unborn" /\ ins' = [ins EXCEPT ![t] = "push"]
  /\ argv' = [argv EXCEPT ![t] = a] /\ declared' = [declared EXCEPT ![t] = a]
  /\ UNCHANGED <<before, scan, deps, run, current, idep>>

Moves ==
  \/ \E t \in Task : Insert(t) \/ Execute(t)
  \/ \E t \in Task : \E a \in Uses[t] : Adds(t, a)
  \/ UNCHANGED orderVars

MovesOK ==
  /\ Moves
  /\ \A t \in Task : status[t] \in Finished => status'[t] \in Finished
  /\ \A t \in Task : Examine(t) /\ Hits(t) => LinkOK(t)
  /\ \A t \in Task : Drain(t) => ReleaseOK(t)
  /\ \A t \in Task : SkipAncestor(t) =>
        declared[scan[t]] = <<>> /\ scan' = [scan EXCEPT ![t] = next[scan[t]]]

LEMMA OrderFacts == ASSUME TwoLevel, IInv, LifeInv PROVE OrderOK
<1>i. PlaceInv /\ ListInv /\ FamilyInv
  BY DEF IInv
<1> SUFFICES ASSUME NEW t \in Task
             PROVE  /\ ~ Pushed(t) => /\ before[t] = {} /\ worklist # t
                                      /\ \A u \in Task : t \notin before[u] /\ (Pushed(u) => scan[u] # t)
                    /\ ins[t] \in {"scan", "examine", "flag"} /\ scan[t] # Nil => ScanOK(t)
                    /\ run[t] = "drain" => status[current[t]] \in Finished
                    /\ Born(t) => status[t] # "Unallocated" /\ declared[t] \in Uses[t]
  BY <1>i DEF OrderOK, ListInv, PlaceInv
<1>1. ~ Pushed(t) => /\ before[t] = {} /\ worklist # t
                     /\ \A u \in Task : t \notin before[u] /\ (Pushed(u) => scan[u] # t)
  BY <1>i, NilAssumption DEF ListInv
<1>2. ASSUME ins[t] \in {"scan", "examine", "flag"}, scan[t] # Nil PROVE ScanOK(t)
  <2>1. /\ scan[t] \in Task /\ Pushed(scan[t]) /\ scan[t] \notin before[scan[t]]
        /\ Reach(next[scan[t]]) = before[scan[t]]
    BY <1>2, ScanFacts DEF IInv, ListInv
  <2>2. ASSUME ins[t] = "examine" PROVE args[scan[t]] = declared[scan[t]]
    <3>1. declared[scan[t]] # <<>> => Touches(t, scan[t])
      BY <2>2 DEF Touches, Inserting
    <3>2. declared[scan[t]] # <<>> => status[scan[t]] # "Deallocatable"
      BY <2>1, <3>1 DEF IInv, FinishInv, FinishOK
    <3> QED BY <2>1, <3>2, <1>i DEF FamilyInv
  <2> QED BY <2>1, <2>2 DEF ScanOK
<1>3. run[t] = "drain" => status[current[t]] \in Finished
  BY DEF IInv, FinishInv, FinishOK
<1>4. Born(t) => status[t] # "Unallocated" /\ declared[t] \in Uses[t]
  BY DEF LifeInv
<1> QED BY <1>1, <1>2, <1>3, <1>4

LEMMA NextMoves == ASSUME TwoLevel, IInv, CInv, [Next]_vars PROVE MovesOK
<1>1. Moves
  <2>1. ASSUME NEW f \in Pointer, NEW t \in Task, NEW a \in Uses[t], Spawn(f, t, a)
        PROVE  Adds(t, a)
    BY <2>1 DEF Spawn, Adds, runVars
  <2>2. WaitForAll \/ UNCHANGED vars => UNCHANGED orderVars
    BY DEF WaitForAll, vars, itemVars, insVars, runVars, history, orderVars
  <2> QED BY <2>1, <2>2 DEF Next, Moves
<1>2. \A t \in Task : SkipAncestor(t) =>
         declared[scan[t]] = <<>> /\ scan' = [scan EXCEPT ![t] = next[scan[t]]]
  <2> SUFFICES ASSUME NEW t \in Task, SkipAncestor(t)
               PROVE  declared[scan[t]] = <<>> /\ scan' = [scan EXCEPT ![t] = next[scan[t]]]
    OBVIOUS
  <2>1. scan[t] = father[t] /\ scan[t] \in Task /\ scan' = [scan EXCEPT ![t] = next[scan[t]]]
    BY SkipFacts DEF IInv
  <2> QED BY <2>1, FatherFacts, NilAssumption DEF IInv
<1> QED BY <1>1, <1>2, Stays, LinkFacts, ReleaseFacts DEF MovesOK, IInv

-----------------------------------------------------------------------------
(***************************************************************************)
(* Every step preserves ArgvInv: taking out a region keeps the others, in  *)
(* order.                                                                  *)
(***************************************************************************)
LEMMA ArgvStep == ASSUME Separate, TypeInv, OrderOK, ArgvInv, MovesOK PROVE ArgvInv'
<1>t. /\ ins \in [Task -> InsPlace] /\ argv \in [Task -> Seq(Region)]
      /\ declared \in [Task -> Seq(Region)] /\ args \in [Task -> Seq(Region)]
  BY DEF TypeInv, TypeOK, ItemTypeOK, ThreadTypeOK
<1>i. ArgvInv
  OBVIOUS
<1> DEFINE Fit(a) == Tidy(a) /\ \A u \in Task : \A b \in Uses[u] : Alike(b, a)
<1>f. \A t \in Task : Born(t) => Fit(argv[t])
  BY <1>i DEF ArgvInv
<1> HIDE DEF Fit
<1>0. ASSUME \A t \in Task : Born(t)' => Fit(argv'[t]),
             \A t \in Task : ins'[t] = "push" => argv'[t] = declared'[t]
      PROVE  ArgvInv'
  BY <1>0 DEF ArgvInv, Fit
<1>1. ASSUME NEW t \in Task, NEW a \in Uses[t], Adds(t, a)
      PROVE  ArgvInv'
  <2>1. Fit(a)
    BY DEF Fit, Separate
  <2>2. /\ argv'[t] = a /\ declared'[t] = a
        /\ \A u \in Task \ {t} : argv'[u] = argv[u] /\ declared'[u] = declared[u] /\ ins'[u] = ins[u]
    BY <1>1, <1>t DEF Adds
  <2> QED BY <2>1, <2>2, <1>0, <1>f, <1>i DEF ArgvInv, Born
<1>2. ASSUME NEW t \in Task, Examine(t) PROVE ArgvInv'
  <2> DEFINE p == scan[t]
             hit == FirstConflict(args[p], argv[t])
  <2>1. /\ ins[t] = "examine" /\ ins' = [ins EXCEPT ![t] = "flag"] /\ UNCHANGED declared
        /\ UNCHANGED argv \/ argv' = [argv EXCEPT ![t] = RemoveCovered(args[p], @, hit)]
    BY <1>2 DEF Examine, history
  <2>2. p \in Task
    BY <2>1 DEF TypeInv, PointersOK, OrderOK, ScanOK
  <2>3. Fit(argv[t])
    BY <2>1, <1>f DEF Born
  <2>4. Fit(RemoveCovered(args[p], argv[t], hit))
    <3>1. CASE hit = NoConflict
      BY <2>3, <3>1 DEF RemoveCovered
    <3>2. CASE hit # NoConflict
      <4>1. PICK i \in DOMAIN args[p], j \in DOMAIN argv[t] : hit = <<i, j>>
        BY <2>2, <3>2, <1>t, WalkStops
      <4>2. Fit(Without(argv[t], j))
        BY <2>3, <1>t, WithoutTidy, WithoutAlike DEF Fit
      <4> QED BY <2>3, <4>1, <4>2 DEF RemoveCovered
    <3> QED BY <3>1, <3>2
  <2>5. \A u \in Task : Fit(argv[u]) => Fit(argv'[u])
    BY <2>1, <2>4, <1>t
  <2> HIDE DEF p, hit
  <2> QED BY <2>1, <2>5, <1>0, <1>f, <1>i, <1>t DEF ArgvInv, Born
<1>3. ASSUME UNCHANGED <<argv, declared>>,
             \A t \in Task : (ins'[t] = "push" => ins[t] = "push") /\ (Born(t)' => Born(t))
      PROVE  ArgvInv'
  BY <1>3, <1>0, <1>f, <1>i DEF ArgvInv
<1>4. ASSUME NEW t \in Task,
             Push(t) \/ SkipAncestor(t) \/ Look(t) \/ Flag(t) \/ Settle(t) \/ SetWaiting(t)
      PROVE  ArgvInv'
  <2>1. UNCHANGED <<argv, declared>>
    BY <1>4 DEF Push, SkipAncestor, Look, Flag, Settle, SetWaiting, history
  <2>2. \A u \in Task : (ins'[u] = "push" => ins[u] = "push") /\ (Born(u)' => Born(u))
    BY <1>4, <1>t DEF Push, SkipAncestor, Look, Flag, Settle, SetWaiting, Born
  <2> QED BY <2>1, <2>2, <1>3
<1>5. ASSUME NEW t \in Task, Execute(t) PROVE ArgvInv'
  <2>1. UNCHANGED <<argv, declared, ins>>
    BY <1>5 DEF Execute, Start, EndBody, MarkDone, LoadHint, Walk, Drain, FreeDeps, Release, Climb,
       insVars, history
  <2> QED BY <2>1, <1>3 DEF Born
<1>6. CASE UNCHANGED orderVars
  BY <1>6, <1>3 DEF orderVars, Born
<1> QED
  BY <1>1, <1>2, <1>4, <1>5, <1>6 DEF MovesOK, Moves, Insert, Scan

(***************************************************************************)
(* Only a release takes an item out of those that a task waits for.        *)
(***************************************************************************)
LEMMA BlockersStay ==
  ASSUME TypeInv, MovesOK, \A t \in Task : ~ Drain(t), NEW v \in Task
  PROVE  Blockers(v) \subseteq Blockers(v)'
<1>t. /\ deps \in [Task -> Seq(Task)] /\ run \in [Task -> RunPlace]
      /\ current \in [Task -> Pointer] /\ idep \in [Task -> Nat]
  BY DEF TypeInv, TypeOK, ItemTypeOK, ThreadTypeOK
<1>0. ASSUME NEW p \in Task, deps'[p] = deps[p], p \in Blockers(v),
             \A x \in Task : run'[x] = "drain" /\ current'[x] = p =>
                idep'[x] = 1 \/ (run[x] = "drain" /\ current[x] = p /\ idep'[x] = idep[x])
      PROVE  p \in Blockers(v)'
  <2>1. PICK i \in DOMAIN deps[p] : deps[p][i] = v /\ ~ Released(p, i)
    BY <1>0 DEF Blockers
  <2>2. i \in Nat /\ i >= 1
    <3>1. deps[p] \in Seq(Task)
      BY <1>t
    <3> QED BY <3>1
  <2>3. ~ Released(p, i)'
    <3> SUFFICES ASSUME NEW x \in Task, run'[x] = "drain", current'[x] = p, i < idep'[x]
                 PROVE  FALSE
      BY DEF Released
    <3>1. CASE run[x] = "drain" /\ current[x] = p /\ idep'[x] = idep[x]
      BY <2>1, <3>1 DEF Released
    <3>2. CASE idep'[x] = 1
      BY <2>2, <3>2
    <3> QED BY <1>0, <3>1, <3>2
  <2> QED BY <1>0, <2>1, <2>3 DEF Blockers
<1>v. Blockers(v) \subseteq Task
  BY DEF Blockers
<1>1. ASSUME UNCHANGED <<deps, run, current, idep>> PROVE Blockers(v) \subseteq Blockers(v)'
  BY <1>1, <1>0, <1>v
<1>2. ASSUME NEW t \in Task, NEW a \in Uses[t], Adds(t, a)
      PROVE  Blockers(v) \subseteq Blockers(v)'
  BY <1>1, <1>2 DEF Adds
<1>3. ASSUME NEW t \in Task,
             Push(t) \/ SkipAncestor(t) \/ Look(t) \/ Flag(t) \/ Settle(t) \/ SetWaiting(t)
      PROVE  Blockers(v) \subseteq Blockers(v)'
  BY <1>1, <1>3 DEF Push, SkipAncestor, Look, Flag, Settle, SetWaiting, itemVars, runVars
<1>4. ASSUME NEW t \in Task, Examine(t) PROVE Blockers(v) \subseteq Blockers(v)'
  <2>1. CASE Hits(t)
    <3>1. v = t \/ Blockers(v)' = Blockers(v)
      BY <1>4, <2>1, ExamineBlocks DEF MovesOK
    <3> QED BY <1>4, <2>1, <3>1, ExamineBlocks DEF MovesOK
  <2>2. CASE ~ Hits(t)
    BY <1>1, <1>4, <2>2 DEF Examine, Hits, runVars
  <2> QED BY <2>1, <2>2
<1>5. ASSUME NEW t \in Task,
             Start(t) \/ EndBody(t) \/ MarkDone(t) \/ LoadHint(t) \/ Walk(t) \/ Release(t) \/ Climb(t)
      PROVE  Blockers(v) \subseteq Blockers(v)'
  <2>1. UNCHANGED deps
    BY <1>5 DEF Start, EndBody, MarkDone, LoadHint, Walk, Release, Climb, itemVars
  <2>2. \A x \in Task \ {t} : run'[x] = run[x] /\ current'[x] = current[x] /\ idep'[x] = idep[x]
    BY <1>5, <1>t DEF Start, EndBody, MarkDone, LoadHint, Walk, Release, Climb
  <2>3. run'[t] = "drain" => idep'[t] = 1
    BY <1>5, <1>t DEF Start, EndBody, MarkDone, LoadHint, Walk, Release, Climb
  <2> QED BY <2>1, <2>2, <2>3, <1>0, <1>v
<1>6. ASSUME NEW t \in Task, FreeDeps(t) PROVE Blockers(v) \subseteq Blockers(v)'
  <2>1. /\ run[t] = "drain" /\ idep[t] > Len(deps[current[t]])
        /\ deps' = [deps EXCEPT ![current[t]] = <<>>] /\ UNCHANGED <<current, idep>>
        /\ run' = [run EXCEPT ![t] = "free"]
    BY <1>6 DEF FreeDeps
  <2>2. current[t] \in Task
    BY <2>1, <1>t DEF TypeInv, PointersOK, Completing, Pointer
  <2>3. current[t] \notin Blockers(v)
    <3>1. \A i \in DOMAIN deps[current[t]] : i < idep[t]
      BY <2>1, <2>2, <1>t
    <3> QED BY <2>1, <3>1 DEF Blockers, Released
  <2>4. \A p \in Blockers(v) : deps'[p] = deps[p]
    BY <2>1, <2>3, <1>t, <1>v
  <2>5. \A x \in Task : run'[x] = "drain" => run[x] = "drain"
    BY <2>1, <1>t
  <2> QED BY <2>1, <2>4, <2>5, <1>0, <1>v
<1>7. CASE UNCHANGED orderVars
  BY <1>1, <1>7 DEF orderVars
<1> QED
  BY <1>2, <1>3, <1>4, <1>5, <1>6, <1>7 DEF MovesOK, Moves, Insert, Scan, Execute

(***************************************************************************)
(* Every step preserves OrderInv.  A comparison that finds nothing shows   *)
(* that there is no conflict (WalkFinds); one that finds something links   *)
(* the task behind the item, and behind whatever that waited for itself    *)
(* and the task does not compare any more (RemovalKeeps).  When the item   *)
(* releases the task, those others have finished.                          *)
(***************************************************************************)
LEMMA OrderStep ==
  ASSUME Separate, TypeInv, CountInv, OrderOK, ArgvInv, OrderInv, MovesOK
  PROVE  OrderInv'
<1>t. /\ status \in [Task -> Status] /\ ins \in [Task -> InsPlace] /\ scan \in [Task -> Pointer]
      /\ argv \in [Task -> Seq(Region)] /\ args \in [Task -> Seq(Region)]
      /\ declared \in [Task -> Seq(Region)] /\ before \in [Task -> SUBSET Task]
      /\ worklist \in Pointer
  BY DEF TypeInv, TypeOK, ItemTypeOK, ThreadTypeOK
<1>i. OrderOK /\ ArgvInv /\ OrderInv /\ CountInv
  OBVIOUS
<1>stay. \A c \in Task : status[c] \in Finished => status'[c] \in Finished
  BY DEF MovesOK
<1> DEFINE Left(t, q) == q \in Ahead(t) /\ Conflicting(declared[q], argv[t])
<1>b. \A p \in Task : Blockers(p) \subseteq Task
  BY DEF Blockers
<1>p. \A t, q \in Task : Pushed(t) /\ Follows(t, q) => Held(t, q) \/ Left(t, q)
  BY <1>i DEF OrderInv
<1>g. ASSUME \A t, q \in Task : Pushed(t)' /\ Follows(t, q)' => Held(t, q)' \/ Left(t, q)'
      PROVE  OrderInv'
  BY <1>g DEF OrderInv
<1>1. ASSUME NEW t \in Task, Drain(t) PROVE OrderInv'
  <2>1. /\ UNCHANGED <<before, declared, ins, scan, argv>>
        /\ run[t] = "drain" /\ idep[t] <= Len(deps[current[t]])
    BY <1>1 DEF Drain, insVars, history
  <2>2. PICK w \in Task : w = deps[t][idep[t]] /\ current[t] = t
    BY <1>1 DEF MovesOK, ReleaseOK
  <2>3. Blockers(w)' = Blockers(w) \ {t} /\ \A u \in Task \ {w} : Blockers(u)' = Blockers(u)
    BY <1>1, <2>2, DrainUnblocks DEF MovesOK
  <2>4. \A u, q : (Follows(u, q)' <=> Follows(u, q)) /\ (Left(u, q)' <=> Left(u, q)) /\ (Pushed(u)' <=> Pushed(u))
    BY <2>1 DEF Follows, Ahead, Reach, Pushed
  <2>5. status[t] \in Finished
    BY <2>1, <2>2, <1>i DEF OrderOK
  <2>6. ASSUME NEW q \in Task, Follows(t, q) PROVE status[q] \in Finished
    <3>1. Posted(t) /\ ins[t] = "inserted" /\ Pushed(t)
      BY <2>1, <1>i DEF OrderOK, Posted, Pushed
    <3>2. Blockers(t) = {} /\ scan[t] = Nil
      BY <3>1, <1>i DEF CountInv, OrderOK
    <3>3. Ahead(t) = {}
      BY <3>1, <3>2 DEF Ahead, Reach
    <3> QED BY <2>6, <3>1, <3>2, <3>3, <1>p DEF Held
  <2> HIDE DEF Left
  <2>7. ASSUME NEW u \in Task, NEW q \in Task, Held(u, q) PROVE Held(u, q)'
    <3>1. CASE u # w
      BY <2>3, <2>4, <2>7, <3>1, <1>stay DEF Held
    <3>2. CASE u = w
      <4>1. CASE status[q] \in Finished
        BY <4>1, <1>stay DEF Held
      <4>2. CASE q \in Blockers(w)
        BY <2>3, <2>5, <3>2, <4>2, <1>stay DEF Held
      <4>3. ASSUME NEW p \in Blockers(w), Follows(p, q) PROVE Held(u, q)'
        BY <2>3, <2>4, <2>6, <3>2, <4>3, <1>stay DEF Held
      <4> QED BY <2>7, <3>2, <4>1, <4>2, <4>3 DEF Held
    <3> QED BY <3>1, <3>2
  <2> QED BY <2>4, <2>7, <1>p, <1>g
<1>2. ASSUME \A t \in Task : ~ Drain(t) PROVE OrderInv'
  <2>b. \A u \in Task : Blockers(u) \subseteq Blockers(u)'
    BY <1>2, BlockersStay
  <2>0. ASSUME UNCHANGED <<before, declared>>,
               \A t \in Task : Pushed(t)' <=> Pushed(t),
               \A t, q \in Task : Pushed(t) /\ Follows(t, q) /\ Left(t, q) => Held(t, q)' \/ Left(t, q)'
        PROVE  OrderInv'
    <3>1. \A p, q : Follows(p, q)' <=> Follows(p, q)
      BY <2>0 DEF Follows
    <3> HIDE DEF Left
    <3>2. \A t, q \in Task : Held(t, q) => Held(t, q)'
      BY <2>b, <3>1, <1>stay DEF Held
    <3> QED BY <2>0, <3>1, <3>2, <1>p, <1>g
  <2>same. ASSUME UNCHANGED <<before, declared, argv, ins, scan>> PROVE OrderInv'
    BY <2>same, <2>0 DEF Ahead, Reach, Pushed
  <2>1. ASSUME NEW t \in Task, NEW a \in Uses[t], Adds(t, a)
        PROVE  OrderInv'
    <3>1. /\ UNCHANGED <<before, scan>> /\ ins[t] = "unborn" /\ ins'[t] = "push"
          /\ \A u \in Task \ {t} : /\ declared'[u] = declared[u] /\ argv'[u] = argv[u]
                                   /\ ins'[u] = ins[u]
      BY <2>1, <1>t DEF Adds
    <3>2. before[t] = {} /\ \A u \in Task : t \notin before[u]
      BY <3>1, <1>i DEF OrderOK, Pushed
    <3>3. \A u, q \in Task : Follows(u, q)' <=> Follows(u, q)
      BY <3>1, <3>2 DEF Follows
    <3>4. \A u \in Task : Pushed(u)' <=> Pushed(u)
      BY <3>1 DEF Pushed
    <3>5. ASSUME NEW u \in Task, NEW q \in Task, Pushed(u), Follows(u, q), Left(u, q)
          PROVE  Left(u, q)'
      <4>1. u # t /\ q # t
        BY <3>1, <3>2, <3>5 DEF Pushed, Follows
      <4> QED BY <3>1, <3>5, <4>1 DEF Ahead, Reach
    <3> HIDE DEF Left
    <3>6. ASSUME NEW u \in Task, NEW q \in Task, Held(u, q) PROVE Held(u, q)'
      BY <2>b, <3>3, <3>6, <1>stay, <1>b DEF Held
    <3> QED BY <3>3, <3>4, <3>5, <3>6, <1>p, <1>g
  <2>2. ASSUME NEW t \in Task, Push(t) PROVE OrderInv'
    <3>1. /\ UNCHANGED <<declared, argv>> /\ ins[t] = "push" /\ ins'[t] = "scan"
          /\ scan'[t] = worklist /\ before'[t] = InWorklist
          /\ \A u \in Task \ {t} : before'[u] = before[u] /\ ins'[u] = ins[u] /\ scan'[u] = scan[u]
      BY <2>2, <1>t DEF Push
    <3>2. before[t] = {} /\ ~ Pushed(t) /\ Pushed(t)'
      BY <3>1, <1>i DEF OrderOK, Pushed
    <3>3. \A p \in Pointer : p # t => Reach(p)' = Reach(p)
      BY <3>1 DEF Reach, Pointer
    <3>4. worklist # t /\ worklist \in Pointer
      BY <3>2, <1>t, <1>i DEF OrderOK
    <3>5. Ahead(t)' = before'[t]
      <4>1. Reach(worklist) = InWorklist
        BY DEF Reach, InWorklist
      <4> QED BY <3>1, <3>3, <3>4, <4>1 DEF Ahead, Reach
    <3>6. ASSUME NEW u \in Task, u # t, Pushed(u) PROVE Ahead(u)' = Ahead(u)
      <4>1. scan[u] # t /\ scan[u] \in Pointer
        BY <3>2, <3>6, <1>i, <1>t DEF OrderOK
      <4> QED BY <3>1, <3>3, <3>6, <4>1 DEF Ahead, Reach
    <3>7. argv[t] = declared[t]
      BY <3>1, <1>i DEF ArgvInv
    <3>8. \A u, q \in Task : /\ Follows(u, q) => Follows(u, q)'
                             /\ u # t => (Follows(u, q)' <=> Follows(u, q))
      BY <3>1, <3>2 DEF Follows
    <3>9. \A q \in Task : Follows(t, q)' => Left(t, q)'
      BY <3>1, <3>5, <3>7 DEF Follows
    <3>10. \A u, q \in Task : u # t /\ Pushed(u) /\ Left(u, q) => Left(u, q)'
      BY <3>1, <3>6
    <3> HIDE DEF Left
    <3>11. ASSUME NEW u \in Task, NEW q \in Task, Held(u, q) PROVE Held(u, q)'
      BY <2>b, <3>8, <3>11, <1>stay, <1>b DEF Held
    <3>12. \A u \in Task : u # t => (Pushed(u)' <=> Pushed(u))
      BY <3>1 DEF Pushed
    <3> QED BY <3>8, <3>9, <3>10, <3>11, <3>12, <1>p, <1>g
  <2>3. ASSUME NEW t \in Task, ins[t] = "scan", scan[t] # Nil, UNCHANGED <<ins, argv, before, declared>>,
               scan' = [scan EXCEPT ![t] = next[scan[t]]],
               status[scan[t]] \in Finished \/ declared[scan[t]] = <<>>
        PROVE  OrderInv'
    <3>1. /\ scan[t] \in Task /\ Reach(scan[t]) = before[scan[t]] \cup {scan[t]}
          /\ \A q \in before[scan[t]] \ Reach(next[scan[t]]) : status[q] \in Finished
      BY <2>3, <1>i DEF OrderOK, ScanOK, Reach
    <3>2. scan'[t] = next[scan[t]] /\ \A u \in Task \ {t} : scan'[u] = scan[u]
      BY <2>3, <1>t
    <3>3. \A q \in Ahead(t) : q \in Ahead(t)' \/ q = scan[t] \/ status[q] \in Finished
      BY <2>3, <3>1, <3>2 DEF Ahead, Reach
    <3>4. \A u \in Task \ {t} : Ahead(u)' = Ahead(u)
      BY <2>3, <3>2 DEF Ahead, Reach
    <3>5. ASSUME NEW u \in Task, NEW q \in Task, Left(u, q) PROVE Held(u, q)' \/ Left(u, q)'
      <4>1. CASE q \in Ahead(u)'
        BY <2>3, <3>5, <4>1
      <4>2. CASE q = scan[t]
        <5>1. declared[q] = <<>> => ~ Conflicting(declared[q], argv[u])
          BY DEF Conflicting, Written, Accessed
        <5> QED BY <2>3, <3>5, <4>2, <5>1, <1>stay DEF Held
      <4>3. CASE status[q] \in Finished
        BY <4>3, <1>stay DEF Held
      <4> QED BY <3>3, <3>4, <3>5, <4>1, <4>2, <4>3
    <3> QED BY <2>0, <2>3, <3>5 DEF Pushed
  <2>4. ASSUME NEW t \in Task, SkipAncestor(t) PROVE OrderInv'
    <3>1. declared[scan[t]] = <<>> /\ scan' = [scan EXCEPT ![t] = next[scan[t]]]
      BY <2>4 DEF MovesOK
    <3>2. ins[t] = "scan" /\ scan[t] # Nil /\ UNCHANGED <<ins, argv, before, declared>>
      BY <2>4 DEF SkipAncestor, history
    <3> QED BY <2>3, <3>1, <3>2
  <2>5. ASSUME NEW t \in Task, Look(t) PROVE OrderInv'
    <3>1. ins[t] = "scan" /\ scan[t] # Nil /\ UNCHANGED <<argv, before, declared>>
      BY <2>5 DEF Look, history
    <3>2. scan[t] \in Task /\ Pushed(scan[t])
      BY <3>1, <1>i DEF OrderOK, ScanOK
    <3>3. CASE status[scan[t]] \in Active
      <4>1. ins' = [ins EXCEPT ![t] = "examine"] /\ UNCHANGED scan
        BY <2>5, <3>3 DEF Look
      <4>2. \A u \in Task : Ahead(u)' = Ahead(u) /\ (Pushed(u)' <=> Pushed(u))
        BY <3>1, <4>1, <1>t DEF Ahead, Reach, Pushed
      <4> QED BY <2>0, <3>1, <4>2
    <3>4. CASE status[scan[t]] \notin Active
      <4>1. UNCHANGED ins /\ scan' = [scan EXCEPT ![t] = next[scan[t]]]
        BY <2>5, <3>4 DEF Look
      <4>2. status[scan[t]] # "Unallocated"
        BY <3>2, <1>i DEF OrderOK, Pushed, Born
      <4>3. status[scan[t]] \in Finished
        BY <3>2, <3>4, <4>2, <1>t DEF Status
      <4> QED BY <2>3, <3>1, <4>1, <4>3
    <3> QED BY <3>3, <3>4
  <2>6. ASSUME NEW t \in Task, Examine(t) PROVE OrderInv'
    <3> DEFINE hit == FirstConflict(args[scan[t]], argv[t])
    <3>1. /\ ins[t] = "examine" /\ ins' = [ins EXCEPT ![t] = "flag"]
          /\ UNCHANGED <<scan, before, declared>>
      BY <2>6 DEF Examine, history
    <3>2. PICK p \in Task : p = scan[t]
      BY <3>1, <1>i DEF TypeInv, PointersOK, OrderOK, ScanOK
    <3>3. scan[t] # Nil
      BY <3>1 DEF TypeInv, PointersOK
    <3>4. /\ Pushed(t) /\ Reach(p) = before[p] \cup {p} /\ p \notin before[p] /\ Born(t) /\ Born(p)
          /\ args[p] = declared[p]
      BY <3>1, <3>2, <3>3, <1>i DEF OrderOK, ScanOK, Reach, Pushed, Born
    <3>5. Tidy(declared[p]) /\ Uniform(declared[p]) /\ Alike(declared[p], argv[t]) /\ Tidy(argv[t])
      <4>1. declared[p] \in Uses[p]
        BY <3>4, <1>i DEF OrderOK
      <4> QED BY <3>4, <4>1, <1>i DEF ArgvInv, Separate
    <3>6. Conflicting(declared[p], argv[t]) => hit # NoConflict
      BY <3>2, <3>4, <3>5, <1>t, WalkFinds
    <3>7. /\ hit = NoConflict => UNCHANGED argv
          /\ hit # NoConflict =>
                argv' = [argv EXCEPT ![t] = RemoveCovered(args[scan[t]], @, hit)]
      BY <2>6 DEF Examine
    <3>8. hit # NoConflict => p \in Blockers(t)'
      BY <2>6, <3>2, ExamineBlocks DEF MovesOK, Hits
    <3>9. Ahead(t) = before[p] \cup {p} /\ Ahead(t)' = before[p]
      BY <3>1, <3>2, <3>4, <1>t DEF Ahead, Reach
    <3>10. \A u \in Task \ {t} : Ahead(u)' = Ahead(u) /\ argv'[u] = argv[u]
      BY <3>1, <3>7, <1>t DEF Ahead, Reach
    <3>11. ASSUME NEW q \in Task, Left(t, q) PROVE Held(t, q)' \/ Left(t, q)'
      <4>1. CASE q = p
        BY <3>6, <3>8, <3>11, <4>1 DEF Held
      <4>2. CASE q # p /\ hit = NoConflict
        BY <3>1, <3>7, <3>9, <3>11, <4>2
      <4>3. CASE q # p /\ hit # NoConflict /\ Conflicting(declared[q], argv'[t])
        BY <3>1, <3>9, <3>11, <4>3
      <4>4. CASE q # p /\ hit # NoConflict /\ ~ Conflicting(declared[q], argv'[t])
        <5>1. argv'[t] = RemoveCovered(declared[p], argv[t], FirstConflict(declared[p], argv[t]))
          BY <3>2, <3>4, <3>7, <4>4, <1>t
        <5>2. Conflicting(declared[q], declared[p])
          BY <3>5, <3>11, <4>4, <5>1, <1>t, RemovalKeeps
        <5>3. Follows(p, q)'
          BY <3>1, <3>9, <3>11, <4>4, <5>2 DEF Follows
        <5> QED BY <3>8, <4>4, <5>3 DEF Held
      <4> QED BY <4>1, <4>2, <4>3, <4>4
    <3>12. \A u, q \in Task : u # t /\ Left(u, q) => Left(u, q)'
      BY <3>1, <3>10
    <3>13. \A u \in Task : Pushed(u)' <=> Pushed(u)
      BY <3>1, <1>t DEF Pushed
    <3> HIDE DEF Left, hit
    <3> QED BY <2>0, <3>1, <3>11, <3>12, <3>13
  <2>7. ASSUME NEW t \in Task, Flag(t) PROVE OrderInv'
    <3>1. /\ ins[t] = "flag" /\ scan[t] # Nil /\ UNCHANGED <<argv, before, declared>>
          /\ ins' = [ins EXCEPT ![t] = "scan"] /\ scan' = [scan EXCEPT ![t] = next[scan[t]]]
      BY <2>7 DEF Flag, history, TypeInv, PointersOK
    <3>2. /\ scan[t] \in Task /\ Reach(scan[t]) = before[scan[t]] \cup {scan[t]}
          /\ scan[t] \notin before[scan[t]]
          /\ \A q \in before[scan[t]] \ Reach(next[scan[t]]) : status[q] \in Finished
      BY <3>1, <1>i DEF OrderOK, ScanOK, Reach
    <3>3. ins'[t] = "scan" /\ scan'[t] = next[scan[t]]
          /\ \A u \in Task \ {t} : ins'[u] = ins[u] /\ scan'[u] = scan[u]
      BY <3>1, <1>t
    <3>4. /\ \A u \in Task \ {t} : Ahead(u)' = Ahead(u)
          /\ \A q \in Ahead(t) : q \in Ahead(t)' \/ status[q] \in Finished
      BY <3>1, <3>2, <3>3 DEF Ahead, Reach
    <3>5. \A u \in Task : Pushed(u)' <=> Pushed(u)
      BY <3>1, <3>3 DEF Pushed
    <3>6. \A u, q \in Task : Left(u, q) => Held(u, q)' \/ Left(u, q)'
      BY <3>1, <3>4, <1>stay DEF Held
    <3> HIDE DEF Left
    <3> QED BY <2>0, <3>1, <3>5, <3>6
  <2>8. ASSUME NEW t \in Task, Settle(t) \/ SetWaiting(t) PROVE OrderInv'
    <3>1. UNCHANGED <<argv, before, declared, scan>>
      BY <2>8 DEF Settle, SetWaiting, history
    <3>2. \A u \in Task : (Pushed(u)' <=> Pushed(u)) /\ (ins'[u] = "flag" <=> ins[u] = "flag")
      BY <2>8, <1>t DEF Settle, SetWaiting, Pushed
    <3>3. \A u \in Task : Ahead(u)' = Ahead(u)
      BY <3>1, <3>2 DEF Ahead, Reach
    <3> QED BY <2>0, <3>1, <3>2, <3>3
  <2>9. ASSUME NEW t \in Task,
               \/ Start(t) \/ EndBody(t) \/ MarkDone(t) \/ LoadHint(t) \/ Walk(t)
               \/ FreeDeps(t) \/ Release(t) \/ Climb(t)
        PROVE  OrderInv'
    BY <2>9, <2>same DEF Start, EndBody, MarkDone, LoadHint, Walk, FreeDeps, Release, Climb,
       insVars, history
  <2>10. CASE UNCHANGED orderVars
    BY <2>10, <2>same DEF orderVars
  <2> QED
    BY <1>2, <2>1, <2>2, <2>4, <2>5, <2>6, <2>7, <2>8, <2>9, <2>10
    DEF MovesOK, Moves, Insert, Scan, Execute
<1> QED BY <1>1, <1>2

-----------------------------------------------------------------------------
(***************************************************************************)
(* Both invariants hold in every reachable state.  CInv does not depend on *)
(* the arguments of the tasks, OInv asks that they are Separate.           *)
(***************************************************************************)
LEMMA CompletionInvariant == ASSUME TwoLevel PROVE Spec => [](IInv /\ CInv)
<1>1. Init => IInv /\ CInv
  BY SafetyInit, OrderInit DEF OInv
<1>2. IInv /\ CInv /\ [Next]_vars => IInv' /\ CInv'
  <2> SUFFICES ASSUME IInv, CInv, [Next]_vars PROVE IInv' /\ CInv'
    OBVIOUS
  <2>1. IInv'
    BY SafetyStep
  <2> QED BY <2>1, LifeStep, ChildStep, CompleteStep DEF CInv
<1> QED BY <1>1, <1>2, PTL DEF Spec

LEMMA OrderInvariant == ASSUME TwoLevel, Separate PROVE Spec => [](IInv /\ OInv)
<1>1. Init => IInv /\ OInv
  BY SafetyInit, OrderInit
<1>2. IInv /\ OInv /\ [Next]_vars => IInv' /\ OInv'
  <2> SUFFICES ASSUME IInv, OInv, [Next]_vars PROVE IInv' /\ OInv'
    OBVIOUS
  <2>1. IInv' /\ CInv
    BY SafetyStep DEF OInv
  <2>2. CInv'
    BY <2>1, LifeStep, ChildStep, CompleteStep DEF CInv
  <2>3. TypeInv /\ CountInv /\ OrderOK /\ MovesOK
    BY <2>1, OrderFacts, NextMoves DEF IInv, CInv
  <2> QED BY <2>1, <2>2, <2>3, ArgvStep, OrderStep DEF OInv
<1> QED BY <1>1, <1>2, PTL DEF Spec

-----------------------------------------------------------------------------
(***************************************************************************)
(* The numbers that Rank gives to the statuses.                            *)
(***************************************************************************)
LEMMA RankValues ==
  /\ Rank("Unallocated") = 1 /\ Rank("Filling") = 2 /\ Rank("Waiting") = 3
  /\ Rank("Ready") = 4 /\ Rank("Running") = 5 /\ Rank("Done") = 6
  /\ Rank("Deallocatable") = 7
<1>1. DOMAIN StatusOrder = 1 .. 7
  BY DEF StatusOrder
<1>2. ASSUME NEW i \in 1 .. 7 PROVE Rank(StatusOrder[i]) = i
  <2>1. \A j \in 1 .. 7 : StatusOrder[j] = StatusOrder[i] <=> j = i
    BY DEF StatusOrder
  <2>2. Rank(StatusOrder[i]) \in 1 .. 7 /\ StatusOrder[Rank(StatusOrder[i])] = StatusOrder[i]
    BY <1>1 DEF Rank
  <2> QED BY <2>1, <2>2
<1>3. /\ StatusOrder[1] = "Unallocated" /\ StatusOrder[2] = "Filling"
      /\ StatusOrder[3] = "Waiting" /\ StatusOrder[4] = "Ready"
      /\ StatusOrder[5] = "Running" /\ StatusOrder[6] = "Done"
      /\ StatusOrder[7] = "Deallocatable"
  BY DEF StatusOrder
<1> QED BY <1>2, <1>3

(***************************************************************************)
(* The status of a Workitem only advances, whoever stores it: the thread   *)
(* that inserts the task, those that release it, and the one that runs it. *)
(***************************************************************************)
THEOREM StatusAdvances == ASSUME TwoLevel PROVE Spec => StatusForward
<1>1. ASSUME NEW a, NEW b, Advances(a, b), a \in Status PROVE Rank(a) <= Rank(b)
  <2>1. Rank(a) \in Int
    BY <1>1, RankValues DEF Status, Active, Finished
  <2> QED BY <1>1, <2>1, RankValues DEF Advances, Active, Finished
<1>2. IInv /\ CInv /\ [Next]_vars => [\A t \in Task : Rank(status[t]) <= Rank(status'[t])]_status
  <2> SUFFICES ASSUME IInv, CInv, [Next]_vars, NEW t \in Task
               PROVE  Rank(status[t]) <= Rank(status'[t])
    OBVIOUS
  <2>1. status[t] \in Status
    BY Typed
  <2> QED BY <2>1, <1>1, StatusSteps
<1> QED BY <1>2, CompletionInvariant, PTL DEF Spec, StatusForward

-----------------------------------------------------------------------------
(***************************************************************************)
(* If the father of a task has none itself, it is the only ancestor.       *)
(***************************************************************************)
LEMMA OnlyFather ==
  ASSUME NEW t \in Task, father[t] # Nil => father[father[t]] = Nil
  PROVE  Ancestors[t] = {father[t]} \ {Nil}
<1> DEFINE F == {father[t]} \ {Nil}
           N == Cardinality(Task)
           Climbs(f) == f = [n \in 0 .. N |->
                               IF n = 0 THEN {father[t]} \ {Nil}
                               ELSE f[n - 1] \cup ({ father[u] : u \in f[n - 1] } \ {Nil})]
<1>1. N \in Nat
  BY TaskAssumption, FS_CardinalityType
<1>2. { father[u] : u \in F } \ {Nil} = {}
  OBVIOUS
<1> DEFINE g == [n \in 0 .. N |-> F]
<1>3. Climbs(g)
  <2> SUFFICES ASSUME NEW n \in 0 .. N
               PROVE  F = IF n = 0 THEN F ELSE g[n - 1] \cup ({ father[u] : u \in g[n - 1] } \ {Nil})
    OBVIOUS
  <2>1. n # 0 => g[n - 1] = F
    BY <1>1
  <2> QED BY <2>1, <1>2
<1> DEFINE up == CHOOSE f : Climbs(f)
<1>4. Climbs(up)
  BY <1>3
<1>5. up[N] = F
  <2> DEFINE S == { n \in Nat : n \in 0 .. N => up[n] = F }
  <2> HIDE DEF up, F
  <2>1. 0 \in S
    BY <1>1, <1>4 DEF F
  <2>2. ASSUME NEW n \in Nat, n \in S PROVE n + 1 \in S
    <3> SUFFICES ASSUME n + 1 \in 0 .. N PROVE up[n + 1] = F
      OBVIOUS
    <3>1. up[n] = F
      BY <2>2, <1>1
    <3>2. up[n + 1] = up[n] \cup ({ father[u] : u \in up[n] } \ {Nil})
      BY <1>1, <1>4
    <3> QED BY <3>1, <3>2, <1>2
  <2>3. N \in S
    BY <2>1, <2>2, <1>1, Induct
  <2> QED BY <2>3, <1>1
<1> QED BY <1>5 DEF Ancestors

(***************************************************************************)
(* A task that has been posted comes after all those that it follows.      *)
(***************************************************************************)
LEMMA PostedFollows ==
  ASSUME TypeInv, CountInv, OrderOK, OrderInv,
         NEW t \in Task, Posted(t), NEW q \in before[t], Conflicting(declared[q], declared[t])
  PROVE  status[q] \in Finished
<1>1. ins[t] = "inserted" /\ Pushed(t) /\ q \in Task
  BY DEF OrderOK, Pushed, TypeInv, TypeOK, ThreadTypeOK
<1>2. Blockers(t) = {} /\ scan[t] = Nil
  BY <1>1 DEF CountInv, OrderOK
<1>3. Ahead(t) = {}
  BY <1>1, <1>2 DEF Ahead, Reach
<1>4. Follows(t, q)
  BY DEF Follows
<1> QED BY <1>1, <1>2, <1>3, <1>4 DEF OrderInv, Held

(***************************************************************************)
(* A task only starts when every preceding task with a conflicting         *)
(* argument has finished, although its search stops comparing an argument  *)
(* as soon as it is linked behind an item that covers it.                  *)
(***************************************************************************)
THEOREM ExecutionInOrder == ASSUME TwoLevel, Separate PROVE Spec => []StartsInOrder
<1>1. IInv /\ OInv => StartsInOrder
  BY OrderFacts, PostedFollows DEF StartsInOrder, Posted, IInv, OInv, CInv
<1> QED BY <1>1, OrderInvariant, PTL

-----------------------------------------------------------------------------
(***************************************************************************)
(* When nothing is enqueued and no thread is busy, all the tasks that were *)
(* pushed have finished.  If one had not begun, the oldest of them would   *)
(* wait for an older one that has run, and that is still linked to it: but *)
(* an item without subtasks that has run has released its deps.            *)
(***************************************************************************)
LEMMA Quiet ==
  ASSUME TwoLevel, IInv, CInv, Quiescent, NEW t \in Task, Pushed(t)
  PROVE  status[t] \in Finished
<1>t. /\ status \in [Task -> Status] /\ nchildren \in [Task -> Int]
      /\ ins \in [Task -> InsPlace] /\ before \in [Task -> SUBSET Task]
  BY Typed
<1>i. LifeInv /\ ChildInv /\ CompleteInv
  BY DEF CInv
<1>1. \A u \in Task : queue[u] = 0 /\ ~ Inserting(u) /\ run[u] \in {"idle", "out"}
  BY DEF Quiescent
<1>2. \A x, c \in Task : ~ Finishes(x, c)
  BY <1>1 DEF Finishes, Completing
<1>3. \A u \in Task : Born(u) => ins[u] = "inserted"
  BY <1>1 DEF Born, Inserting
<1>4. ASSUME NEW c \in Task, Born(c), run[c] = "out", Owed(c) = {} PROVE status[c] \in Finished
  <2>1. nchildren[c] = 0
    BY <1>4, KinFacts, <1>i DEF ChildInv, Own
  <2>2. \A x \in Task : run[x] # "mark"
    BY <1>1
  <2> QED BY <1>4, <2>1, <2>2, <1>i DEF CompleteInv
<1>5. \A u \in Task : Born(u) => run[u] = "out"
  <2> DEFINE Idle == { u \in Task : Born(u) /\ run[u] = "idle" }
             Age(u) == Cardinality(before[u])
  <2>1. SUFFICES ASSUME Idle # {} PROVE FALSE
    BY <1>1
  <2>2. \A u \in Task : IsFiniteSet(before[u]) /\ Age(u) \in Nat
    BY <1>t, TaskAssumption, FS_Subset, FS_CardinalityType
  <2>3. PICK u \in Idle : \A v \in Idle : Age(u) <= Age(v)
    <3>1. { Age(v) : v \in Idle } \in SUBSET Nat /\ { Age(v) : v \in Idle } # {}
      BY <2>1, <2>2
    <3>2. PICK m \in { Age(v) : v \in Idle } : \A n \in { Age(v) : v \in Idle } : m <= n
      BY <3>1, SmallestOf
    <3> QED BY <3>2
  <2>4. Blockers(u) # {}
    <3>1. ndependencies[u] # 0
      BY <1>1, <1>3, <2>3, <1>i DEF LifeInv
    <3> QED BY <2>3, <3>1, FS_EmptySet DEF IInv, CountInv, CountExact
  <2>5. PICK p \in Task : LinkedBehind(u, p)
    BY <2>4 DEF Blockers, LinkedBehind
  <2>6. declared[p] # <<>> /\ deps[p] # <<>> /\ p \in before[u]
    BY <1>3, <2>3, <2>5 DEF IInv, LinkInv, LinkedBehind, Visited
  <2>7. Pushed(p) /\ before[p] \subseteq before[u] /\ p \notin before[p]
    BY <2>3, <2>6 DEF IInv, ListInv
  <2>8. Age(p) < Age(u)
    <3>1. before[p] # before[u]
      BY <2>6, <2>7
    <3>2. Age(p) <= Age(u) /\ (Age(p) = Age(u) => before[p] = before[u])
      BY <2>2, <2>3, <2>7, FS_Subset
    <3> QED BY <2>2, <2>3, <3>1, <3>2
  <2>9. Born(p) /\ run[p] = "out"
    <3>1. p \notin Idle
      BY <2>2, <2>3, <2>8
    <3> QED BY <1>1, <2>7, <3>1 DEF Born, Pushed
  <2>10. Owed(p) = {}
    <3>1. ASSUME NEW c \in Task, father[c] = p PROVE FALSE
      BY <2>6, <3>1, FatherFacts, NilAssumption DEF IInv
    <3> QED BY <3>1 DEF Owed
  <2>11. status[p] \in Finished /\ status[p] # "Done"
    BY <1>2, <1>4, <2>9, <2>10, <1>i DEF CompleteInv
  <2> QED BY <2>6, <2>11 DEF IInv, FinishInv, FinishOK, Finished
<1>6. Owed(t) = {}
  <2>1. ASSUME NEW c \in Task, father[c] = t PROVE Climbed(c)
    <3>1. Born(c)
      BY <2>1, NilAssumption, <1>i DEF LifeInv
    <3> QED BY <1>5, <3>1 DEF Climbed
  <2> QED BY <2>1 DEF Owed
<1> QED BY <1>4, <1>5, <1>6 DEF Born, Pushed

(***************************************************************************)
(* wait_for_all empties the worklist only when all the tasks in it have    *)
(* finished, although it only sees the queue and the threads of the pool:  *)
(* no task is left waiting for a dependency.                               *)
(***************************************************************************)
THEOREM WaitsForTheRest == ASSUME TwoLevel PROVE Spec => WaitsForAll
<1>1. IInv /\ CInv /\ [Next]_vars =>
        [worklist' = Nil => \A t \in InWorklist : status[t] \in Finished]_worklist
  <2> SUFFICES ASSUME IInv, CInv, [Next]_vars, worklist' # worklist, worklist' = Nil,
                      NEW t \in InWorklist
               PROVE  status[t] \in Finished
    OBVIOUS
  <2>1. \A u \in Task : ~ Insert(u) /\ ~ Execute(u)
    BY NilAssumption DEF Insert, Scan, Push, SkipAncestor, Look, Examine, Flag, Settle, SetWaiting,
       Execute, Start, EndBody, MarkDone, LoadHint, Walk, Drain, FreeDeps, Release, Climb
  <2>2. Quiescent
    BY <2>1 DEF Next, Spawn, WaitForAll, vars
  <2>3. t \in Task /\ Pushed(t)
    BY Typed DEF InWorklist, IInv, ListInv, Pointer
  <2> QED BY <2>2, <2>3, Quiet
<1> QED BY <1>1, CompletionInvariant, PTL DEF Spec, WaitsForAll

-----------------------------------------------------------------------------
(***************************************************************************)
(* What TaskGraph sees of a task, in this state and in the next one.       *)
(***************************************************************************)
Seen ==
  \A t \in Task :
     /\ Ancestors[t] = {father[t]} \ {Nil}
     /\ PhaseOf(t) = IF ~ Pushed(t) THEN "unborn"
                     ELSE IF status[t] \in Finished THEN "finished"
                     ELSE IF run[t] = "idle" THEN "pending"
                     ELSE IF run[t] = "body" THEN "running"
                     ELSE "ended"

LEMMA SeenPhase ==
  ASSUME \A t \in Task : /\ father[t] # Nil => father[father[t]] = Nil
                         /\ Pushed(t) => status[t] \in Active \cup Finished
  PROVE  Seen
<1> SUFFICES ASSUME NEW t \in Task
             PROVE  PhaseOf(t) = IF ~ Pushed(t) THEN "unborn"
                                 ELSE IF status[t] \in Finished THEN "finished"
                                 ELSE IF run[t] = "idle" THEN "pending"
                                 ELSE IF run[t] = "body" THEN "running"
                                 ELSE "ended"
  BY OnlyFather DEF Seen
<1>1. Active \cap Finished = {}
  BY DEF Active, Finished
<1>2. CASE ~ Pushed(t)
  BY <1>2 DEF PhaseOf
<1>3. CASE Pushed(t) /\ status[t] \in Finished
  BY <1>1, <1>3 DEF PhaseOf
<1>4. CASE Pushed(t) /\ status[t] \in Active
  BY <1>1, <1>4 DEF PhaseOf
<1> QED BY <1>2, <1>3, <1>4

LEMMA SeenNow == ASSUME TwoLevel PROVE IInv /\ LifeInv => Seen
<1> SUFFICES ASSUME IInv, LifeInv PROVE Seen
  OBVIOUS
<1>1. \A t \in Task : father[t] # Nil => father[father[t]] = Nil
  BY FatherFacts DEF IInv
<1>2. \A t \in Task : Pushed(t) => status[t] \in Active \cup Finished
  BY Typed DEF LifeInv, Born, Pushed, Status
<1> QED BY <1>1, <1>2, SeenPhase

LEMMA SeenNext == ASSUME TwoLevel PROVE IInv' /\ LifeInv' => Seen'
BY SeenNow, PTL

(***************************************************************************)
(* The conflicts of TaskGraph are those of ArgInfo, which both extend.     *)
(***************************************************************************)
LEMMA SameConflicts ==
  ASSUME NEW a, NEW b
  PROVE  Graph!Conflicting(a, b) <=> Conflicting(a, b)
<1>1. \A r : Graph!Cells(r) = Cells(r)
  BY DEF Graph!Cells, Cells, Graph!is_array, is_array
<1>2. Graph!Written(a) = Written(a) /\ Graph!Accessed(a) = Accessed(a)
  BY <1>1 DEF Graph!Written, Written, Graph!Accessed, Accessed
<1>3. Graph!Written(b) = Written(b) /\ Graph!Accessed(b) = Accessed(b)
  BY <1>1 DEF Graph!Written, Written, Graph!Accessed, Accessed
<1> QED BY <1>2, <1>3 DEF Graph!Conflicting, Conflicting

LEMMA GraphInit == Init => Graph!Init
<1> SUFFICES ASSUME Init PROVE Graph!Init
  OBVIOUS
<1>1. \A t \in Task : ~ Pushed(t)
  BY DEF Init, Pushed
<1>2. \A t \in Task : PhaseOf(t) = "unborn"
  BY <1>1 DEF PhaseOf
<1>3. InWorklist = {}
  BY DEF Init, InWorklist
<1> QED BY <1>1, <1>2, <1>3 DEF Init, Graph!Init

(***************************************************************************)
(* A step that leaves the list, the pushed tasks, their fathers and what   *)
(* is seen of their places alone is no step of TaskGraph.                  *)
(***************************************************************************)
Same(u) ==
  /\ Pushed(u)' <=> Pushed(u)
  /\ Pushed(u) =>
        /\ declared'[u] = declared[u] /\ father'[u] = father[u]
        /\ status'[u] \in Finished <=> status[u] \in Finished
        /\ run'[u] = "idle" <=> run[u] = "idle"
        /\ run'[u] = "body" <=> run[u] = "body"

LEMMA SameSeen ==
  ASSUME Seen, Seen', NEW u \in Task, Same(u)
  PROVE  /\ PhaseOf(u)' = PhaseOf(u)
         /\ Pushed(u)' <=> Pushed(u)
         /\ Pushed(u) => Ancestors'[u] = Ancestors[u] /\ declared'[u] = declared[u]
BY DEF Seen, Same

LEMMA GraphStutter ==
  ASSUME Seen, Seen', \A u \in Task : Same(u), UNCHANGED <<worklist, before>>
  PROVE  UNCHANGED Graph!vars
<1>1. \A u \in Task : /\ PhaseOf(u)' = PhaseOf(u)
                      /\ Pushed(u)' <=> Pushed(u)
                      /\ Pushed(u) => Ancestors'[u] = Ancestors[u] /\ declared'[u] = declared[u]
  BY SameSeen
<1>2. InWorklist' = InWorklist
  BY DEF InWorklist
<1>3. [t \in Task |-> PhaseOf(t)]' = [t \in Task |-> PhaseOf(t)]
  BY <1>1
<1>4. [t \in Task |-> IF Pushed(t) THEN Ancestors[t] ELSE {}]'
        = [t \in Task |-> IF Pushed(t) THEN Ancestors[t] ELSE {}]
  BY <1>1
<1>5. [t \in Task |-> IF Pushed(t) THEN declared[t] ELSE <<>>]'
        = [t \in Task |-> IF Pushed(t) THEN declared[t] ELSE <<>>]
  BY <1>1
<1> QED BY <1>2, <1>3, <1>4, <1>5 DEF Graph!vars

(***************************************************************************)
(* The step of a task that begins, ends its function or finishes: only its *)
(* phase changes.                                                          *)
(***************************************************************************)
LEMMA GraphMove ==
  ASSUME Seen, Seen', NEW t \in Task, Pushed(t), Pushed(t)',
         UNCHANGED <<worklist, before, declared, father>>,
         \A u \in Task \ {t} : Same(u)
  PROVE  /\ [u \in Task |-> PhaseOf(u)]' = [[u \in Task |-> PhaseOf(u)] EXCEPT ![t] = PhaseOf(t)']
         /\ [u \in Task |-> IF Pushed(u) THEN Ancestors[u] ELSE {}]'
              = [u \in Task |-> IF Pushed(u) THEN Ancestors[u] ELSE {}]
         /\ [u \in Task |-> IF Pushed(u) THEN declared[u] ELSE <<>>]'
              = [u \in Task |-> IF Pushed(u) THEN declared[u] ELSE <<>>]
         /\ InWorklist' = InWorklist
<1>1. \A u \in Task \ {t} : /\ PhaseOf(u)' = PhaseOf(u)
                            /\ Pushed(u)' <=> Pushed(u)
                            /\ Pushed(u) => Ancestors'[u] = Ancestors[u]
  BY SameSeen
<1>2. Ancestors'[t] = Ancestors[t]
  BY DEF Seen
<1>3. InWorklist' = InWorklist
  BY DEF InWorklist
<1> QED BY <1>1, <1>2, <1>3

(***************************************************************************)
(* Every step of the worklist is one of TaskGraph, or none: Push spawns    *)
(* the task, Start begins it, EndBody ends its function, MarkDone finishes *)
(* the item that its thread is at, and wait_for_all is WaitForAll.         *)
(***************************************************************************)
LEMMA GraphPush ==
  ASSUME TwoLevel, IInv, OInv, Seen, Seen', NEW t \in Task, Push(t)
  PROVE  \E f \in Task \cup {Nil} : \E a \in Uses[t] : Graph!Spawn(f, t, a)
<1>t. /\ ins \in [Task -> InsPlace] /\ before \in [Task -> SUBSET Task]
      /\ father \in [Task -> Pointer] /\ declared \in [Task -> Seq(Region)]
  BY Typed
<1>i. LifeInv /\ PlaceInv /\ ListInv
  BY DEF IInv, OInv, CInv
<1>1. /\ UNCHANGED <<status, father, run, declared>> /\ ins[t] = "push" /\ ins'[t] = "scan"
      /\ \A u \in Task \ {t} : ins'[u] = ins[u]
      /\ worklist' = t /\ before' = [before EXCEPT ![t] = InWorklist]
  BY <1>t DEF Push, runVars
<1>2. ~ Pushed(t) /\ Pushed(t)' /\ Inserting(t)
  BY <1>1 DEF Pushed, Inserting
<1>3. status[t] \notin Finished /\ run[t] = "idle"
  BY <1>1, <1>2, <1>i DEF PlaceInv, Posted, Finished
<1>4. PhaseOf(t) = "unborn" /\ PhaseOf(t)' = "pending"
  BY <1>1, <1>2, <1>3 DEF Seen
<1>5. ASSUME father[t] # Nil
      PROVE  /\ father[t] \in Task /\ PhaseOf(father[t]) = "running"
             /\ Pushed(father[t]) /\ Ancestors[father[t]] = {}
  <2>1. father[t] \in Task /\ father[father[t]] = Nil
    BY <1>5, FatherFacts DEF IInv
  <2>2. run[father[t]] = "body"
    BY <1>2, <1>5, <1>i DEF LifeInv
  <2>3. Pushed(father[t]) /\ status[father[t]] \notin Finished
    BY <2>1, <2>2, NotFinishing, <1>i DEF OInv, PlaceInv, Posted, Pushed
  <2> QED BY <2>1, <2>2, <2>3 DEF Seen
<1>6. \A u \in Task \ {t} : Same(u)
  BY <1>1 DEF Same, Pushed
<1>7. \A u \in Task \ {t} : /\ PhaseOf(u)' = PhaseOf(u)
                            /\ Pushed(u)' <=> Pushed(u)
                            /\ Pushed(u) => Ancestors'[u] = Ancestors[u] /\ declared'[u] = declared[u]
  BY <1>6, SameSeen
<1>8. [u \in Task |-> PhaseOf(u)]' = [[u \in Task |-> PhaseOf(u)] EXCEPT ![t] = "pending"]
  BY <1>4, <1>7
<1>9. [u \in Task |-> IF Pushed(u) THEN declared[u] ELSE <<>>]'
        = [[u \in Task |-> IF Pushed(u) THEN declared[u] ELSE <<>>] EXCEPT ![t] = declared[t]]
  BY <1>1, <1>2, <1>7
<1>10. Ancestors'[t] = IF father[t] = Nil THEN {}
                       ELSE (IF Pushed(father[t]) THEN Ancestors[father[t]] ELSE {}) \cup {father[t]}
  <2>1. Ancestors'[t] = {father[t]} \ {Nil}
    BY <1>1 DEF Seen
  <2>2. CASE father[t] = Nil
    BY <2>1, <2>2
  <2>3. CASE father[t] # Nil
    <3>1. Ancestors'[t] = {father[t]}
      BY <2>1, <2>3
    <3> QED BY <1>5, <2>3, <3>1
  <2> QED BY <2>2, <2>3
<1>11. father[t] # Nil => father[t] \in Task
  BY <1>5
<1>12. [u \in Task |-> IF Pushed(u) THEN Ancestors[u] ELSE {}]'
         = [[u \in Task |-> IF Pushed(u) THEN Ancestors[u] ELSE {}] EXCEPT ![t] =
              IF father[t] = Nil THEN {}
              ELSE [u \in Task |-> IF Pushed(u) THEN Ancestors[u] ELSE {}][father[t]] \cup {father[t]}]
  BY <1>2, <1>7, <1>10, <1>11
<1>13. InWorklist' = InWorklist \cup {t}
  <2>1. InWorklist' = before'[t] \cup {t}
    BY <1>1, NilAssumption DEF InWorklist
  <2> QED BY <2>1, <1>1, <1>t
<1>14. PICK f \in Task \cup {Nil}, a \in Uses[t] : f = father[t] /\ a = declared[t]
  BY <1>1, <1>t, <1>i DEF LifeInv, Born, Pointer
<1>15. Graph!Spawn(f, t, a)
  BY <1>1, <1>4, <1>5, <1>8, <1>9, <1>12, <1>13, <1>14 DEF Graph!Spawn
<1> QED BY <1>15

LEMMA GraphStart ==
  ASSUME TwoLevel, IInv, OInv, Seen, Seen', NEW t \in Task, Start(t)
  PROVE  Graph!Start(t)
<1>t. status \in [Task -> Status] /\ run \in [Task -> RunPlace]
  BY Typed
<1>1. /\ UNCHANGED <<worklist, before, declared, father, ins>>
      /\ run[t] = "idle" /\ run' = [run EXCEPT ![t] = "body"]
      /\ status' = [status EXCEPT ![t] = "Running"] /\ queue[t] > 0
  BY DEF Start, insVars, history
<1>2. Posted(t) /\ Pushed(t) /\ Pushed(t)' /\ status[t] \notin Finished
  BY <1>1 DEF IInv, PlaceInv, Posted, Pushed
<1>3. \A u \in Task \ {t} : Same(u)
  BY <1>1, <1>t DEF Same, Pushed
<1>4. PhaseOf(t) = "pending" /\ PhaseOf(t)' = "running"
  BY <1>1, <1>2, <1>t DEF Seen, Finished
<1>5. ASSUME NEW q \in Task, q \in before[t],
             Conflicting(IF Pushed(q) THEN declared[q] ELSE <<>>, declared[t])
      PROVE  PhaseOf(q) = "finished"
  <2>1. Pushed(q)
    BY <1>5 DEF IInv, ListInv
  <2>2. status[q] \in Finished
    BY <1>2, <1>5, <2>1, OrderFacts, PostedFollows DEF IInv, OInv, CInv
  <2> QED BY <2>1, <2>2 DEF Seen
<1>6. ASSUME NEW q \in Task, Graph!MustWaitFor(t, q) PROVE PhaseOf(q) = "finished"
  <2>1. /\ q \in before[t]
        /\ Graph!Conflicting(IF Pushed(q) THEN declared[q] ELSE <<>>, declared[t])
    BY <1>2, <1>6 DEF Graph!MustWaitFor
  <2>2. Conflicting(IF Pushed(q) THEN declared[q] ELSE <<>>, declared[t])
    BY <2>1, SameConflicts
  <2> QED BY <2>1, <2>2, <1>5
<1> QED BY <1>1, <1>2, <1>3, <1>4, <1>6, GraphMove DEF Graph!Start

LEMMA GraphEndBody ==
  ASSUME TwoLevel, IInv, OInv, Seen, Seen', NEW t \in Task, EndBody(t)
  PROVE  Graph!EndBody(t)
<1>t. run \in [Task -> RunPlace]
  BY Typed
<1>1. /\ UNCHANGED <<worklist, before, declared, father, ins, status>>
      /\ run[t] = "body" /\ run'[t] \in {"mark", "out"} /\ \A u \in Task \ {t} : run'[u] = run[u]
  BY <1>t DEF EndBody, insVars, history
<1>2. Pushed(t) /\ Pushed(t)' /\ status[t] \notin Finished
  BY <1>1, NotFinishing DEF OInv, IInv, PlaceInv, Posted, Pushed
<1>3. \A u \in Task \ {t} : Same(u)
  BY <1>1 DEF Same, Pushed
<1>4. PhaseOf(t) = "running" /\ PhaseOf(t)' = "ended"
  BY <1>1, <1>2 DEF Seen
<1> QED BY <1>1, <1>2, <1>3, <1>4, GraphMove DEF Graph!EndBody

LEMMA GraphFinish ==
  ASSUME TwoLevel, IInv, OInv, Seen, Seen', NEW t \in Task, MarkDone(t)
  PROVE  current[t] \in Task /\ Graph!Finish(current[t])
<1>t. status \in [Task -> Status] /\ run \in [Task -> RunPlace] /\ nchildren \in [Task -> Int]
  BY Typed
<1>1. /\ UNCHANGED <<worklist, before, declared, father, ins>>
      /\ run[t] = "mark" /\ run' = [run EXCEPT ![t] = "load"]
      /\ status' = [status EXCEPT ![current[t]] = "Done"]
  BY DEF MarkDone, insVars, history
<1>2. PICK c \in Task : c = current[t] /\ run[c] # "idle" /\ Finishes(t, c)
  BY <1>1, FinisherFacts DEF IInv, Completing, Finishes
<1>3. Pushed(c) /\ Pushed(c)' /\ Born(c)
  BY <1>1, <1>2 DEF IInv, PlaceInv, Posted, Pushed, Born
<1>4. status[c] \notin Finished /\ run[c] # "body"
  BY <1>1, <1>2, NotFinishing DEF OInv, CInv, CompleteInv
<1>5. \A u \in Task \ {c} : Same(u)
  BY <1>1, <1>2, <1>t DEF Same, Pushed
<1>6. PhaseOf(c) = "ended" /\ PhaseOf(c)' = "finished"
  BY <1>1, <1>2, <1>3, <1>4, <1>t DEF Seen, Finished
<1>7. Owed(c) = {}
  <2>1. nchildren[c] = 0
    BY <1>2 DEF OInv, CInv, CompleteInv
  <2> QED BY <1>3, <2>1, KinFacts DEF OInv, CInv, ChildInv, Own
<1>8. ASSUME NEW d \in Task, c \in IF Pushed(d) THEN Ancestors[d] ELSE {}
      PROVE  PhaseOf(d) = "finished"
  <2>1. Pushed(d) /\ father[d] = c
    BY <1>8 DEF Seen
  <2>2. Climbed(d)
    BY <1>7, <2>1 DEF Owed
  <2>3. status[d] \in Finished
    BY <2>1, <2>2, NilAssumption DEF OInv, CInv, ChildInv, Finished
  <2> QED BY <2>1, <2>3 DEF Seen
<1> QED BY <1>1, <1>2, <1>3, <1>5, <1>6, <1>8, GraphMove DEF Graph!Finish

LEMMA GraphStep ==
  ASSUME TwoLevel, IInv, OInv, Seen, Seen', [Next]_vars
  PROVE  [Graph!Next]_Graph!vars
<1>t. /\ status \in [Task -> Status] /\ ins \in [Task -> InsPlace] /\ run \in [Task -> RunPlace]
      /\ father \in [Task -> Pointer] /\ declared \in [Task -> Seq(Region)]
  BY Typed
<1>i. LifeInv /\ PlaceInv
  BY DEF IInv, OInv, CInv
<1>1. ASSUME NEW f \in Pointer, NEW t \in Task, NEW a \in Uses[t], Spawn(f, t, a)
      PROVE  UNCHANGED Graph!vars
  <2>1. /\ UNCHANGED <<worklist, before, run>> /\ ins[t] = "unborn" /\ ins'[t] = "push"
        /\ \A u \in Task \ {t} : /\ ins'[u] = ins[u] /\ declared'[u] = declared[u]
                                 /\ father'[u] = father[u] /\ status'[u] = status[u]
    BY <1>1, <1>t DEF Spawn, runVars
  <2>2. \A u \in Task : Same(u)
    BY <2>1 DEF Same, Pushed
  <2> QED BY <2>1, <2>2, GraphStutter
<1>2. ASSUME NEW t \in Task, Push(t) PROVE Graph!Next
  BY <1>2, GraphPush DEF Graph!Next
<1>3. ASSUME NEW t \in Task,
             SkipAncestor(t) \/ Look(t) \/ Examine(t) \/ Flag(t) \/ Settle(t) \/ SetWaiting(t)
      PROVE  UNCHANGED Graph!vars
  <2>1. UNCHANGED <<worklist, before, declared, father, run>>
    BY <1>3 DEF SkipAncestor, Look, Examine, Flag, Settle, SetWaiting, itemVars, runVars, history
  <2>2. \A u \in Task : Pushed(u)' <=> Pushed(u)
    BY <1>3, <1>t DEF SkipAncestor, Look, Examine, Flag, Settle, SetWaiting, Pushed
  <2>3. Inserting(t)
    BY <1>3 DEF SkipAncestor, Look, Examine, Flag, Settle, SetWaiting, Inserting
  <2>4. status[t] \notin Finished
    BY <2>3, <1>i DEF PlaceInv, Finished
  <2>5. \A u \in Task : status'[u] = status[u] \/ (u = t /\ status'[u] \notin Finished)
    BY <1>3, <1>t DEF SkipAncestor, Look, Examine, Flag, Settle, SetWaiting, itemVars, Finished
  <2>6. \A u \in Task : Same(u)
    BY <2>1, <2>2, <2>4, <2>5 DEF Same
  <2> QED BY <2>1, <2>6, GraphStutter
<1>4. ASSUME NEW t \in Task, LoadHint(t) \/ Walk(t) \/ FreeDeps(t) \/ Release(t) \/ Climb(t)
      PROVE  UNCHANGED Graph!vars
  <2>1. UNCHANGED <<worklist, before, declared, father, ins>>
    BY <1>4 DEF LoadHint, Walk, FreeDeps, Release, Climb, itemVars, insVars, history
  <2>2. /\ run[t] \notin {"idle", "body"} /\ run'[t] \notin {"idle", "body"}
        /\ \A u \in Task \ {t} : run'[u] = run[u]
    BY <1>4, <1>t DEF LoadHint, Walk, FreeDeps, Release, Climb
  <2>3. ~ Release(t) => UNCHANGED status
    BY <1>4 DEF LoadHint, Walk, FreeDeps, Climb, itemVars
  <2>4. Release(t) => \A u \in Task : status'[u] \in Finished <=> status[u] \in Finished
    <3>1. Release(t) => status[current[t]] \in Finished
      BY DEF Release, IInv, FinishInv, FinishOK
    <3> QED BY <3>1, <1>t DEF Release, Finished
  <2>5. \A u \in Task : Same(u)
    BY <2>1, <2>2, <2>3, <2>4 DEF Same, Pushed
  <2> QED BY <2>1, <2>5, GraphStutter
<1>5. ASSUME NEW t \in Task, Drain(t) PROVE UNCHANGED Graph!vars
  <2>1. UNCHANGED <<worklist, before, declared, father, ins, run>>
    BY <1>5 DEF Drain, insVars, history
  <2>2. run[t] = "drain" /\ idep[t] <= Len(deps[current[t]])
    BY <1>5 DEF Drain
  <2>3. PICK w \in Task : current[t] = t /\ w = deps[t][idep[t]] /\ ~ Posted(w)
    BY <2>2, DrainFacts
  <2>4. status[w] \notin Finished
    BY <2>3, <1>i DEF PlaceInv, Posted
  <2>5. UNCHANGED status \/ status' = [status EXCEPT ![w] = "Ready"]
    BY <1>5, <2>3 DEF Drain
  <2>6. \A u \in Task : Same(u)
    BY <2>1, <2>4, <2>5, <1>t DEF Same, Pushed, Finished
  <2> QED BY <2>1, <2>6, GraphStutter
<1>6. ASSUME NEW t \in Task, Start(t) \/ EndBody(t) PROVE Graph!Next
  BY <1>6, GraphStart, GraphEndBody DEF Graph!Next
<1>7. ASSUME NEW t \in Task, MarkDone(t) PROVE Graph!Next
  BY <1>7, GraphFinish DEF Graph!Next
<1>8. ASSUME WaitForAll PROVE Graph!WaitForAll
  <2>1. /\ Quiescent /\ worklist' = Nil
        /\ UNCHANGED <<before, declared, father, ins, run, status>>
    BY <1>8 DEF WaitForAll, itemVars, insVars, runVars, history
  <2>2. \A u \in InWorklist : u \in Task /\ Pushed(u)
    BY Typed DEF InWorklist, IInv, ListInv, Pointer
  <2>3. \A u \in InWorklist : PhaseOf(u) = "finished"
    BY <2>1, <2>2, Quiet DEF Seen, OInv
  <2>4. \A u \in Task : Same(u)
    BY <2>1 DEF Same, Pushed
  <2>5. \A u \in Task : /\ PhaseOf(u)' = PhaseOf(u)
                        /\ Pushed(u)' <=> Pushed(u)
                        /\ Pushed(u) => Ancestors'[u] = Ancestors[u] /\ declared'[u] = declared[u]
    BY <2>4, SameSeen
  <2>6. InWorklist' = {}
    BY <2>1 DEF InWorklist
  <2> QED BY <2>1, <2>2, <2>3, <2>5, <2>6 DEF Graph!WaitForAll
<1>9. CASE UNCHANGED vars
  <2>1. UNCHANGED <<worklist, before, declared, father, ins, run, status>>
    BY <1>9 DEF vars, itemVars, insVars, runVars, history
  <2>2. \A u \in Task : Same(u)
    BY <2>1 DEF Same, Pushed
  <2> QED BY <2>1, <2>2, GraphStutter
<1>10. \A t \in Task : Insert(t) => Graph!Next \/ UNCHANGED Graph!vars
  BY <1>2, <1>3 DEF Insert, Scan
<1>11. \A t \in Task : Execute(t) => Graph!Next \/ UNCHANGED Graph!vars
  BY <1>4, <1>5, <1>6, <1>7 DEF Execute
<1> QED
  BY <1>1, <1>8, <1>9, <1>10, <1>11 DEF Next, Graph!Next

(***************************************************************************)
(* The worklist implements TaskGraph: tasks are spawned, start, finish and *)
(* are waited for as "The fine print" of doc/main.dox promises.            *)
(***************************************************************************)
THEOREM TaskGraphImplemented == ASSUME TwoLevel, Separate PROVE Spec => ImplementsTaskGraph
<1>1. Init => Graph!Init
  BY GraphInit
<1>2. IInv /\ OInv /\ IInv' /\ OInv' /\ [Next]_vars => [Graph!Next]_Graph!vars
  <2> SUFFICES ASSUME IInv, OInv, IInv', OInv', [Next]_vars PROVE [Graph!Next]_Graph!vars
    OBVIOUS
  <2>1. Seen /\ Seen'
    BY SeenNow, SeenNext DEF OInv, CInv
  <2> QED BY <2>1, GraphStep
<1> QED BY <1>1, <1>2, OrderInvariant, PTL DEF Spec, ImplementsTaskGraph, Graph!Spec

-----------------------------------------------------------------------------
(***************************************************************************)
(* TaskGraph again, with what is proved about it.                          *)
(***************************************************************************)
Promise == INSTANCE TaskGraphProofs WITH
  phase     <- [t \in Task |-> PhaseOf(t)],
  ancestors <- [t \in Task |-> IF Pushed(t) THEN Ancestors[t] ELSE {}],
  args      <- [t \in Task |-> IF Pushed(t) THEN declared[t] ELSE <<>>],
  batch     <- InWorklist

(***************************************************************************)
(* Two functions that run at the same time, neither of which is the father *)
(* of the other, were declared with arguments that do not conflict: what   *)
(* a program declares, the library keeps free of races.                    *)
(***************************************************************************)
NoRaces ==
  \A t, u \in Task :
     t # u /\ run[t] = "body" /\ run[u] = "body" /\ father[t] # u /\ father[u] # t
       => ~ Conflicting(declared[t], declared[u])

LEMMA SamePromise ==
  /\ Graph!Init <=> Promise!Init
  /\ [Graph!Next]_Graph!vars <=> [Promise!Next]_Promise!vars
<1>1. Graph!Init <=> Promise!Init
  BY DEF Graph!Init, Promise!Init
<1>2. \A a, b : Graph!Conflicting(a, b) <=> Promise!Conflicting(a, b)
  BY DEF Graph!Conflicting, Graph!Written, Graph!Accessed, Graph!Cells, Graph!is_array,
     Promise!Conflicting, Promise!Written, Promise!Accessed, Promise!Cells, Promise!is_array
<1>3. ASSUME NEW f, NEW t, NEW a PROVE Graph!Spawn(f, t, a) <=> Promise!Spawn(f, t, a)
  BY DEF Graph!Spawn, Promise!Spawn
<1>4. ASSUME NEW t PROVE Graph!Start(t) <=> Promise!Start(t)
  BY <1>2 DEF Graph!Start, Promise!Start, Graph!MustWaitFor, Promise!MustWaitFor
<1>5. ASSUME NEW t PROVE /\ Graph!EndBody(t) <=> Promise!EndBody(t)
                         /\ Graph!Finish(t) <=> Promise!Finish(t)
  BY DEF Graph!EndBody, Promise!EndBody, Graph!Finish, Promise!Finish
<1>6. Graph!WaitForAll <=> Promise!WaitForAll
  BY DEF Graph!WaitForAll, Promise!WaitForAll
<1>7. Graph!vars = Promise!vars /\ Graph!vars' = Promise!vars'
  BY DEF Graph!vars, Promise!vars
<1>8. Graph!Next <=> Promise!Next
  BY <1>3, <1>4, <1>5, <1>6 DEF Graph!Next, Promise!Next
<1> QED BY <1>1, <1>7, <1>8

THEOREM FreeOfRaces == ASSUME TwoLevel, Separate PROVE Spec => []NoRaces
<1>1. Spec => Promise!Spec
  BY TaskGraphImplemented, SamePromise, PTL
  DEF ImplementsTaskGraph, Graph!Spec, Promise!Spec
<1>2. Spec => []Promise!NoRace
  BY <1>1, Promise!RaceFreedom, PTL
<1>3. IInv /\ OInv /\ Promise!NoRace => NoRaces
  <2> SUFFICES ASSUME IInv, OInv, Promise!NoRace, NEW t \in Task, NEW u \in Task, t # u,
                      run[t] = "body", run[u] = "body", father[t] # u, father[u] # t
               PROVE  ~ Conflicting(declared[t], declared[u])
    BY DEF NoRaces
  <2>1. \A v \in {t, u} : Pushed(v) /\ status[v] \notin Finished
    BY NotFinishing DEF OInv, IInv, PlaceInv, Posted, Pushed
  <2>2. Seen
    BY SeenNow DEF OInv, CInv
  <2>3. PhaseOf(t) = "running" /\ PhaseOf(u) = "running"
    BY <2>1, <2>2 DEF Seen
  <2>4. ~ Promise!Related(t, u)
    BY <2>1, <2>2 DEF Promise!Related, Seen
  <2>5. ~ Promise!Conflicting(declared[t], declared[u])
    BY <2>1, <2>3, <2>4 DEF Promise!NoRace
  <2>6. Promise!Conflicting(declared[t], declared[u]) <=> Conflicting(declared[t], declared[u])
    BY DEF Conflicting, Written, Accessed, Cells, is_array,
       Promise!Conflicting, Promise!Written, Promise!Accessed, Promise!Cells, Promise!is_array
  <2> QED BY <2>5, <2>6
<1> QED BY <1>2, <1>3, OrderInvariant, PTL
=============================================================================
