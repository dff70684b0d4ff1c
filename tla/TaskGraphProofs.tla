--------------------------- MODULE TaskGraphProofs ---------------------------
(***************************************************************************)
(* The documented order of execution is enough for the absence of races:   *)
(* this is what a program gets from "The fine print" of doc/main.dox,      *)
(* whatever its tasks are.                                                 *)
(***************************************************************************)
EXTENDS TaskGraph, TLAPS

TypeInv ==
  /\ phase \in [Task -> Phase]
  /\ ancestors \in [Task -> SUBSET (Task \cup {Nil})]
  /\ args \in [Task -> (UNION { Uses[t] : t \in Task }) \cup {<<>>}]
  /\ before \in [Task -> SUBSET Task]
  /\ batch \subseteq Task

Born(t) == phase[t] # "unborn"

(***************************************************************************)
(* The tasks that have not finished were all spawned after the last wait,  *)
(* so of two of them one was spawned before the other; and a task only     *)
(* started with all those it must wait for finished.                       *)
(***************************************************************************)
OrderInv ==
  /\ \A t \in batch : Born(t)
  /\ \A t \in Task : Born(t) /\ phase[t] # "finished" => t \in batch
  /\ \A t \in Task : \A q \in before[t] : Born(q)
  /\ \A t, u \in Task :
        t # u /\ Born(t) /\ Born(u) =>
           \/ t \in before[u] \/ u \in before[t]
           \/ phase[t] = "finished" \/ phase[u] = "finished"
  /\ \A t, q \in Task :
        phase[t] \in {"running", "ended", "finished"} /\ MustWaitFor(t, q) =>
           phase[q] = "finished"

LEMMA OrderInit == Init => TypeInv /\ OrderInv
<1> SUFFICES ASSUME Init PROVE TypeInv /\ OrderInv
  OBVIOUS
<1>1. args \in [Task -> (UNION { Uses[t] : t \in Task }) \cup {<<>>}]
  BY DEF Init
<1>2. TypeInv
  BY <1>1 DEF Init, TypeInv, Phase
<1>3. OrderInv
  BY DEF Init, OrderInv, Born
<1> QED BY <1>2, <1>3

LEMMA OrderStep == TypeInv /\ OrderInv /\ [Next]_vars => TypeInv' /\ OrderInv'
<1> SUFFICES ASSUME TypeInv, OrderInv, [Next]_vars PROVE TypeInv' /\ OrderInv'
  OBVIOUS
<1>1. ASSUME NEW f \in Task \cup {Nil}, NEW t \in Task, NEW a \in Uses[t], Spawn(f, t, a)
      PROVE  TypeInv' /\ OrderInv'
  <2>1. \A u \in Task \ {t} : /\ phase'[u] = phase[u] /\ ancestors'[u] = ancestors[u]
                              /\ args'[u] = args[u] /\ before'[u] = before[u]
    BY <1>1 DEF Spawn, TypeInv
  <2>2. /\ ~ Born(t) /\ phase'[t] = "pending" /\ before'[t] = batch
        /\ batch' = batch \cup {t}
    BY <1>1 DEF Spawn, TypeInv, Born
  <2>3. TypeInv'
    <3>1. f # Nil => ancestors[f] \subseteq Task \cup {Nil}
      BY DEF TypeInv
    <3>2. phase' \in [Task -> Phase] /\ before' \in [Task -> SUBSET Task] /\ batch' \subseteq Task
      BY <1>1 DEF Spawn, TypeInv, Phase
    <3>3. ancestors' \in [Task -> SUBSET (Task \cup {Nil})]
      BY <1>1, <3>1 DEF Spawn, TypeInv
    <3>4. args' \in [Task -> (UNION { Uses[u] : u \in Task }) \cup {<<>>}]
      BY <1>1 DEF Spawn, TypeInv
    <3> QED BY <3>2, <3>3, <3>4 DEF TypeInv
  <2>4. /\ \A u \in batch' : Born(u)'
        /\ \A u \in Task : Born(u)' /\ phase'[u] # "finished" => u \in batch'
        /\ \A u \in Task : \A q \in before'[u] : Born(q)'
    BY <2>1, <2>2 DEF TypeInv, OrderInv, Born
  <2>5. \A v, u \in Task :
           v # u /\ Born(v)' /\ Born(u)' =>
              \/ v \in before'[u] \/ u \in before'[v]
              \/ phase'[v] = "finished" \/ phase'[u] = "finished"
    BY <2>1, <2>2 DEF TypeInv, OrderInv, Born
  <2>6. ASSUME NEW v \in Task, NEW q \in Task,
               phase'[v] \in {"running", "ended", "finished"}, MustWaitFor(v, q)'
        PROVE  phase'[q] = "finished"
    <3>1. v # t
      BY <2>2, <2>6
    <3>2. q \in before[v]
      BY <2>1, <2>6, <3>1 DEF MustWaitFor
    <3>3. q # t
      BY <2>2, <3>2 DEF OrderInv
    <3>4. MustWaitFor(v, q)
      BY <2>1, <2>6, <3>1, <3>3 DEF MustWaitFor
    <3> QED BY <2>1, <2>6, <3>1, <3>3, <3>4 DEF OrderInv
  <2> QED BY <2>3, <2>4, <2>5, <2>6 DEF OrderInv
<1>2. ASSUME NEW t \in Task, NEW s \in {"running", "ended", "finished"},
             Start(t) \/ EndBody(t) \/ Finish(t),
             phase' = [phase EXCEPT ![t] = s]
      PROVE  TypeInv' /\ OrderInv'
  <2>1. UNCHANGED <<ancestors, args, before, batch>>
    BY <1>2 DEF Start, EndBody, Finish
  <2>2. /\ phase[t] \notin {"unborn", "finished"} /\ phase'[t] = s
        /\ \A u \in Task \ {t} : phase'[u] = phase[u]
    BY <1>2 DEF Start, EndBody, Finish, TypeInv
  <2>3. TypeInv'
    BY <1>2, <2>1 DEF TypeInv, Phase
  <2>4. \A v, q \in Task : MustWaitFor(v, q)' <=> MustWaitFor(v, q)
    BY <2>1 DEF MustWaitFor
  <2>5. phase[t] = "pending" => \A q \in Task : MustWaitFor(t, q) => phase[q] = "finished"
    BY <1>2 DEF Start, EndBody, Finish
  <2>6. phase[t] \in {"pending", "running", "ended"}
    BY <2>2 DEF TypeInv, Phase
  <2>7. ASSUME NEW v \in Task, NEW q \in Task,
               phase'[v] \in {"running", "ended", "finished"}, MustWaitFor(v, q)'
        PROVE  phase'[q] = "finished"
    <3>1. phase[q] = "finished"
      BY <2>2, <2>4, <2>5, <2>6, <2>7 DEF OrderInv
    <3> QED BY <2>2, <3>1
  <2>8. /\ \A u \in batch' : Born(u)'
        /\ \A u \in Task : Born(u)' /\ phase'[u] # "finished" => u \in batch'
        /\ \A u \in Task : \A q \in before'[u] : Born(q)'
    BY <2>1, <2>2 DEF TypeInv, OrderInv, Born
  <2>9. \A v, u \in Task :
           v # u /\ Born(v)' /\ Born(u)' =>
              \/ v \in before'[u] \/ u \in before'[v]
              \/ phase'[v] = "finished" \/ phase'[u] = "finished"
    BY <2>1, <2>2 DEF OrderInv, Born
  <2> QED BY <2>3, <2>7, <2>8, <2>9 DEF OrderInv
<1>3. ASSUME NEW t \in Task, Start(t) \/ EndBody(t) \/ Finish(t) PROVE TypeInv' /\ OrderInv'
  BY <1>2, <1>3 DEF Start, EndBody, Finish
<1>4. CASE WaitForAll
  BY <1>4 DEF WaitForAll, TypeInv, OrderInv, Born, MustWaitFor
<1>5. CASE UNCHANGED vars
  BY <1>5 DEF vars, TypeInv, OrderInv, Born, MustWaitFor
<1> QED
  BY <1>1, <1>3, <1>4, <1>5 DEF Next

(***************************************************************************)
(* Tasks that the documented order lets execute at the same time have no   *)
(* conflicting arguments, unless one descends from the other.              *)
(***************************************************************************)
THEOREM RaceFreedom == Spec => []NoRace
<1>1. TypeInv /\ OrderInv => NoRace
  <2> SUFFICES ASSUME OrderInv, NEW t \in Task, NEW u \in Task, t # u,
                      phase[t] = "running", phase[u] = "running", ~ Related(t, u)
               PROVE  ~ Conflicting(args[t], args[u])
    BY DEF NoRace
  <2>1. t \in before[u] \/ u \in before[t]
    BY DEF OrderInv, Born
  <2>2. Conflicting(args[t], args[u]) <=> Conflicting(args[u], args[t])
    BY DEF Conflicting
  <2>3. CASE t \in before[u]
    <3>1. ~ MustWaitFor(u, t)
      BY DEF OrderInv
    <3> QED BY <2>3, <3>1 DEF MustWaitFor, Related
  <2>4. CASE u \in before[t]
    <3>1. ~ MustWaitFor(t, u)
      BY DEF OrderInv
    <3> QED BY <2>2, <2>4, <3>1 DEF MustWaitFor, Related
  <2> QED BY <2>1, <2>3, <2>4
<1> QED BY <1>1, OrderInit, OrderStep, PTL DEF Spec
=============================================================================
