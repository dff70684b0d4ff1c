------------------------------ MODULE TaskGraph ------------------------------
(***************************************************************************)
(* What DepSpawn promises about the execution of tasks, after "The fine    *)
(* print" of doc/main.dox:                                                 *)
(*                                                                         *)
(*   - a task only starts when every preceding task with a conflicting     *)
(*     argument has finished;                                              *)
(*   - the preceding tasks are all those spawned before it, by any thread; *)
(*   - a task finishes only when all its subtasks have;                    *)
(*   - wait_for_all returns when all the spawned tasks have finished.      *)
(*                                                                         *)
(* A task never waits for its own ancestors (test_donot_wait_for_ancestors *)
(* checks it), since they only finish after it.                            *)
(***************************************************************************)
EXTENDS ArgInfo

CONSTANTS Task,    \* the tasks of the program
          Nil,     \* the main thread, as the father of a task
          Uses     \* Uses[t]: the argument lists t may be spawned with

VARIABLES phase,      \* where each task is in its life
          ancestors,  \* the tasks a task descends from
          args,       \* its argument list
          before,     \* the tasks spawned before it and after the last wait
          batch       \* the tasks spawned since the last wait

vars == <<phase, ancestors, args, before, batch>>

Phase == {"unborn", "pending", "running", "ended", "finished"}

Init ==
  /\ phase = [t \in Task |-> "unborn"]
  /\ ancestors = [t \in Task |-> {}]
  /\ args = [t \in Task |-> <<>>]
  /\ before = [t \in Task |-> {}]
  /\ batch = {}

(***************************************************************************)
(* Task f, or the main thread when f is Nil, spawns t with arguments a.    *)
(***************************************************************************)
Spawn(f, t, a) ==
  /\ phase[t] = "unborn"
  /\ f # Nil => phase[f] = "running"
  /\ phase' = [phase EXCEPT ![t] = "pending"]
  /\ ancestors' = [ancestors EXCEPT ![t] = IF f = Nil THEN {} ELSE ancestors[f] \cup {f}]
  /\ args' = [args EXCEPT ![t] = a]
  /\ before' = [before EXCEPT ![t] = batch]
  /\ batch' = batch \cup {t}

MustWaitFor(t, q) ==
  /\ q \in before[t] \ ancestors[t]
  /\ Conflicting(args[q], args[t])

Start(t) ==
  /\ phase[t] = "pending"
  /\ \A q \in Task : MustWaitFor(t, q) => phase[q] = "finished"
  /\ phase' = [phase EXCEPT ![t] = "running"]
  /\ UNCHANGED <<ancestors, args, before, batch>>

EndBody(t) ==
  /\ phase[t] = "running"
  /\ phase' = [phase EXCEPT ![t] = "ended"]
  /\ UNCHANGED <<ancestors, args, before, batch>>

Finish(t) ==
  /\ phase[t] = "ended"
  /\ \A c \in Task : t \in ancestors[c] => phase[c] = "finished"
  /\ phase' = [phase EXCEPT ![t] = "finished"]
  /\ UNCHANGED <<ancestors, args, before, batch>>

WaitForAll ==
  /\ \A t \in batch : phase[t] = "finished"
  /\ batch' = {}
  /\ UNCHANGED <<phase, ancestors, args, before>>

Next ==
  \/ \E f \in Task \cup {Nil}, t \in Task : \E a \in Uses[t] : Spawn(f, t, a)
  \/ \E t \in Task : Start(t) \/ EndBody(t) \/ Finish(t)
  \/ WaitForAll

Spec == Init /\ [][Next]_vars

-----------------------------------------------------------------------------
Related(t, u) == t \in ancestors[u] \/ u \in ancestors[t]

(***************************************************************************)
(* Two tasks that execute at the same time, neither an ancestor of the     *)
(* other, have no conflicting arguments: the programs are free of races on *)
(* what the tasks declare.                                                 *)
(***************************************************************************)
NoRace ==
  \A t, u \in Task :
     /\ t # u
     /\ phase[t] = "running"
     /\ phase[u] = "running"
     /\ ~ Related(t, u)
     => ~ Conflicting(args[t], args[u])
=============================================================================
