----------------------------- MODULE MCObserver -----------------------------
(***************************************************************************)
(* Small programs for Observer.                                            *)
(***************************************************************************)
EXTENDS Observer, MCReclaim

Nobody == {}
NoScope == [f \in Pointer |-> {}]
First == [f \in Pointer |-> TRUE]        \* the default
Any == [f \in Pointer |-> FALSE]

(***************************************************************************)
(* Waiting in the deep program: t2 has t3 in the scope of an observer, or  *)
(* calls wait_for_subtasks; t3, which may be spawning meanwhile, calls     *)
(* wait_for, whose task is t4.                                             *)
(***************************************************************************)
DeepObserved == [f \in Pointer |-> IF f = t2 THEN {<<0, 1>>} ELSE {}]
DeepJoined == [f \in Pointer |-> IF f = t2 THEN {1} ELSE {}]
DeepAwaited == {t4}

(***************************************************************************)
(* Trio: the main thread spawns t1 in the scope of an observer.  t1 spawns *)
(* t2 and waits for x, with the task t3, and then for its subtasks.        *)
(***************************************************************************)
TrioTask == {t1, t2, t3}
TrioBody ==
  [f \in Pointer |-> CASE f = Nil -> <<t1>>
                       [] f = t1 -> <<t2, t3>>
                       [] OTHER -> <<>>]
TrioUses ==
  [t \in TrioTask |-> CASE t = t1 -> {<<>>}
                        [] t = t2 -> {<<W(x)>>}
                        [] t = t3 -> {<<R(x)>>}]
TrioObserved == [f \in Pointer |-> IF f = Nil THEN {<<0, 1>>} ELSE {}]
TrioJoined == [f \in Pointer |-> IF f = t1 THEN {2} ELSE {}]
TrioAwaited == {t3}

(***************************************************************************)
(* The same tasks, but t1 builds an observer between t2 and t3, and who    *)
(* finishes t2 may erase.                                                  *)
(***************************************************************************)
InsideObserved == [f \in Pointer |-> IF f = t1 THEN {<<1, 2>>} ELSE {}]
LuckySecond == {t2}

(***************************************************************************)
(* Two tasks of the main thread that wait for a subtask each; that of the  *)
(* second one, t4, writes what the first one does.                         *)
(***************************************************************************)
CrossTask == {t1, t2, t3, t4}
CrossBody ==
  [f \in Pointer |-> CASE f = Nil -> <<t1, t2>>
                       [] f = t1 -> <<t3>>
                       [] f = t2 -> <<t4>>
                       [] OTHER -> <<>>]
CrossUses == [t \in CrossTask |-> IF t \in {t1, t4} THEN {<<W(x)>>} ELSE {<<>>}]
CrossJoined == [f \in Pointer |-> IF f \in {t1, t2} THEN {1} ELSE {}]
=============================================================================
