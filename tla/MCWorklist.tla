----------------------------- MODULE MCWorklist -----------------------------
(***************************************************************************)
(* Small programs for Worklist, over the scalars x and y.                  *)
(***************************************************************************)
EXTENDS Worklist

CONSTANTS t1, t2, t3, t4, t5    \* the tasks of the programs

R(v) == Scalar(v, 1, FALSE)
W(v) == Scalar(v, 1, TRUE)
x == 0
y == 1

(***************************************************************************)
(* Flat: the main thread spawns three tasks that read or write x and y.    *)
(***************************************************************************)
FlatTask == {t1, t2, t3}
FlatBody == [f \in Pointer |-> IF f = Nil THEN <<t1, t2, t3>> ELSE <<>>]
FlatUses == [t \in FlatTask |-> {<<W(x)>>, <<R(x)>>, <<R(x), W(y)>>}]

(***************************************************************************)
(* Nested: t1 has no arguments and spawns t3 and t4, while the main thread *)
(* spawns t2: two threads insert tasks at the same time.                   *)
(***************************************************************************)
NestedTask == {t1, t2, t3, t4}
NestedBody ==
  [f \in Pointer |-> CASE f = Nil -> <<t1, t2>>
                       [] f = t1 -> <<t3, t4>>
                       [] OTHER -> <<>>]
NestedUses ==
  [t \in NestedTask |-> CASE t = t1 -> {<<>>}
                          [] t \in {t2, t3} -> {<<W(x)>>}
                          [] t = t4 -> {<<W(x)>>, <<R(x)>>}]

(***************************************************************************)
(* Deep: t1 spawns t2, which spawns t3, which spawns t4.  A search for     *)
(* dependencies goes past ancestors, and ends at one if the arguments lie  *)
(* within those of its father: that of t3 at t2.                           *)
(***************************************************************************)
DeepTask == {t1, t2, t3, t4, t5}
DeepBody ==
  [f \in Pointer |-> CASE f = Nil -> <<t5, t1>>
                       [] f = t1 -> <<t2>>
                       [] f = t2 -> <<t3>>
                       [] f = t3 -> <<t4>>
                       [] OTHER -> <<>>]
DeepUses ==
  [t \in DeepTask |-> CASE t = t1 -> {<<W(x)>>}
                        [] t = t2 -> {<<>>}
                        [] t = t3 -> {<<W(x)>>}
                        [] t = t4 -> {<<R(x), R(y)>>}
                        [] t = t5 -> {<<W(x)>>}]

(***************************************************************************)
(* Siblings: the main thread spawns t1 and t2, and t1 spawns t3, which all *)
(* write x.                                                                *)
(***************************************************************************)
SiblingTask == {t1, t2, t3}
SiblingBody ==
  [f \in Pointer |-> CASE f = Nil -> <<t1, t2>>
                       [] f = t1 -> <<t3>>
                       [] OTHER -> <<>>]
SiblingUses == [t \in SiblingTask |-> {<<W(x)>>}]

(***************************************************************************)
(* Between: t1 spawns t2 and then t3, which has no arguments and spawns    *)
(* t4.  The search of t4 ends at t3, as t1 writes what it does.            *)
(***************************************************************************)
BetweenTask == {t1, t2, t3, t4}
BetweenBody ==
  [f \in Pointer |-> CASE f = Nil -> <<t1>>
                       [] f = t1 -> <<t2, t3>>
                       [] f = t3 -> <<t4>>
                       [] OTHER -> <<>>]
BetweenUses == [t \in BetweenTask |-> IF t = t3 THEN {<<>>} ELSE {<<W(x)>>}]

(***************************************************************************)
(* The program Siblings, but t3 has an argument of its own.                    *)
(***************************************************************************)
AsideUses == [t \in SiblingTask |-> IF t = t3 THEN {<<W(y)>>} ELSE {<<W(x)>>}]
=============================================================================
