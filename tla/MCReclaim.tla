----------------------------- MODULE MCReclaim -----------------------------
(***************************************************************************)
(* Small programs for Reclaim: those of MCWorklist, with the items whose   *)
(* address may make who finishes them the eraser.                          *)
(***************************************************************************)
EXTENDS Reclaim, MCWorklist

(***************************************************************************)
(* In the nested program: the father, or one of its subtasks.              *)
(***************************************************************************)
LuckyFather == {t1}
LuckyChild == {t3}

(***************************************************************************)
(* Family: t1, without arguments, spawns three tasks; two of them may      *)
(* erase, one after the other, and the third reuse what they freed.        *)
(***************************************************************************)
FamilyTask == {t1, t2, t3, t4}
FamilyBody ==
  [f \in Pointer |-> CASE f = Nil -> <<t1>>
                       [] f = t1 -> <<t2, t3, t4>>
                       [] OTHER -> <<>>]
FamilyUses ==
  [t \in FamilyTask |-> CASE t = t1 -> {<<>>}
                          [] t = t2 -> {<<W(x)>>}
                          [] t = t3 -> {<<W(y)>>}
                          [] t = t4 -> {<<R(x), W(y)>>}]
LuckyFamily == {t2, t3}

(***************************************************************************)
(* Again: t2 spawns t1, t3 and t5, one after the other, while the main     *)
(* thread inserts t4.  Nobody has arguments, and who finishes t3 may erase *)
(* t1, whose block t5 may get.                                             *)
(***************************************************************************)
AgainTask == {t1, t2, t3, t4, t5}
AgainBody ==
  [f \in Pointer |-> CASE f = Nil -> <<t2, t4>>
                       [] f = t2 -> <<t1, t3, t5>>
                       [] OTHER -> <<>>]
AgainUses == [t \in AgainTask |-> {<<>>}]
=============================================================================
