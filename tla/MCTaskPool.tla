----------------------------- MODULE MCTaskPool -----------------------------
(***************************************************************************)
(* A program for TaskPool: a task of each priority enqueues two others of  *)
(* the same, so that both queues, of a single position, get full.          *)
(***************************************************************************)
EXTENDS TaskPool

CONSTANTS a, b, c, d, e, g

MCTask == {a, b, c, d, e, g}
MCKids ==
  [t \in MCTask \cup {Main} |->
     CASE t = Main -> <<a, b>>
       [] t = a -> <<c, d>>
       [] t = b -> <<e, g>>
       [] OTHER -> <<>>]
MCHp == {b, e, g}
MCSoft == {a}
=============================================================================
