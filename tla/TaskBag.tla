------------------------------- MODULE TaskBag -------------------------------
(***************************************************************************)
(* What a pool of threads promises to those who enqueue tasks in it: each  *)
(* is run once, by some thread, and wait returns when all of them have     *)
(* been.  Worklist relies on this: its queue is such a bag.                *)
(***************************************************************************)
CONSTANT Task

VARIABLES ready,    \* the tasks enqueued and not taken yet
          running,  \* those being run
          done,     \* those that were
          open      \* whether the pool takes tasks: not from wait to launch

vars == <<ready, running, done, open>>

Init == ready = {} /\ running = {} /\ done = {} /\ open = FALSE

Enqueue(t) ==
  /\ open /\ t \notin ready \cup running \cup done
  /\ ready' = ready \cup {t}
  /\ UNCHANGED <<running, done, open>>

Take(t) ==
  /\ t \in ready
  /\ ready' = ready \ {t}
  /\ running' = running \cup {t}
  /\ UNCHANGED <<done, open>>

End(t) ==
  /\ t \in running
  /\ running' = running \ {t}
  /\ done' = done \cup {t}
  /\ UNCHANGED <<ready, open>>

WaitReturns ==
  /\ open /\ ready = {} /\ running = {}
  /\ open' = FALSE
  /\ UNCHANGED <<ready, running, done>>

Launch == ~ open /\ open' = TRUE /\ UNCHANGED <<ready, running, done>>

Next ==
  \/ \E t \in Task : Enqueue(t) \/ Take(t) \/ End(t)
  \/ WaitReturns \/ Launch

Spec == Init /\ [][Next]_vars
=============================================================================
