------------------------------- MODULE ArgInfo -------------------------------
(***************************************************************************)
(* The memory regions tasks declare (struct arg_info) and the comparisons  *)
(* the runtime makes between the argument lists of two tasks.  An argument *)
(* list is a sequence of regions in increasing order of address, the way   *)
(* arg_info objects are chained by their next field.                       *)
(***************************************************************************)
EXTENDS Integers, Sequences

(***************************************************************************)
(* A region: addr and size in bytes, wr when the task may write it, and    *)
(* for arrays the extent <<low, high>> of each dimension.  rank is the     *)
(* length of range, and it is 0 for everything that is not an array.       *)
(***************************************************************************)
Region == [addr : Nat, size : Nat \ {0}, wr : BOOLEAN, range : Seq(Int \X Int)]

Scalar(addr, size, wr) ==
  [addr |-> addr, size |-> size, wr |-> wr, range |-> <<>>]

is_array(a) == a.range # <<>>

overlaps_intervals(s1, e1, s2, e2) == IF s1 <= s2 THEN s2 <= e1 ELSE s1 <= e2

overlaps(a, b) ==
  overlaps_intervals(a.addr, a.addr + a.size - 1, b.addr, b.addr + b.size - 1)

contains_intervals(s1, e1, s2, e2) == s1 <= s2 /\ e2 <= e1

contains(a, b) ==
  contains_intervals(a.addr, a.addr + a.size, b.addr, b.addr + b.size)

(***************************************************************************)
(* The elements of argument list args from position i on that describe the *)
(* same array as a: the do-while loops of overlap_array and                *)
(* is_contained_array visit them while the address does not change.        *)
(***************************************************************************)
SameArray(a, args, i) ==
  { k \in i .. Len(args) : \A m \in i .. k : args[m].addr = a.addr }

overlap_array(a, args, i) ==
  \E k \in SameArray(a, args, i) :
     /\ a.wr \/ args[k].wr
     /\ \A d \in DOMAIN a.range :
           overlaps_intervals(a.range[d][1], a.range[d][2],
                              args[k].range[d][1], args[k].range[d][2])

is_contained_array(a, args, i) ==
  \E k \in SameArray(a, args, i) :
     \A d \in DOMAIN a.range :
        contains_intervals(args[k].range[d][1], args[k].range[d][2],
                           a.range[d][1], a.range[d][2])

-----------------------------------------------------------------------------
(***************************************************************************)
(* The comparison of a new task's list argv with the list args of a task   *)
(* already in the worklist.  Both lists are walked once, as in a merge.    *)
(***************************************************************************)
Conflict(args, i, w) ==
  IF is_array(w)
  THEN args[i].addr = w.addr /\ overlap_array(w, args, i)
  ELSE (args[i].wr \/ w.wr) /\ overlaps(args[i], w)

NoConflict == <<0, 0>>

(***************************************************************************)
(* The walk from the first regions of two lists that are not empty.        *)
(***************************************************************************)
MergeWalk(args, argv) ==
  LET walk[p \in (1 .. Len(args) + 1) \X (1 .. Len(argv) + 1)] ==
        LET i == p[1]
            j == p[2]
        IN  IF i > Len(args) \/ j > Len(argv) THEN NoConflict
            ELSE IF Conflict(args, i, argv[j]) THEN p
            ELSE IF args[i].addr < argv[j].addr THEN walk[<<i + 1, j>>]
            ELSE walk[<<i, j + 1>>]
  IN  walk[<<1, 1>>]

(***************************************************************************)
(* Mutation of the walk: the list of the older task never advances, so     *)
(* only its first region is ever compared.                                 *)
(***************************************************************************)
FirstConflict_StuckOnFirst(args, argv) ==
  IF args = <<>> THEN NoConflict
  ELSE LET hits == { j \in DOMAIN argv : Conflict(args, 1, argv[j]) }
       IN  IF hits = {} THEN NoConflict ELSE <<1, CHOOSE j \in hits : TRUE>>

(***************************************************************************)
(* FirstConflict(args, argv) = <<i, j>> when the walk stops at args[i] and *)
(* argv[j], NoConflict when it exhausts one of the lists.                  *)
(***************************************************************************)
FirstConflict(args, argv) ==
  IF args = <<>> \/ argv = <<>> THEN NoConflict ELSE MergeWalk(args, argv)

(***************************************************************************)
(* After a dependency on args[i] was found for argv[j], argv[j] needs no   *)
(* further comparison with older tasks if args[i] is written and covers    *)
(* it.                                                                     *)
(***************************************************************************)
Covered(args, i, w) ==
  /\ args[i].wr
  /\ IF is_array(w) THEN is_contained_array(w, args, i) ELSE contains(args[i], w)

(***************************************************************************)
(* The array argv without its element j: the ones after it move down.      *)
(***************************************************************************)
Without(argv, j) ==
  [k \in 1 .. Len(argv) - 1 |-> argv[IF k < j THEN k ELSE k + 1]]

(***************************************************************************)
(* Mutation of the removal: a region of the older task that is only read   *)
(* is taken to cover as well.                                              *)
(***************************************************************************)
RemoveCovered_IgnoreWr(args, argv, hit) ==
  IF hit # NoConflict /\ contains(args[hit[1]], argv[hit[2]])
  THEN Without(argv, hit[2])
  ELSE argv

RemoveCovered(args, argv, hit) ==
  IF hit # NoConflict /\ Covered(args, hit[1], argv[hit[2]])
  THEN Without(argv, hit[2])
  ELSE argv

(***************************************************************************)
(* Mutation of is_contained: it stops looking at the first region of the   *)
(* ancestor that holds one of the task.                                    *)
(***************************************************************************)
is_contained_FirstHit(argsW, argsA) ==
  argsW # <<>> =>
     \E i \in DOMAIN argsA :
        /\ argsA[i].addr <= argsW[1].addr
        /\ argsW[1].addr + argsW[1].size <= argsA[i].addr + argsA[i].size

(***************************************************************************)
(* is_contained(argsW, argsA): whether every region of a task lies within  *)
(* the regions of one of its ancestors.  It does not look at wr.           *)
(***************************************************************************)
is_contained(argsW, argsA) ==
  LET walk[p \in (1 .. Len(argsA) + 1) \X (1 .. Len(argsW) + 1)] ==
        LET i == p[1]
            j == p[2]
        IN  IF i > Len(argsA) \/ j > Len(argsW) THEN j > Len(argsW)
            ELSE IF argsW[j].addr < argsA[i].addr THEN FALSE
            ELSE IF IF is_array(argsW[j])
                    THEN argsA[i].addr = argsW[j].addr
                    ELSE argsW[j].addr + argsW[j].size <= argsA[i].addr + argsA[i].size
                 THEN /\ is_array(argsW[j]) => is_contained_array(argsW[j], argsA, i)
                      /\ walk[<<i, j + 1>>]
                 ELSE walk[<<i + 1, j>>]
  IN  walk[<<1, 1>>]

-----------------------------------------------------------------------------
(***************************************************************************)
(* What the comparisons are meant to decide, byte by byte (element by      *)
(* element for arrays): the reference definitions.                         *)
(***************************************************************************)
Cells(a) ==
  IF is_array(a)
  THEN LET extent(d) == a.range[d][1] .. a.range[d][2]
           indices == [DOMAIN a.range -> UNION { extent(d) : d \in DOMAIN a.range }]
       IN  { <<a.addr, f>> : f \in { g \in indices : \A d \in DOMAIN g : g[d] \in extent(d) } }
  ELSE { <<b, <<>>>> : b \in a.addr .. a.addr + a.size - 1 }

Accessed(args) == UNION { Cells(args[i]) : i \in DOMAIN args }

Written(args) == UNION { Cells(args[i]) : i \in { k \in DOMAIN args : args[k].wr } }

(***************************************************************************)
(* Two argument lists conflict when one writes a cell the other accesses.  *)
(***************************************************************************)
Conflicting(a, b) ==
  \/ Written(a) \cap Accessed(b) # {}
  \/ Accessed(a) \cap Written(b) # {}
=============================================================================
