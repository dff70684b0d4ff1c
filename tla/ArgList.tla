------------------------------- MODULE ArgList -------------------------------
(***************************************************************************)
(* How spawn builds the argument lists (fill_args and                      *)
(* arg_info::insert_in_arglist), and what the comparisons of ArgInfo       *)
(* decide about two lists built that way.                                  *)
(*                                                                         *)
(* The module builds the lists of two tasks: "old", already in the         *)
(* worklist, and "new", being inserted.  Each call of fill_args takes the  *)
(* next actual argument of one of the two spawns.                          *)
(***************************************************************************)
EXTENDS ArgInfo, FiniteSets

CONSTANTS Actual,     \* the regions an actual argument may have
          MaxArgs     \* MaxArgs[s]: the arguments the spawn of side s may pass

Side == {"old", "new"}

ASSUME ActualAssumption == Actual \subseteq Region
ASSUME MaxArgsAssumption == MaxArgs \in [Side -> Nat]

VARIABLES args,      \* the argument list of each task
          nargs,     \* what fill_args returned: the arguments it processed
          actuals    \* history: the regions those arguments have

vars == <<args, nargs, actuals>>

-----------------------------------------------------------------------------
(***************************************************************************)
(* Mutation of solve_overlap: the remainder of the split region is lost.   *)
(***************************************************************************)
solve_overlap_LoseRest(list, k, a) ==
  LET other == list[k]
      orwr  == a.wr \/ other.wr
  IN  [list |-> [list EXCEPT ![k].wr = orwr], rest |-> {}]

(***************************************************************************)
(* Mutation of solve_overlap: the size of list[k] is overwritten before    *)
(* that of the remainder is computed from it.                              *)
(***************************************************************************)
solve_overlap_Swapped(list, k, a) ==
  LET other == list[k]
      orwr  == a.wr \/ other.wr
  IN  IF a.size < other.size /\ orwr # other.wr
      THEN [list |-> [list EXCEPT ![k].size = a.size, ![k].wr = orwr],
            rest |-> {Scalar(a.addr + a.size, 0, other.wr)}]
      ELSE [list |-> [list EXCEPT ![k].wr = orwr], rest |-> {}]

(***************************************************************************)
(* arg_info::solve_overlap: region a, not of an array, starts where        *)
(* list[k] does.  The result is the list with list[k] adjusted and, when   *)
(* one of the two regions is split, the remainder still to be inserted.    *)
(***************************************************************************)
solve_overlap(list, k, a) ==
  LET other == list[k]
      orwr  == a.wr \/ other.wr
  IN  CASE a.size = other.size ->
             [list |-> [list EXCEPT ![k].wr = orwr], rest |-> {}]
        [] a.size < other.size /\ orwr = other.wr ->
             [list |-> list, rest |-> {}]
        [] a.size < other.size /\ orwr # other.wr ->
             [list |-> [list EXCEPT ![k].size = a.size, ![k].wr = orwr],
              rest |-> {Scalar(a.addr + a.size, other.size - a.size, other.wr)}]
        [] a.size > other.size /\ orwr = a.wr ->
             [list |-> [list EXCEPT ![k].size = a.size, ![k].wr = orwr],
              rest |-> {}]
        [] a.size > other.size /\ orwr # a.wr ->
             [list |-> list,
              rest |-> {Scalar(a.addr + other.size, a.size - other.size, a.wr)}]

(***************************************************************************)
(* The number of regions of the list at or before address addr, which is   *)
(* where the walk of insert_in_arglist stops.                              *)
(***************************************************************************)
Preceding(list, addr) == Cardinality({ k \in DOMAIN list : list[k].addr <= addr })

InsertAfter(list, k, a) == SubSeq(list, 1, k) \o <<a>> \o SubSeq(list, k + 1, Len(list))

(***************************************************************************)
(* One call of insert_in_arglist, up to the next one.                      *)
(***************************************************************************)
insert_region(a, list) ==
  LET k == Preceding(list, a.addr)
  IN  IF ~ is_array(a) /\ k > 0 /\ list[k].addr = a.addr
      THEN solve_overlap(list, k, a)
      ELSE [list |-> InsertAfter(list, k, a), rest |-> {}]

(***************************************************************************)
(* Mutation of insert_in_arglist: the new region goes before the ones with *)
(* smaller addresses.                                                      *)
(***************************************************************************)
insert_in_arglist_AtHead(a, list) == <<a>> \o list

(***************************************************************************)
(* Every further call, for a remainder, starts from a later region of the  *)
(* list, and a region put into the list is the last: there are no more     *)
(* calls than regions in the list, and that one.                           *)
(***************************************************************************)
insert_in_arglist(a, list) ==
  LET call[n \in 0 .. Len(list) + 1] ==
        IF n = 0 THEN [list |-> list, rest |-> {a}]
        ELSE IF call[n - 1].rest = {} THEN call[n - 1]
        ELSE insert_region(CHOOSE r \in call[n - 1].rest : TRUE, call[n - 1].list)
  IN  call[Len(list) + 1].list

-----------------------------------------------------------------------------
Init ==
  /\ args = [s \in Side |-> <<>>]
  /\ nargs = [s \in Side |-> 0]
  /\ actuals = [s \in Side |-> {}]

(***************************************************************************)
(* Mutation of fill_args: the arguments are processed, but not counted.    *)
(***************************************************************************)
fill_args_Uncounted(s, a) ==
  /\ nargs[s] < MaxArgs[s]
  /\ Len(args[s]) < MaxArgs[s]
  /\ args' = [args EXCEPT ![s] = insert_in_arglist(a, @)]
  /\ actuals' = [actuals EXCEPT ![s] = @ \cup {a}]
  /\ UNCHANGED nargs

(***************************************************************************)
(* One argument of the spawn on side s, with its region a.                 *)
(***************************************************************************)
fill_args(s, a) ==
  /\ nargs[s] < MaxArgs[s]
  /\ args' = [args EXCEPT ![s] = insert_in_arglist(a, @)]
  /\ nargs' = [nargs EXCEPT ![s] = @ + 1]
  /\ actuals' = [actuals EXCEPT ![s] = @ \cup {a}]

Next == \E s \in Side, a \in Actual : fill_args(s, a)

Spec == Init /\ [][Next]_vars

-----------------------------------------------------------------------------
(***************************************************************************)
(* The lists are sequences of regions, none of them empty.                 *)
(***************************************************************************)
TypeOK ==
  /\ args \in [Side -> Seq(Region)]
  /\ nargs \in [Side -> Nat]
  /\ actuals \in [Side -> SUBSET Actual]

(***************************************************************************)
(* However often solve_overlap splits a region, the list has at most one   *)
(* element per argument: Workitem::insert_in_worklist copies it to argv,   *)
(* which it sizes by the number of arguments.                              *)
(***************************************************************************)
ArgvFits == \A s \in Side : Len(args[s]) <= nargs[s]

(***************************************************************************)
(* The copy is filled up to the null pointer that ends it: otherwise the   *)
(* entries between the end of the list and that of argv, which are never   *)
(* assigned (workitem.cpp, lines 58-64), are taken for arguments.          *)
(***************************************************************************)
ArgvFilled == \A s \in Side : Len(args[s]) = nargs[s]

(***************************************************************************)
(* insert_in_arglist keeps the list in order of address, one region per    *)
(* address except for arrays: what every walk over the list relies on.     *)
(***************************************************************************)
ListSorted ==
  \A s \in Side : \A i, j \in DOMAIN args[s] :
     i < j => \/ args[s][i].addr < args[s][j].addr
              \/ is_array(args[s][j]) /\ args[s][i].addr = args[s][j].addr

(***************************************************************************)
(* What is assumed of the arguments by the properties that follow: they    *)
(* are proved from it, and the values that TLC is given satisfy it.  No    *)
(* region of an array overlaps one of anything else, all the sections of   *)
(* an array have its rank (depspawn.cpp, line 417, asserts it) ...         *)
(***************************************************************************)
Apart ==
  \A r, s \in Actual :
     /\ overlaps(r, s) => (is_array(r) <=> is_array(s))
     /\ is_array(r) /\ is_array(s) /\ r.addr = s.addr => Len(r.range) = Len(s.range)

(***************************************************************************)
(* ... and they have elements.                                             *)
(***************************************************************************)
Filled == \A r \in Actual : \A d \in DOMAIN r.range : r.range[d][1] <= r.range[d][2]

(***************************************************************************)
(* Merging and splitting the regions of one call (solve_overlap) neither   *)
(* loses nor invents an access: a cell is accessed, or written, by the     *)
(* list exactly when some argument of the call accesses, or writes, it.    *)
(***************************************************************************)
CellsOf(regions) == UNION { Cells(a) : a \in regions }

AccessPreserved ==
  \A s \in Side :
     /\ Accessed(args[s]) = CellsOf(actuals[s])
     /\ Written(args[s]) = CellsOf({ a \in actuals[s] : a.wr })

(***************************************************************************)
(* No task passes an object together with a part of it, and where both     *)
(* tasks only read, they read the same objects: under this condition the   *)
(* merge walk of insert_in_worklist skips no region it should compare.     *)
(***************************************************************************)
Disjoint(a, b) == Cells(a) \cap Cells(b) = {}

Aligned ==
  /\ \A s \in Side : \A i, j \in DOMAIN args[s] :
        i < j /\ ~ is_array(args[s][i]) => Disjoint(args[s][i], args[s][j])
  /\ \A i \in DOMAIN args["old"], j \in DOMAIN args["new"] :
        LET o == args["old"][i]
            n == args["new"][j]
        IN  ~ o.wr /\ ~ n.wr => Disjoint(o, n) \/ Cells(o) = Cells(n)

ScanFinds == FirstConflict(args["old"], args["new"]) # NoConflict

(***************************************************************************)
(* The merge walk of insert_in_worklist finds a dependency exactly when    *)
(* one task writes a cell the other accesses, provided they are Aligned.   *)
(***************************************************************************)
AlignedScanComplete ==
  Aligned => (ScanFinds <=> Conflicting(args["old"], args["new"]))

(***************************************************************************)
(* The same without the condition on reads: what the documentation says    *)
(* of every argument (main.dox, "The fine print").                         *)
(***************************************************************************)
ScanComplete == Conflicting(args["old"], args["new"]) => ScanFinds

(***************************************************************************)
(* An argument that is not compared with older tasks any more is one the   *)
(* newer conflicting task takes over: its cells are accessed by that task, *)
(* and written by it if the argument is a scalar.                          *)
(***************************************************************************)
RemovalSound ==
  LET hit  == FirstConflict(args["old"], args["new"])
      left == RemoveCovered(args["old"], args["new"], hit)
      gone == Accessed(args["new"]) \ Accessed(left)
  IN  gone # {} =>
        IF is_array(args["new"][hit[2]])
        THEN gone \subseteq Accessed(args["old"])
        ELSE gone \subseteq Written(args["old"])

(***************************************************************************)
(* is_contained, which ends the search for dependencies at an ancestor,    *)
(* only accepts tasks whose every cell the ancestor declares.              *)
(***************************************************************************)
ContainedSound ==
  is_contained(args["new"], args["old"]) =>
     Accessed(args["new"]) \subseteq Accessed(args["old"])
=============================================================================
