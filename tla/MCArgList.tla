------------------------------ MODULE MCArgList ------------------------------
(***************************************************************************)
(* A structure of four bytes, its two halves, a scalar after it, and three *)
(* sections of one array.                                                  *)
(***************************************************************************)
EXTENDS ArgList

Section(low, high, wr) ==
  [addr |-> 8, size |-> 1, wr |-> wr, range |-> <<<<low, high>>>>]

MCActual ==
  { Scalar(b[1], b[2], wr) : b \in {<<0, 4>>, <<0, 2>>, <<2, 2>>, <<4, 2>>}, wr \in BOOLEAN }
  \cup { Section(r[1], r[2], wr) : r \in {<<0, 1>>, <<1, 2>>}, wr \in BOOLEAN }

MCMaxArgs == [old |-> 3, new |-> 2]

ASSUME Apart /\ Filled
=============================================================================
