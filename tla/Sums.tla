-------------------------------- MODULE Sums --------------------------------
(***************************************************************************)
(* Sums of amounts over finite sets of rows, by counting the units that    *)
(* the rows stand for: a sum needs no order, and no recursion.             *)
(***************************************************************************)
EXTENDS Integers, FiniteSets

(* Each row's units, told apart by the row. *)
Units(f, rows) == UNION {{i} \X (1..f[i]) : i \in rows}

SumOver(f, rows) == Cardinality(Units(f, rows))
=============================================================================
