------------------------------- MODULE Totals -------------------------------
(***************************************************************************)
(* The total of a natural-valued function over a finite set of arguments,  *)
(* as the number of units it hands out: the k-th unit of x is <<x, k>>.    *)
(* Counting units instead of folding an addition keeps the definition      *)
(* within the reach of the theorems on finite sets.                        *)
(***************************************************************************)
EXTENDS Integers, FiniteSets

Units(f, S) == UNION {{x} \X (1 .. f[x]) : x \in S}

Total(f, S) == Cardinality(Units(f, S))
=============================================================================
