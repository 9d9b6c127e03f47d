------------------------------- MODULE Totals -------------------------------
(***************************************************************************)
(* The sum of the values of a function into the naturals.                  *)
(*                                                                         *)
(* A sum by recursion or by a fold can be evaluated but not proved about   *)
(* without induction.  This one counts units instead: a depositor who      *)
(* holds three wei owns the units <<d, 1>>, <<d, 2>>, <<d, 3>>, and the    *)
(* total is the number of units all depositors own.                        *)
(***************************************************************************)
EXTENDS Integers, FiniteSets

Units(f) == UNION {{d} \X (1..f[d]) : d \in DOMAIN f}

Total(f) == Cardinality(Units(f))

Least(a, b) == IF a < b THEN a ELSE b
=============================================================================
