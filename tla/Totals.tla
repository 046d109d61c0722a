------------------------------- MODULE Totals -------------------------------
(***************************************************************************)
(* The sum of a function with values in Nat, as the ledger's                *)
(* SELECT COALESCE(SUM(balance), 0) FROM accounts computes it.              *)
(*                                                                         *)
(* The sum is stated as a count: Units(f) holds one pair <<d, k>> for every  *)
(* unit k \in 1 .. f[d], and Total(f) is the number of pairs.  A count needs *)
(* no recursion, so the facts about it that conservation rests on are proved *)
(* (module TotalsTheorems) from the library's theorems about cardinality.    *)
(***************************************************************************)
EXTENDS Integers, FiniteSets

Units(f) == UNION {{d} \X (1 .. f[d]) : d \in DOMAIN f}

Total(f) == Cardinality(Units(f))
=============================================================================
