------------------------------ MODULE MCLedger ------------------------------
(***************************************************************************)
(* Constants for the model checking of Ledger: one legacy id, the treasury  *)
(* and two users, who share three keys; amounts include the ones the code   *)
(* refuses (zero and negative).                                             *)
(***************************************************************************)
EXTENDS Ledger, TLC

MCIds == {-1, 0, 1, 2}
MCAmounts == -1 .. SupplyCap
KeySymmetry == Permutations(Keys)
=============================================================================
