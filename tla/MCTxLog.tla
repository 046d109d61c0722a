------------------------------ MODULE MCTxLog ------------------------------
(***************************************************************************)
(* Two requests of one sidecar process, which share its cache, and one of a *)
(* command (anchor-sth), which shares the table of checkpoints with them.   *)
(***************************************************************************)
EXTENDS TxLog, TLC

CONSTANTS r1, r2, r3, sidecar, command

MCProcessOf == r1 :> sidecar @@ r2 :> sidecar @@ r3 :> command
MCKinds == r1 :> {"proof"} @@ r2 :> {"sth", "anchor"} @@ r3 :> {"force"}
KeySymmetry == Permutations(SthKeys)
=============================================================================
