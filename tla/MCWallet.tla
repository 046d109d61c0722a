------------------------------ MODULE MCWallet ------------------------------
(***************************************************************************)
(* Two views of one account, so that one joins the other's request or       *)
(* overwrites it; accounts in one batch are answered together and do not    *)
(* affect each other.  Two submissions of a dialog and two tips.            *)
(***************************************************************************)
EXTENDS Wallet

CONSTANT target
MCIdOf == [v \in Views |-> target]
=============================================================================
