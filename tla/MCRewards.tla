----------------------------- MODULE MCRewards -----------------------------
(***************************************************************************)
(* Two webhook handlers of one sidecar process and a backfill command.      *)
(***************************************************************************)
EXTENDS Rewards, TLC

CONSTANTS h1, h2, cli

MCWorkers == {h1, h2, cli}
MCProcessOf == h1 :> "sidecar" @@ h2 :> "sidecar" @@ cli :> "ledger-admin"
=============================================================================
