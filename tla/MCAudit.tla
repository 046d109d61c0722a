------------------------------ MODULE MCAudit -------------------------------
(***************************************************************************)
(* Single proofs over logs of up to MaxLeaves leaves, past the first power  *)
(* of two that has a tree of every shape below it; audits of up to MaxAudit *)
(* leaves in pages of one, with one other request from the auditor's        *)
(* address, and buckets of two requests, until after the first time an idle *)
(* bucket is removed.                                                       *)
(***************************************************************************)
EXTENDS Audit

CONSTANTS auditor, other, home
MCRequests == {auditor, other}
MCClients == {home}
=============================================================================
