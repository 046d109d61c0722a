------------------------------- MODULE Audit -------------------------------
(***************************************************************************)
(* An audit of the public log by cmd/ledger-verify: it fetches a tree head, *)
(* all leaves below it page by page, some inclusion proofs and a            *)
(* consistency proof, each a request of its own that passes the rate        *)
(* limiter, while the log of the server grows.                              *)
(*                                                                         *)
(* The server is that of Merkle: it may fork its log at any time, and here   *)
(* it may also alter one page of leaves.  A behaviour has either an audit   *)
(* or a client that asks for a single proof; the latter is Merkle as it is. *)
(***************************************************************************)
EXTENDS Merkle, RateLimiter

CONSTANTS
    Auditor,   \* the goroutine that serves the auditor's requests
    Home,      \* the auditor's address; others may share it
    Samples,   \* the -samples flag
    PageSize,  \* how many leaves RangeLeaves answers at most
    MaxAudit   \* bound: the number of leaves of a log that is audited

ASSUME AuditorAssumption == Auditor \in Requests /\ Home \in Clients
ASSUME AuditAssumption ==
    /\ Samples \in Nat /\ PageSize \in Nat \ {0}
    /\ MaxAudit \in 1 .. MaxLeaves

VARIABLES
    step,     \* the request that is next or under way, or how the audit ended
    head,     \* the leaf hashes below the root of the tree head it fetched
    leaves,   \* the leaves fetched so far
    samples,  \* the inclusion proofs still to fetch
    tampered, \* the server altered a page of leaves
    refused   \* the limiter refused a request of the auditor

audit == <<step, head, leaves, samples, tampered, refused>>
auditVars == <<vars, limiter, audit>>

Asking == {"sth", "leaves", "inclusion", "consistency"}

-----------------------------------------------------------------------------
(* Faulty variants of the definitions below.                                *)

CurrentSize == n
RootUnchecked(ls) == TRUE

-----------------------------------------------------------------------------
(* The leaf records of the server.                                          *)

\* A leaf as /log/leaves answers it.  "intact" says that payload, signature and
\* prev_hash have the hash tx_hash and that the signature is the signer's.  The
\* leaf that is replaced becomes a signed transfer of more points than its signer
\* has, or a genesis where the log is chained anew from there; the leaves chained
\* anew after it keep what was signed.
Leaf(j) ==
    LET genesis == j = 1 /\ fork # {1} IN
    [index |-> j - 1,
     txHash |-> ServerLog[j],
     prevHash |-> IF j = 1 THEN EmptyRoot
                  ELSE IF j \in fork THEN ServerLog[j - 1] ELSE LeafHash(j - 1),
     type |-> IF genesis THEN "genesis" ELSE "transfer",
     covered |-> genesis \/ j \notin fork \/ j - 1 \in fork,
     intact |-> TRUE]

\* RangeLeaves: at most PageSize of the leaves from .. to - 1.
RangeLeaves(from, to) ==
    LET end == IF to - from > PageSize THEN from + PageSize ELSE to IN
    [k \in 1 .. end - from |-> Leaf(from + k)]

\* A page with one leaf left out, or with one that was tampered with.
AlteredPages(page) ==
    {SubSeq(page, 1, k - 1) \o SubSeq(page, k + 1, Len(page)) : k \in DOMAIN page}
        \cup {[page EXCEPT ![k].intact = FALSE] : k \in DOMAIN page}

-----------------------------------------------------------------------------
(* The checks of main.                                                      *)

TreeSize == Len(head)

HashesOf(ls) == [k \in DOMAIN ls |-> ls[k].txHash]

ChainOk(ls) ==
    \A k \in DOMAIN ls :
        ls[k].intact /\ ls[k].prevHash = IF k = 1 THEN EmptyRoot ELSE ls[k - 1].txHash

RootMatches(ls) == RootFromLeafHashes(HashesOf(ls)) = RootFromLeafHashes(head)

HasGenesis(ls) == \E k \in DOMAIN ls : ls[k].type = "genesis"

LeavesOk(ls) == Len(ls) = TreeSize /\ ChainOk(ls) /\ RootMatches(ls) /\ HasGenesis(ls)

InclusionOk(i) ==
    /\ ServerLog[i + 1] = leaves[i + 1].txHash
    /\ VerifyInclusion(RootFromLeafHashes(HashesOf(leaves)), ServerLog[i + 1], i, TreeSize,
                       inclusionProof(Take(ServerLog, TreeSize), i))

ConsistencyOk(mid) ==
    VerifyConsistency(RootFromLeafHashes(Take(HashesOf(leaves), mid)),
                      RootFromLeafHashes(HashesOf(leaves)), mid, TreeSize,
                      ConsistencyProof(Take(ServerLog, TreeSize), mid, TreeSize))

-----------------------------------------------------------------------------
(* The audit.                                                               *)

Send ==
    /\ step \in Asking
    /\ Arrive(Auditor, Home)
    /\ UNCHANGED <<vars, audit>>

\* Status 429, or the empty answer that it is decoded to, ends the audit.
Refuse ==
    /\ client[Auditor] # Nobody /\ ~ Admits(client[Auditor], at[Auditor])
    /\ Allow(Auditor)
    /\ step' = "fail" /\ refused' = TRUE
    /\ UNCHANGED <<vars, head, leaves, samples, tampered>>

\* The request is let through and answered from the log as it is then.
Answer(request) ==
    /\ step = request
    /\ client[Auditor] # Nobody /\ Admits(client[Auditor], at[Auditor])
    /\ Allow(Auditor)
    /\ UNCHANGED <<vars, refused>>

AnswerSTH ==
    /\ Answer("sth")
    /\ head' = ServerLog
    /\ step' = "leaves"
    /\ UNCHANGED <<leaves, samples, tampered>>

\* What follows once proofs of so many inclusions are left to check.
AfterSamples(k) ==
    IF k > 0 THEN "inclusion" ELSE IF TreeSize >= 2 THEN "consistency" ELSE "pass"

NextFrom == IF leaves = <<>> THEN 0 ELSE Last(leaves).index + 1

AnswerLeaves ==
    LET page == RangeLeaves(NextFrom, TreeSize) IN
    /\ Answer("leaves")
    /\ \/ leaves' = leaves \o page /\ UNCHANGED tampered
       \/ ~ tampered /\ tampered' = TRUE /\ \E p \in AlteredPages(page) : leaves' = leaves \o p
    /\ step' = IF leaves' = leaves THEN "fail"
               ELSE IF Last(leaves').index + 1 < TreeSize THEN "leaves"
               ELSE IF LeavesOk(leaves') THEN AfterSamples(samples) ELSE "fail"
    /\ UNCHANGED <<head, samples>>

\* The index is drawn at random.
AnswerInclusion(i) ==
    /\ Answer("inclusion")
    /\ samples' = samples - 1
    /\ step' = IF InclusionOk(i) THEN AfterSamples(samples - 1) ELSE "fail"
    /\ UNCHANGED <<head, leaves, tampered>>

AnswerConsistency ==
    /\ Answer("consistency")
    /\ step' = IF ConsistencyOk(TreeSize \div 2) THEN "pass" ELSE "fail"
    /\ UNCHANGED <<head, leaves, samples, tampered>>

-----------------------------------------------------------------------------
\* The others: the log grows or is forked, requests from the same or another
\* address come and go, time passes.
ServerStep ==
    /\ \/ n < MaxAudit /\ Grow
       \/ \E j \in 1 .. n : Fork(j)
    /\ UNCHANGED <<limiter, audit>>

OtherRequest ==
    /\ \/ \E r \in Requests \ {Auditor} : (\E c \in Clients : Arrive(r, c)) \/ Allow(r)
       \/ Tick
    /\ UNCHANGED <<vars, audit>>

SingleProof == Next /\ UNCHANGED <<limiter, audit>>

AuditInit ==
    /\ Init /\ LimiterInit
    /\ step \in {"none", "sth"}
    /\ head = <<>> /\ leaves = <<>> /\ samples = Samples
    /\ tampered = FALSE /\ refused = FALSE

AuditNext ==
    \/ step = "none" /\ SingleProof
    \/ /\ step # "none"
       /\ \/ Send \/ Refuse
          \/ AnswerSTH \/ AnswerLeaves \/ AnswerConsistency
          \/ \E i \in 0 .. TreeSize - 1 : AnswerInclusion(i)
          \/ ServerStep \/ OtherRequest

AuditSpec == AuditInit /\ [][AuditNext]_auditVars

-----------------------------------------------------------------------------
(* Properties.                                                              *)

\* The audit of a server that keeps to its log passes, however the log grows
\* between the requests; only the rate limiter can make it fail.
HonestServerPasses == step = "fail" => fork # {} \/ tampered \/ refused

\* An accepted log is the one below the signed root, whatever the server replaced
\* or altered and when, and it leaves the true log for good where it leaves it: a
\* server that replaced a leaf has to replace every leaf above it too.
AcceptedIsCommitted ==
    step = "pass" =>
        LET hashes == HashesOf(leaves)
            Replaces(k) == hashes[k] # TrueLog[k] IN
        /\ hashes = head
        /\ \A k \in 1 .. Len(hashes) - 1 : Replaces(k) => Replaces(k + 1)

\* "replays the ledger to recompute balances": no accepted log overdraws an
\* account.  The code has replayLedger and never calls it.
AcceptedLogsReplay == step = "pass" => \A k \in DOMAIN leaves : leaves[k].covered
=============================================================================
