------------------------------- MODULE TxLog -------------------------------
(***************************************************************************)
(* The transparency log (internal/txlog/service.go) and its OTS anchoring   *)
(* (internal/ots, the anchor handler of internal/admin and the anchor-sth   *)
(* command).  Requests of several processes read the growing table of       *)
(* transactions through a cache that each process keeps and whose mutex is  *)
(* not held during the query; signed tree heads are kept in a table that    *)
(* all processes share, one for each tree size.                             *)
(*                                                                         *)
(* The leaf with index n - 1 is the number n, and a Merkle root is the      *)
(* sequence of leaves it stands for (a hash without collisions); module     *)
(* Merkle has the trees themselves.                                         *)
(***************************************************************************)
EXTENDS Naturals, Sequences

CONSTANTS
    Processes,   \* sidecar processes and commands
    Requests,    \* goroutines
    ProcessOf,   \* ProcessOf[r]: the process of goroutine r
    SthKeys,     \* keys that processes have signed tree heads with
    None,        \* NULL, or nothing
    Calendars,   \* what distinguishes the receipts of two submissions
    Kinds,       \* Kinds[r]: the kinds of requests that goroutine r serves
    MaxSize,     \* bound: the number of leaves
    MaxClock,    \* bound: the time
    MaxRestarts  \* bound: how many times a process restarts

ASSUME RequestsAssumption ==
    /\ DOMAIN ProcessOf = Requests
    /\ \A r \in Requests : ProcessOf[r] \in Processes
    /\ DOMAIN Kinds = Requests
    /\ \A r \in Requests : Kinds[r] \subseteq {"sth", "proof", "anchor", "force"}
ASSUME BoundsAssumption == MaxSize \in Nat /\ MaxClock \in Nat /\ MaxRestarts \in Nat

VARIABLES
    size,         \* committed rows of table transactions
    clock,        \* time.Now()
    checkpoints,  \* table checkpoints: tree size -> row
    snapshot,     \* the leaf hashes that each process has cached
    key,          \* the STH key that each process runs with
    pc, kind,     \* the step and the kind of request of each goroutine
    target,       \* the tree size that the request is about
    got,          \* the leaf hashes the request has
    held,         \* the tree head that an anchor request works on
    issued,       \* history: the tree heads that were answered
    restarts      \* restarts so far

database == <<size, clock, checkpoints>>
process == <<snapshot, key>>
locals == <<pc, kind, target, got, held>>
vars == <<size, clock, checkpoints, snapshot, key, pc, kind, target, got, held, issued, restarts>>

Leaves(n) == [i \in 1 .. n |-> i]

\* fp.sth.v1|size|root|timestamp, signed with key k.
Signature(k, n, root, ts) == [key |-> k, size |-> n, root |-> root, ts |-> ts]

Checkpoint(k, n, root, ts) ==
    [root |-> root, ts |-> ts, sig |-> Signature(k, n, root, ts), pub |-> k, receipt |-> None]

-----------------------------------------------------------------------------
(* Faulty variants of the definitions below.                                *)

KeepsLatest(p, leaves) == leaves
StartsAtCache(r) == Len(snapshot[ProcessOf[r]]) + 1
RereadsSize(r) == size
OwnTime(r, row) == clock
SignsAgain(n) == TRUE

-----------------------------------------------------------------------------
(* merkleSnapshot.                                                          *)

Goto(r, label) == pc' = [pc EXCEPT ![r] = label]

End(r) ==
    /\ Goto(r, "idle")
    /\ got' = [got EXCEPT ![r] = <<>>]
    /\ held' = [held EXCEPT ![r] = None]
    /\ target' = [target EXCEPT ![r] = 0]
    /\ kind' = [kind EXCEPT ![r] = None]

\* A request reads CurrentTreeSize.  A tree head is about that size, a proof
\* about any size up to it; force, as the command always does, skips the check for
\* an older receipt.
Ask(r) ==
    /\ pc[r] = "idle"
    /\ \E k \in Kinds[r] :
          /\ kind' = [kind EXCEPT ![r] = k]
          /\ \E n \in 0 .. size :
                /\ k = "proof" => n > 0
                /\ k # "proof" => n = size
                /\ target' = [target EXCEPT ![r] = n]
    /\ Goto(r, "cache")
    /\ UNCHANGED <<database, process, got, held, issued, restarts>>

\* Under the mutex: a prefix of the cache, or a copy of it to extend.
LookUp(r) ==
    LET cached == snapshot[ProcessOf[r]] IN
    /\ pc[r] = "cache"
    /\ IF target[r] <= Len(cached)
       THEN /\ got' = [got EXCEPT ![r] = SubSeq(cached, 1, target[r])]
            /\ Goto(r, "have")
       ELSE /\ got' = [got EXCEPT ![r] = cached]
            /\ Goto(r, "query")
    /\ UNCHANGED <<database, process, kind, target, held, issued, restarts>>

\* SELECT the leaves from the end of the copy to the target.
Start(r) == Len(got[r]) + 1

Query(r) ==
    /\ pc[r] = "query"
    /\ got' = [got EXCEPT ![r] = @ \o SubSeq(Leaves(size), Start(r), target[r])]
    /\ Goto(r, "install")
    /\ UNCHANGED <<database, process, kind, target, held, issued, restarts>>

\* What the cache of process p becomes: a smaller tree never replaces a larger.
Kept(p, leaves) == IF Len(leaves) >= Len(snapshot[p]) THEN leaves ELSE snapshot[p]

Install(r) ==
    LET p == ProcessOf[r] IN
    /\ pc[r] = "install"
    /\ snapshot' = [snapshot EXCEPT ![p] = Kept(p, got[r])]
    /\ Goto(r, "have")
    /\ UNCHANGED <<database, key, kind, target, got, held, issued, restarts>>

AnswerProof(r) ==
    /\ pc[r] = "have" /\ kind[r] = "proof"
    /\ End(r)
    /\ UNCHANGED <<database, process, issued, restarts>>

-----------------------------------------------------------------------------
(* persistCheckpoint.                                                       *)

\* The tree head of a row, as request r returns it.
StoredTime(r, row) == row.ts

Sth(r, row) == [size |-> target[r], root |-> row.root, ts |-> StoredTime(r, row),
                sig |-> row.sig, pub |-> row.pub]

\* The answer of a tree head request; an anchor request goes on with it, unless
\* the tree is empty.
Issue(r, row) ==
    /\ issued' = issued \cup {Sth(r, row)}
    /\ IF kind[r] \in {"anchor", "force"} /\ target[r] > 0
       THEN /\ held' = [held EXCEPT ![r] = Sth(r, row)]
            /\ Goto(r, IF kind[r] = "force" THEN "submit" ELSE "receipt")
            /\ UNCHANGED <<kind, target, got>>
       ELSE End(r)

NoCheckpoint(n) == n \notin DOMAIN checkpoints

\* INSERT ... ON CONFLICT DO NOTHING RETURNING.
InsertCheckpoint(r) ==
    LET n == target[r]
        row == Checkpoint(key[ProcessOf[r]], n, got[r], clock) IN
    /\ pc[r] = "have" /\ kind[r] # "proof"
    /\ IF NoCheckpoint(n)
       THEN /\ checkpoints' = [m \in DOMAIN checkpoints \cup {n} |->
                                  IF m = n THEN row ELSE checkpoints[m]]
            /\ Issue(r, row)
       ELSE /\ Goto(r, "load")
            /\ UNCHANGED <<checkpoints, kind, target, got, held, issued>>
    /\ UNCHANGED <<size, clock, process, restarts>>

\* The row is there: load it, compare the root, and see who signed it.
LoadCheckpoint(r) ==
    LET row == checkpoints[target[r]] IN
    /\ pc[r] = "load"
    /\ \/ row.root = got[r] /\ row.pub # None /\ Issue(r, row)
       \/ /\ row.root = got[r] /\ row.pub = None
          /\ row.sig = Signature(key[ProcessOf[r]], target[r], row.root, row.ts)
          /\ Goto(r, "backfill")
          /\ UNCHANGED <<kind, target, got, held, issued>>
       \/ /\ \/ row.root # got[r]
             \/ /\ row.pub = None
                /\ row.sig # Signature(key[ProcessOf[r]], target[r], row.root, row.ts)
          /\ End(r) /\ UNCHANGED issued
    /\ UNCHANGED <<database, process, restarts>>

\* checkpointPubKey: UPDATE ... WHERE admin_pubkey IS NULL.
BackfillPubKey(r) ==
    LET row == checkpoints[target[r]]
        filled == [row EXCEPT !.pub = IF @ = None THEN key[ProcessOf[r]] ELSE @] IN
    /\ pc[r] = "backfill"
    /\ checkpoints' = [checkpoints EXCEPT ![target[r]] = filled]
    /\ Issue(r, [row EXCEPT !.pub = key[ProcessOf[r]]])
    /\ UNCHANGED <<size, clock, process, restarts>>

-----------------------------------------------------------------------------
(* Anchoring.                                                               *)

\* The admin handler stops if there is a receipt; the command does not look.
ReadReceipt(r) ==
    /\ pc[r] = "receipt"
    /\ IF checkpoints[target[r]].receipt # None
       THEN End(r)
       ELSE Goto(r, "submit") /\ UNCHANGED <<kind, target, got, held>>
    /\ UNCHANGED <<database, process, issued, restarts>>

AnchoredSize(r) == held[r].size

\* The calendar answers with a receipt for the digest of the tree head, which
\* AnchorCheckpoint stores.
StoreReceipt(r) ==
    LET n == AnchoredSize(r) IN
    /\ pc[r] = "submit"
    /\ \E c \in Calendars :
          checkpoints' = IF n \in DOMAIN checkpoints
                         THEN [checkpoints EXCEPT ![n].receipt =
                                 [calendar |-> c, size |-> held[r].size,
                                  root |-> held[r].root, ts |-> held[r].ts]]
                         ELSE checkpoints
    /\ End(r)
    /\ UNCHANGED <<size, clock, process, issued, restarts>>

-----------------------------------------------------------------------------
(* The environment.                                                         *)

CommitLeaf ==
    /\ size < MaxSize
    /\ size' = size + 1
    /\ UNCHANGED <<clock, checkpoints, process, locals, issued, restarts>>

Tick ==
    /\ clock < MaxClock
    /\ clock' = clock + 1
    /\ UNCHANGED <<size, checkpoints, process, locals, issued, restarts>>

\* A restart forgets the cache and the requests, and may come with another key.
Restart(p) ==
    LET Reset(f, v) == [r \in Requests |-> IF ProcessOf[r] = p THEN v ELSE f[r]] IN
    /\ restarts < MaxRestarts
    /\ restarts' = restarts + 1
    /\ snapshot' = [snapshot EXCEPT ![p] = <<>>]
    /\ \E k \in SthKeys : key' = [key EXCEPT ![p] = k]
    /\ pc' = Reset(pc, "idle")
    /\ kind' = Reset(kind, None)
    /\ target' = Reset(target, 0)
    /\ got' = Reset(got, <<>>)
    /\ held' = Reset(held, None)
    /\ UNCHANGED <<database, issued>>

-----------------------------------------------------------------------------
\* The log may hold a leaf already, with a checkpoint that an older release
\* signed and stored without the key (migration 0004).
Init ==
    /\ size \in {0, 1}
    /\ clock = 1
    /\ \/ checkpoints = <<>>
       \/ /\ size = 1
          /\ \E k \in SthKeys :
                checkpoints = [n \in {1} |-> [Checkpoint(k, n, Leaves(n), 0) EXCEPT !.pub = None]]
    /\ snapshot = [p \in Processes |-> <<>>]
    /\ key \in [Processes -> SthKeys]
    /\ pc = [r \in Requests |-> "idle"]
    /\ kind = [r \in Requests |-> None]
    /\ target = [r \in Requests |-> 0]
    /\ got = [r \in Requests |-> <<>>]
    /\ held = [r \in Requests |-> None]
    /\ issued = {}
    /\ restarts = 0

Next ==
    \/ \E r \in Requests :
          \/ Ask(r) \/ LookUp(r) \/ Query(r) \/ Install(r) \/ AnswerProof(r)
          \/ InsertCheckpoint(r) \/ LoadCheckpoint(r) \/ BackfillPubKey(r)
          \/ ReadReceipt(r) \/ StoreReceipt(r)
    \/ \E p \in Processes : Restart(p)
    \/ CommitLeaf \/ Tick

Spec == Init /\ [][Next]_vars

-----------------------------------------------------------------------------
(* Properties.                                                              *)

\* The cache of every process is a prefix of the log, whichever requests of it
\* overlapped: no leaf is missing, doubled or out of place.
SnapshotsArePrefixes ==
    \A p \in Processes :
        Len(snapshot[p]) <= size /\ snapshot[p] = Leaves(Len(snapshot[p]))

\* A cache only grows until its process restarts: a slow request for a smaller
\* tree does not undo the work of a faster one.
CachesGrow ==
    [][\A p \in Processes :
          Len(snapshot'[p]) >= Len(snapshot[p]) \/ restarts' > restarts]_vars

\* Every tree head that was answered verifies: its signature is by the key it
\* names over the size, root and time it names, and its root is the log's.
IssuedVerify ==
    \A s \in issued : s.root = Leaves(s.size) /\ s.sig = Signature(s.pub, s.size, s.root, s.ts)

\* There is one tree head for each size: witnesses that compare theirs agree,
\* whichever process answered them, before or after a restart.
OneTreeHeadPerSize == \A s, t \in issued : s.size = t.size => s = t

\* A stored receipt timestamps the tree head that is stored beside it.
ReceiptsMatch ==
    \A n \in DOMAIN checkpoints :
        LET row == checkpoints[n] IN
        row.receipt # None =>
            /\ row.receipt.size = n
            /\ row.receipt.root = row.root /\ row.receipt.ts = row.ts
=============================================================================
