------------------------------ MODULE LedgerPG ------------------------------
(***************************************************************************)
(* The ledger's writers as PostgreSQL transactions (store/pgstore.go): each *)
(* statement of Apply and of the register handler is a step, statements of  *)
(* different transactions interleave, and what a transaction has written is *)
(* seen by the others only when it commits.                                 *)
(*                                                                         *)
(* The isolation is READ COMMITTED: a SELECT sees what is committed when it *)
(* runs plus the transaction's own writes; a write first locks its row,      *)
(* which waits while another open transaction has it, and then waits, with  *)
(* the row locked, while another one holds the key that it is to write and  *)
(* that UNIQUE has to protect.  Transactions that wait for each other in a  *)
(* circle are aborted.  Apply takes the advisory ledger lock first.  The    *)
(* register handler takes no lock.                                          *)
(***************************************************************************)
EXTENDS Totals, Sequences

CONSTANTS
    Ids, Keys, NoKey, SupplyCap, Amounts, MaxLog,  \* as in module Ledger
    Procs,        \* the goroutines (of any process) that serve requests
    Work,         \* Work[p]: the requests p may serve, any number of times each
    None          \* no row, no request, no holder of the lock

VARIABLES
    rows, pubkey, nonce, balance, log,  \* what is committed, as in module Ledger
    lock,     \* the holder of the advisory lock
    pc,       \* pc[p]: the statement that p runs next
    req,      \* req[p]: the request that p serves
    read,     \* read[p]: what p has read: the next leaf and the signer's row, or
              \* the registrant's
    todo,     \* todo[p]: the UPDATEs and upserts that p has still to send
    held,     \* held[p]: the rows p has locked
    pending,  \* pending[p]: the rows p has written, not yet committed
    overtaken \* history: a registration was committed over a row it had not seen

tables == <<rows, pubkey, nonce, balance, log>>
committed == <<rows, pubkey, nonce, balance, log, overtaken>>
vars == <<rows, pubkey, nonce, balance, log, lock, pc, req, read, todo, held, pending, overtaken>>

\* The committed tables are the state of the atomic ledger.
L == INSTANCE Ledger WITH rows <- rows, pubkey <- pubkey, nonce <- nonce,
                          balance <- balance, log <- log

\* The session of a registration names a user of Discourse.
Registration == [type : {"register"}, id : {i \in Ids : L!UserId(i)}, key : Keys]
Request == L!Tx \cup Registration

\* A row of table accounts.
Row == [pubkey : Keys \cup {NoKey}, nonce : Nat, balance : Nat]

\* The constants of module Ledger are what that module assumes of them.
ASSUME LedgerAssumption ==
    /\ Ids \subseteq Int /\ IsFiniteSet(Ids) /\ L!TreasuryDscID \in Ids
    /\ NoKey \notin Keys
    /\ SupplyCap \in Nat \ {0} /\ MaxLog \in Nat \ {0}
    /\ Amounts \subseteq Int /\ SupplyCap \in Amounts
ASSUME WorkAssumption ==
    /\ DOMAIN Work = Procs
    /\ \A p \in Procs : Work[p] \subseteq Request
ASSUME NoneAssumption == None \notin Procs \cup Request \cup Row \cup Ids

-----------------------------------------------------------------------------
(* Faulty variants of the definitions below.                                *)

ExcludedOnly(excluded, current) == excluded
LockKept(p) == lock' = lock

-----------------------------------------------------------------------------
(* Rows as transaction p sees them.                                         *)

RowOf(p, i) ==
    CASE i \in DOMAIN pending[p] -> pending[p][i]
      [] i \notin DOMAIN pending[p] /\ i \in rows ->
            [pubkey |-> pubkey[i], nonce |-> nonce[i], balance |-> balance[i]]
      [] OTHER -> None

KeyOf(p, i) == IF RowOf(p, i) = None THEN NoKey ELSE RowOf(p, i).pubkey

TotalSeenBy(p) ==
    Total([i \in Ids |-> IF RowOf(p, i) = None THEN 0 ELSE RowOf(p, i).balance])

\* The keys of the rows that p has locked, as they were and as p has written them.
HeldKeys(p) ==
    ({pubkey[j] : j \in held[p]} \cup {pending[p][j].pubkey : j \in DOMAIN pending[p]}) \ {NoKey}

\* UNIQUE (pubkey) refuses key k for row i.
KeyTaken(p, i, k) == k # NoKey /\ \E j \in Ids \ {i} : KeyOf(p, j) = k

-----------------------------------------------------------------------------
(* The end of a transaction.                                                *)

Active(p) == pc[p] # "idle"

LockFree(p) == lock = None

ReleaseLock(p) == lock' = IF lock = p THEN None ELSE lock

Close(p) ==
    /\ pc' = [pc EXCEPT ![p] = "idle"]
    /\ req' = [req EXCEPT ![p] = None]
    /\ read' = [read EXCEPT ![p] = None]
    /\ todo' = [todo EXCEPT ![p] = <<>>]
    /\ held' = [held EXCEPT ![p] = {}]
    /\ pending' = [pending EXCEPT ![p] = <<>>]
    /\ ReleaseLock(p)

\* An error return, a cancelled request, a lost connection or a crash of the
\* process: PostgreSQL forgets the writes and releases the locks.
Rollback(p) == Close(p) /\ UNCHANGED committed

Goto(p, label) == pc' = [pc EXCEPT ![p] = label]

-----------------------------------------------------------------------------
(* Apply, up to its writes.                                                 *)

Begin(p) ==
    /\ pc[p] = "idle"
    /\ \E r \in Work[p] :
          /\ req' = [req EXCEPT ![p] = r]
          /\ Goto(p, IF r.type = "register" THEN "registrant" ELSE "lock")
    /\ UNCHANGED <<committed, lock, read, todo, held, pending>>

LockLedger(p) ==
    /\ pc[p] = "lock"
    /\ LockFree(p)
    /\ lock' = p
    /\ Goto(p, "last")
    /\ UNCHANGED <<committed, req, read, todo, held, pending>>

\* The leaf index of the transaction is one more than the last one's.
LastTx(p) ==
    /\ pc[p] = "last"
    /\ IF Len(log) < MaxLog /\ (log = <<>> <=> req[p].type = "genesis")
       THEN /\ read' = [read EXCEPT ![p] = [leaf |-> Len(log) + 1, id |-> None]]
            /\ Goto(p, "signer")
            /\ UNCHANGED <<committed, lock, req, todo, held, pending>>
       ELSE Rollback(p)

\* What the payload alone decides.
WellFormed(tx) ==
    CASE tx.type = "genesis" -> tx.amount = SupplyCap /\ tx.signer = tx.to
      [] tx.type = "transfer" ->
            L!PositiveAmount(tx.amount) /\ L!UserId(tx.to) /\ tx.signer = tx.from
      [] tx.type = "rotate_key" -> tx.signer = tx.oldKey
      [] tx.type = "reclaim_invalid" ->
            L!PositiveAmount(tx.amount) /\ tx.from < L!TreasuryDscID /\ tx.signer = tx.admin

\* The row of the signer allows the transaction.
SignerMay(tx, i) ==
    /\ L!HoldsKey(i, tx.signer)
    /\ L!NextNonce(tx.nonce, i)
    /\ tx.type = "transfer" => L!NotSelf(i, tx.to) /\ L!HasFunds(i, tx.amount)
    /\ tx.type = "reclaim_invalid" => i = L!TreasuryDscID

\* The statements still to send: an upsert writes the whole row, a rekey sets
\* the key of the row that holds the old one, an attach the key of row id.
Upsert(i, k, n, b) == [op |-> "upsert", id |-> i, key |-> k, nonce |-> n, balance |-> b]

ReadSigner(p) ==
    LET tx == req[p] IN
    /\ pc[p] = "signer"
    /\ \/ /\ WellFormed(tx) /\ tx.type = "genesis"
          /\ read' = [read EXCEPT ![p].id = L!TreasuryDscID]
          /\ todo' = [todo EXCEPT ![p] = <<Upsert(L!TreasuryDscID, tx.to, 0, SupplyCap)>>]
          /\ Goto(p, "write")
          /\ UNCHANGED <<committed, lock, req, held, pending>>
       \/ \E i \in Ids :
          /\ WellFormed(tx) /\ tx.type = "rotate_key" /\ SignerMay(tx, i)
          /\ read' = [read EXCEPT ![p].id = i]
          /\ todo' = [todo EXCEPT ![p] =
                << Upsert(i, pubkey[i], tx.nonce, balance[i]),
                   [op |-> "rekey", old |-> tx.oldKey, key |-> tx.newKey] >>]
          /\ Goto(p, "write")
          /\ UNCHANGED <<committed, lock, req, held, pending>>
       \/ \E i \in Ids :
          /\ WellFormed(tx) /\ tx.type \in {"transfer", "reclaim_invalid"} /\ SignerMay(tx, i)
          /\ read' = [read EXCEPT ![p] =
                [leaf |-> @.leaf, id |-> i, key |-> pubkey[i], balance |-> balance[i]]]
          /\ Goto(p, "other")
          /\ UNCHANGED <<committed, lock, req, todo, held, pending>>
       \/ /\ ~ (WellFormed(tx) /\ (tx.type = "genesis" \/ \E i \in Ids : SignerMay(tx, i)))
          /\ Rollback(p)

-----------------------------------------------------------------------------
(* The second row: the recipient's, or the one that points are taken from.  *)

ReclaimableFrom(tx) ==
    tx.from \in rows /\ L!NotActivated(tx.from) /\ L!HasFunds(tx.from, tx.amount)

\* The balance, key and nonce written later are computed from the rows as they
\* were read: the signer's one statement ago, the other one now.
ReadOther(p) ==
    LET tx == req[p]
        signer == read[p] IN
    /\ pc[p] = "other"
    /\ \/ /\ tx.type = "transfer"
          /\ todo' = [todo EXCEPT ![p] =
                << Upsert(signer.id, signer.key, tx.nonce, signer.balance - tx.amount),
                   IF tx.to \in rows
                   THEN Upsert(tx.to, pubkey[tx.to], nonce[tx.to], balance[tx.to] + tx.amount)
                   ELSE Upsert(tx.to, NoKey, 0, tx.amount) >>]
          /\ Goto(p, "write")
          /\ UNCHANGED <<committed, lock, req, read, held, pending>>
       \/ /\ tx.type = "reclaim_invalid" /\ ReclaimableFrom(tx)
          /\ todo' = [todo EXCEPT ![p] =
                << Upsert(tx.from, NoKey, nonce[tx.from], balance[tx.from] - tx.amount),
                   Upsert(signer.id, signer.key, tx.nonce, signer.balance + tx.amount) >>]
          /\ Goto(p, "write")
          /\ UNCHANGED <<committed, lock, req, read, held, pending>>
       \/ /\ tx.type = "reclaim_invalid" /\ ~ ReclaimableFrom(tx)
          /\ Rollback(p)

\* The register handler's only read decides what it will write.
ReadRegistrant(p) ==
    LET r == req[p] IN
    /\ pc[p] = "registrant"
    /\ IF r.id \in rows => L!NotActivated(r.id)
       THEN /\ read' = [read EXCEPT ![p] =
                 [leaf |-> 0, id |-> IF r.id \in rows THEN r.id ELSE None]]
            /\ todo' = [todo EXCEPT ![p] =
                 IF r.id \in rows THEN << [op |-> "attach", id |-> r.id, key |-> r.key] >>
                 ELSE << Upsert(r.id, r.key, 0, 0) >>]
            /\ Goto(p, "write")
            /\ UNCHANGED <<committed, lock, req, held, pending>>
       ELSE Rollback(p)  \* 200 for the same key, 409 for another one

-----------------------------------------------------------------------------
(* The writes.                                                              *)

\* pubkey = COALESCE(EXCLUDED.pubkey, accounts.pubkey)
Coalesce(excluded, current) == IF excluded = NoKey THEN current ELSE excluded

\* The row that statement s of transaction p writes.
Target(p, s) ==
    IF s.op = "rekey" THEN CHOOSE i \in Ids : KeyOf(p, i) = s.old ELSE s.id

NewRow(p, s) ==
    LET i == Target(p, s) IN
    CASE s.op = "upsert" -> [pubkey |-> Coalesce(s.key, KeyOf(p, i)),
                             nonce |-> s.nonce, balance |-> s.balance]
      [] s.op \in {"rekey", "attach"} -> [RowOf(p, i) EXCEPT !.pubkey = s.key]

\* The next statement waits for the row that q has locked, or has locked its row
\* and waits for q to decide about the key that it writes.
RowWait(p, q) ==
    LET i == Target(p, Head(todo[p])) IN
    pc[p] = "write" /\ i \notin held[p] /\ i \in held[q]

KeyWait(p, q) ==
    LET s == Head(todo[p])
        i == Target(p, s)
        k == NewRow(p, s).pubkey IN
    /\ pc[p] = "write" /\ i \in held[p]
    /\ q # p /\ k # KeyOf(p, i) /\ k \in HeldKeys(q)

TakeRow(p) ==
    LET i == Target(p, Head(todo[p])) IN
    /\ pc[p] = "write" /\ i \notin held[p]
    /\ \A q \in Procs : ~ RowWait(p, q)
    /\ held' = [held EXCEPT ![p] = @ \cup {i}]
    /\ UNCHANGED <<committed, lock, pc, req, read, todo, pending>>

Write(p) ==
    LET s == Head(todo[p])
        i == Target(p, s)
        row == NewRow(p, s)
        registers == req[p].type = "register" IN
    /\ pc[p] = "write" /\ i \in held[p]
    /\ \A q \in Procs : ~ KeyWait(p, q)
    /\ IF KeyTaken(p, i, row.pubkey) THEN Rollback(p)
       ELSE /\ pending' = [pending EXCEPT ![p] =
                    [j \in DOMAIN pending[p] \cup {i} |-> IF j = i THEN row ELSE pending[p][j]]]
            /\ todo' = [todo EXCEPT ![p] = Tail(@)]
            /\ Goto(p, IF Len(todo[p]) > 1 THEN "write"
                       ELSE IF registers THEN "commit" ELSE "insert")
            /\ UNCHANGED <<committed, lock, req, read, held>>

\* leaf_index is the primary key: an open transaction with the same leaf has to
\* end first, and a committed one refuses the insert.
LeafWait(p, q) ==
    /\ pc[p] = "insert" /\ q # p
    /\ pc[q] \in {"check", "commit"} /\ req[q].type # "register"
    /\ read[q].leaf = read[p].leaf

InsertTx(p) ==
    /\ pc[p] = "insert"
    /\ \A q \in Procs : ~ LeafWait(p, q)
    /\ IF read[p].leaf = Len(log) + 1
       THEN Goto(p, "check") /\ UNCHANGED <<committed, lock, req, read, todo, held, pending>>
       ELSE Rollback(p)

requiresFullSupplyCheck(tx) == tx.type \in {"genesis", "reclaim_invalid"}

CheckSupply(p) ==
    /\ pc[p] = "check"
    /\ IF requiresFullSupplyCheck(req[p]) /\ TotalSeenBy(p) # SupplyCap
       THEN Rollback(p)
       ELSE Goto(p, "commit") /\ UNCHANGED <<committed, lock, req, read, todo, held, pending>>

\* Since p read the registrant's row, another transaction has created it, or has
\* given it another key.
Overtaken(p) ==
    LET i == req[p].id IN
    /\ req[p].type = "register"
    /\ IF read[p].id = None THEN i \in rows ELSE pubkey[i] \notin {NoKey, req[p].key}

Commit(p) ==
    LET Merge(f, col(_)) == [i \in Ids |-> IF i \in DOMAIN pending[p]
                                           THEN col(pending[p][i]) ELSE f[i]] IN
    /\ pc[p] = "commit"
    /\ rows' = rows \cup DOMAIN pending[p]
    /\ pubkey' = Merge(pubkey, LAMBDA row : row.pubkey)
    /\ nonce' = Merge(nonce, LAMBDA row : row.nonce)
    /\ balance' = Merge(balance, LAMBDA row : row.balance)
    /\ log' = IF req[p].type = "register" THEN log
              ELSE Append(log, [tx |-> req[p], by |-> read[p].id])
    /\ overtaken' = (overtaken \/ Overtaken(p))
    /\ Close(p)

Abort(p) == Active(p) /\ Rollback(p)

-----------------------------------------------------------------------------
(* Deadlocks.                                                               *)

\* p can run its next statement only when q has ended.
WaitsFor(p, q) ==
    \/ pc[p] = "lock" /\ ~ LockFree(p) /\ q = lock
    \/ RowWait(p, q) \/ KeyWait(p, q) \/ LeafWait(p, q)

\* Everyone in C waits for another one in C.
Stuck(C) == \A p \in C : \E q \in C : WaitsFor(p, q)

Circle(C) == Stuck(C) /\ \A D \in (SUBSET C) \ {{}} : Stuck(D) => D = C

\* PostgreSQL's deadlock detector aborts a transaction that waits in a circle.
Victim(p) == (\E C \in SUBSET Procs : p \in C /\ Circle(C)) /\ Rollback(p)

-----------------------------------------------------------------------------
Init ==
    /\ L!Init
    /\ lock = None
    /\ pc = [p \in Procs |-> "idle"]
    /\ req = [p \in Procs |-> None]
    /\ read = [p \in Procs |-> None]
    /\ todo = [p \in Procs |-> <<>>]
    /\ held = [p \in Procs |-> {}]
    /\ pending = [p \in Procs |-> <<>>]
    /\ overtaken = FALSE

\* The statements of an open transaction, each of which ends by itself.
Step(p) ==
    \/ LastTx(p) \/ ReadSigner(p) \/ ReadOther(p) \/ ReadRegistrant(p)
    \/ InsertTx(p) \/ CheckSupply(p) \/ Commit(p)

Next ==
    \E p \in Procs :
        \/ Begin(p) \/ LockLedger(p) \/ TakeRow(p) \/ Write(p) \/ Step(p)
        \/ Abort(p) \/ Victim(p)

Spec == Init /\ [][Next]_vars

\* A statement that does not wait ends.  Those that may wait (for the advisory
\* lock, for a row or for a key) are queued by PostgreSQL in order of arrival,
\* so none is overtaken for ever.  A circle is found after deadlock_timeout.  No
\* request has to arrive, and none to fail otherwise.
Fairness ==
    \A p \in Procs :
        /\ WF_vars(Step(p)) /\ WF_vars(Victim(p))
        /\ SF_vars(LockLedger(p)) /\ SF_vars(TakeRow(p)) /\ SF_vars(Write(p))

FairSpec == Spec /\ Fairness

-----------------------------------------------------------------------------
(* Properties.                                                              *)

\* The committed tables have their types, a transaction is open exactly while
\* it serves a request, and what it has written fits the columns and CHECKs.
TypeOK ==
    /\ L!TypeOK
    /\ lock \in Procs \cup {None}
    /\ pc \in [Procs -> {"idle", "lock", "last", "signer", "other", "registrant", "write",
                         "insert", "check", "commit"}]
    /\ \A p \in Procs :
          /\ req[p] \in Work[p] \cup {None} /\ (req[p] = None <=> ~ Active(p))
          /\ DOMAIN pending[p] \subseteq held[p] /\ held[p] \subseteq Ids
          /\ \A i \in DOMAIN pending[p] : pending[p][i] \in Row

\* Interleaved statement by statement, the transactions implement the atomic
\* ledger, each commit that changes the tables one of its actions, until a
\* registration is committed over a row that changed after it was read.
ImplementsLedger == L!Init /\ [][tables' # tables /\ ~ overtaken' => L!Next]_vars

\* Only a registration can close a circle: one that has locked its row and waits
\* for a key.  Transfers alone never wait for each other, although two of them
\* write the same two rows in opposite orders.
KeyWaiting(p) == req[p].type = "register" /\ \E q \in Procs : KeyWait(p, q)

CirclesNeedRegistration ==
    \A C \in (SUBSET Procs) \ {{}} : Stuck(C) => \E p \in C : KeyWaiting(p)

\* Every request is answered: its transaction commits or rolls back.
RequestsFinish == \A p \in Procs : Active(p) ~> ~ Active(p)

\* Whatever registrations overlap, they can cost nobody but the registrants: an
\* account that never registers while requests overlap has the balance the log
\* gives it, a registrant never more than that, so no points appear.
Registrants == {r.id : r \in UNION {Work[p] \cap Registration : p \in Procs}}

RacesOnlyLose ==
    \A i \in Ids :
        LET replayed == Total([n \in DOMAIN log |-> L!CreditOf(log[n], i)])
                        - Total([n \in DOMAIN log |-> L!DebitOf(log[n], i)]) IN
        balance[i] <= replayed /\ (i \notin Registrants => balance[i] = replayed)

\* The ledger's conservation invariant (ledger/README.md), as the statements
\* interleave.
SupplyConserved == L!SupplyConserved

\* A signed payload is applied once, however often it is submitted: SECURITY.md
\* lists transaction replay as defended, by the nonces.
PayloadAppliedOnce == \A m, n \in DOMAIN log : log[m].tx = log[n].tx => m = n
=============================================================================
